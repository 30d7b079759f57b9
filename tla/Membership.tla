----------------------------- MODULE Membership -----------------------------
(***************************************************************************)
(* Who belongs to which account.                                           *)
(*                                                                         *)
(* A person registers with an account of their own, is invited to another, *)
(* accepts (which closes the first, when nothing is left in it), and is    *)
(* given a new account when its owner removes them.  Each use case reads   *)
(* the memberships, and writes them in a transaction that does not look at *)
(* them again: rows are updated by id, memberships are upserted.           *)
(* The status an administrator gives an account is in UsageSessions.tla.  *)
(***************************************************************************)
EXTENDS Integers, FiniteSets

CONSTANTS
    Users,                  \* the persons that may register
    Strangers,              \* e-mails that are invited and never register
    Invites,                \* calls that invite; an invitation is named after its call
    Accepts,                \* calls of AcceptInvitationUseCase
    Removals,               \* calls of RemoveMemberUseCase; each creates one account
    MaxAdditionalMembers,   \* column of the plans that can invite
    MaxSubscribed,          \* bound: accounts with a live subscription at a time
    None

\* The account a person registers with is named after the person, the account a removal
\* creates after the removal.
Accounts == Users \cup Removals
Emails == Users \cup Strangers

ASSUME MembershipAssumption ==
    /\ IsFiniteSet(Users) /\ IsFiniteSet(Invites)
    /\ IsFiniteSet(Accepts) /\ IsFiniteSet(Removals)
    /\ MaxAdditionalMembers \in Nat
    /\ MaxSubscribed \in Nat
    /\ Users \cap Removals = {}
    /\ Invites \cap Accepts = {} /\ Invites \cap Removals = {} /\ Accepts \cap Removals = {}
    /\ Users \cap Strangers = {}
    /\ None \notin Accounts \cup Emails \cup Invites \cup Accepts

VARIABLES
    users,          \* the users that exist
    accountStatus,  \* ACTIVE, CLOSED, or NONE
    role,           \* role[a][u]: column role of the row (a, u) of AccountMember, or NONE
    homes,          \* homes[u]: the accounts in which the membership of u is ACTIVE
    subscribed,     \* the accounts with a live subscription
    invitation,     \* the row each call of invite created
    invite,         \* the calls that invite
    accept,         \* the calls that accept
    removal,        \* the calls that remove
    crossed,        \* history: calls whose person's memberships changed after they read them
    miscounted,     \* history: calls whose account's members or invitations changed meanwhile
    unlimited,      \* history: invitations created without a limit to compare with
    usedLate        \* history: accounts joined or subscribed since they were found empty

tables == <<users, accountStatus, role, homes, subscribed, invitation>>
historyVars == <<crossed, miscounted, unlimited, usedLate>>
vars == <<users, accountStatus, role, homes, subscribed, invitation,
          invite, accept, removal, crossed, miscounted, unlimited, usedLate>>

Role == {"NONE", "OWNER", "MEMBER"}
InvitationStatus == {"NONE", "PENDING", "EXPIRED", "ACCEPTED"}

Invitation == [status : InvitationStatus,
               accountId : Accounts \cup {None},
               email : Emails \cup {None}]

Invite == [pc : {"idle", "member", "invited", "members", "invitations", "create", "done"},
           accountId : Accounts \cup {None},
           email : Emails \cup {None},
           limited : BOOLEAN,           \* there is a plan, with its limit
           activeMembers : Nat]

Accept == [pc : {"idle", "current", "close", "commit", "done"},
           userId : Users \cup {None},
           invitation : Invites \cup {None},
           current : Accounts \cup {None},
           owner : BOOLEAN]             \* current.role is OWNER

Removal == [pc : {"idle", "member", "remove", "done"},
            accountId : Accounts \cup {None},
            userId : Users \cup {None}]

NoInvitation == [status |-> "NONE", accountId |-> None, email |-> None]
NoInvite == [pc |-> "idle", accountId |-> None, email |-> None, limited |-> FALSE,
             activeMembers |-> 0]
NoAccept == [pc |-> "idle", userId |-> None, invitation |-> None, current |-> None,
             owner |-> FALSE]
NoRemoval == [pc |-> "idle", accountId |-> None, userId |-> None]

-----------------------------------------------------------------------------
\* Rows.

Pending(i) == invitation[i].status = "PENDING"
PendingOf(a) == {i \in Invites : Pending(i) /\ invitation[i].accountId = a}
PeopleOf(a) == {u \in Users : a \in homes[u]}
MembersOf(a) == {u \in PeopleOf(a) : role[a][u] = "MEMBER"}

\* The account an acceptance leads to.
Target(c) == invitation[accept[c].invitation].accountId

InviteIn(i, pc) == invite[i].pc = pc
AcceptIn(c, pc) == accept[c].pc = pc
RemovalIn(r, pc) == removal[r].pc = pc

InviteReads == UNCHANGED <<tables, accept, removal>>
AcceptReads == UNCHANGED <<tables, invite, removal>>
RemovalReads == UNCHANGED <<tables, invite, accept>>

\* A call that is refused has written nothing: it is as if it had not been made, and may
\* be made again.
Forget(calls) ==
    /\ crossed' = crossed \ calls
    /\ miscounted' = miscounted \ calls
    /\ UNCHANGED <<unlimited, usedLate>>

InviteGoto(i, pc) == invite' = [invite EXCEPT ![i] = [@ EXCEPT !.pc = pc]] /\ UNCHANGED historyVars
InviteFails(i) == invite' = [invite EXCEPT ![i] = NoInvite] /\ Forget({i})
AcceptGoto(c, pc) == accept' = [accept EXCEPT ![c] = [@ EXCEPT !.pc = pc]] /\ UNCHANGED historyVars
AcceptFails(c) == accept' = [accept EXCEPT ![c] = NoAccept] /\ Forget({c})
RemovalFails(r) == removal' = [removal EXCEPT ![r] = NoRemoval] /\ Forget({r})

\* History: the calls that have read the memberships of u, and are not the writer.
PersonChanges(u, writer) ==
    crossed' = crossed
        \cup {c \in Accepts \ {writer} : accept[c].pc \in {"close", "commit"} /\ accept[c].userId = u}
        \cup {r \in Removals \ {writer} : RemovalIn(r, "remove") /\ removal[r].userId = u}

\* History: the calls that have counted, or rely on, the members and invitations of the
\* accounts in as.
Miscounting(as, writer) ==
    {i \in Invites \ {writer} : invite[i].pc \in {"invited", "members", "invitations", "create"}
                                /\ invite[i].accountId \in as}
    \cup {c \in Accepts \ {writer} : accept[c].pc \in {"current", "close", "commit"}
                                     /\ Target(c) \in as}

\* Accounts that are closed, or have been found empty by a call that will close them.
Closing == {a \in Accounts : accountStatus[a] = "CLOSED"}
           \cup {accept[c].current : c \in {d \in Accepts : AcceptIn(d, "commit") /\ accept[d].owner}}

-----------------------------------------------------------------------------
\* RegisterUserUseCase.execute: the transaction; a second user with the email is refused.
Register(u) ==
    /\ u \notin users
    /\ users' = users \cup {u}
    /\ accountStatus' = [accountStatus EXCEPT ![u] = "ACTIVE"]
    /\ role' = [role EXCEPT ![u] = [@ EXCEPT ![u] = "OWNER"]]
    /\ homes' = [homes EXCEPT ![u] = {u}]
    /\ UNCHANGED <<subscribed, invitation, invite, accept, removal, historyVars>>

\* AdminController.createUser: a user without an account.
CreateUser(u) ==
    /\ u \notin users
    /\ users' = users \cup {u}
    /\ UNCHANGED <<accountStatus, role, homes, subscribed, invitation,
                   invite, accept, removal, historyVars>>

\* A code or a payment gives the account a subscription (Subscriptions.tla).
Subscribe(a) ==
    /\ accountStatus[a] # "NONE"
    /\ a \notin subscribed /\ Cardinality(subscribed) < MaxSubscribed
    /\ subscribed' = subscribed \cup {a}
    /\ usedLate' = usedLate \cup ({a} \cap Closing)
    /\ UNCHANGED <<users, accountStatus, role, homes, invitation, invite, accept, removal,
                   crossed, miscounted, unlimited>>

Lapse(a) ==
    /\ a \in subscribed
    /\ subscribed' = subscribed \ {a}
    /\ UNCHANGED <<users, accountStatus, role, homes, invitation, invite, accept, removal,
                   historyVars>>

-----------------------------------------------------------------------------
\* InviteMemberUseCase.execute and AdminInviteMemberUseCase.execute.

\* ownerMembership and resolve: an owner of an account that is ACTIVE and subscribed.
\* A plan that cannot invite, or an account an administrator suspended, is refused too.
FindOwned(i, owner, email) ==
    /\ InviteIn(i, "idle")
    /\ \E a \in homes[owner] :
          /\ accountStatus[a] = "ACTIVE" /\ role[a][owner] = "OWNER" /\ a \in subscribed
          /\ invite' = [invite EXCEPT ![i] = [NoInvite EXCEPT
                           !.pc = "member", !.accountId = a, !.email = email, !.limited = TRUE]]
    /\ UNCHANGED historyVars
    /\ InviteReads

\* account.findUniqueOrThrow with its subscription: the status is not looked at.
FindAccount(i, a, email) ==
    /\ InviteIn(i, "idle")
    /\ accountStatus[a] # "NONE"
    /\ invite' = [invite EXCEPT ![i] = [NoInvite EXCEPT
                     !.pc = "member", !.accountId = a, !.email = email,
                     !.limited = a \in subscribed]]
    /\ UNCHANGED historyVars
    /\ InviteReads

\* accountMember.findFirst, or ALREADY_MEMBER.
CheckMember(i) ==
    /\ InviteIn(i, "member")
    /\ IF invite[i].email \in PeopleOf(invite[i].accountId) THEN InviteFails(i)
       ELSE InviteGoto(i, "invited")
    /\ InviteReads

\* invitation.findFirst, or INVITATION_ALREADY_PENDING.
CheckInvited(i) ==
    /\ InviteIn(i, "invited")
    /\ IF \E j \in PendingOf(invite[i].accountId) : invitation[j].email = invite[i].email
       THEN InviteFails(i)
       ELSE InviteGoto(i, IF invite[i].limited THEN "members" ELSE "create")
    /\ InviteReads

\* Faulty variant of CountMembers: an owner, who is not an additional member, is taken off.
CountWithoutOwner(i) ==
    /\ InviteIn(i, "members")
    /\ invite' = [invite EXCEPT ![i] = [@ EXCEPT !.pc = "invitations",
                     !.activeMembers = Cardinality(MembersOf(invite[i].accountId)) - 1]]
    /\ UNCHANGED historyVars
    /\ InviteReads

\* accountMember.count of the ACTIVE members.
CountMembers(i) ==
    /\ InviteIn(i, "members")
    /\ invite' = [invite EXCEPT ![i] = [@ EXCEPT !.pc = "invitations",
                     !.activeMembers = Cardinality(MembersOf(invite[i].accountId))]]
    /\ UNCHANGED historyVars
    /\ InviteReads

\* Faulty variant of CountInvitations: the limit itself is let through.
CountBeyondLimit(i) ==
    /\ InviteIn(i, "invitations")
    /\ IF invite[i].activeMembers + Cardinality(PendingOf(invite[i].accountId)) > MaxAdditionalMembers
       THEN InviteFails(i) ELSE InviteGoto(i, "create")
    /\ InviteReads

\* invitation.count of the pending ones, or MEMBER_LIMIT_REACHED.
CountInvitations(i) ==
    /\ InviteIn(i, "invitations")
    /\ IF invite[i].activeMembers + Cardinality(PendingOf(invite[i].accountId)) >= MaxAdditionalMembers
       THEN InviteFails(i) ELSE InviteGoto(i, "create")
    /\ InviteReads

\* invitation.create.
CreateInvitation(i) ==
    /\ InviteIn(i, "create")
    /\ invitation' = [invitation EXCEPT ![i] =
          [status |-> "PENDING", accountId |-> invite[i].accountId, email |-> invite[i].email]]
    /\ miscounted' = miscounted \cup Miscounting({invite[i].accountId}, i)
    /\ unlimited' = IF invite[i].limited THEN unlimited ELSE unlimited \cup {i}
    /\ invite' = [invite EXCEPT ![i] = [@ EXCEPT !.pc = "done"]]
    /\ UNCHANGED <<users, accountStatus, role, homes, subscribed, accept, removal,
                   crossed, usedLate>>

\* INVITATION_TTL_HOURS pass.
Expire(i) ==
    /\ Pending(i)
    /\ invitation' = [invitation EXCEPT ![i] = [@ EXCEPT !.status = "EXPIRED"]]
    /\ miscounted' = miscounted \cup Miscounting({invitation[i].accountId}, None)
    /\ UNCHANGED <<users, accountStatus, role, homes, subscribed, invite, accept, removal,
                   crossed, unlimited, usedLate>>

-----------------------------------------------------------------------------
\* AcceptInvitationUseCase.execute.

\* user.findUniqueOrThrow, invitation.findUnique, or INVITATION_INVALID_OR_EXPIRED.
FindInvitation(c, u, i) ==
    /\ AcceptIn(c, "idle")
    /\ u \in users
    /\ Pending(i) /\ invitation[i].email = u
    /\ accept' = [accept EXCEPT ![c] = [NoAccept EXCEPT
                     !.pc = "current", !.userId = u, !.invitation = i]]
    /\ UNCHANGED historyVars
    /\ AcceptReads

\* accountMember.findFirst, in no order.  A member of another account is refused
\* (USER_ALREADY_IN_ANOTHER_ACCOUNT).
FindCurrent(c) ==
    /\ AcceptIn(c, "current")
    /\ LET u == accept[c].userId
       IN  \/ /\ homes[u] = {}
              /\ AcceptGoto(c, "commit")
           \/ \E a \in homes[u] :
                 \/ /\ a = Target(c)
                    /\ AcceptGoto(c, "commit")
                 \/ /\ a # Target(c) /\ role[a][u] = "OWNER"
                    /\ accept' = [accept EXCEPT ![c] =
                          [@ EXCEPT !.pc = "close", !.current = a, !.owner = TRUE]]
                    /\ UNCHANGED historyVars
                 \/ /\ a # Target(c) /\ role[a][u] # "OWNER"
                    /\ AcceptFails(c)
    /\ AcceptReads

\* Faulty variant of EnsureClosable: the other members are not counted.
EnsureUnsubscribed(c) ==
    /\ AcceptIn(c, "close")
    /\ \/ accept[c].current \notin subscribed /\ AcceptGoto(c, "commit")
       \/ AcceptFails(c)
    /\ AcceptReads

\* ensureCurrentAccountCanBeClosed: the three counts are sent together.  An ACTIVE device
\* is refused too, which is left open.
EnsureClosable(c) ==
    /\ AcceptIn(c, "close")
    /\ \/ /\ accept[c].current \notin subscribed
          /\ PeopleOf(accept[c].current) \subseteq {accept[c].userId}
          /\ AcceptGoto(c, "commit")
       \/ AcceptFails(c)
    /\ AcceptReads

\* Faulty variant of HomesAfter: the membership in the former account is kept.
HomesAndMore(c) == homes[accept[c].userId] \cup {Target(c)}

\* accountMember.update of the former membership, upsert of the new one.
HomesAfter(c) == (homes[accept[c].userId] \ {accept[c].current}) \cup {Target(c)}

\* The transaction: neither the former membership, nor the account, nor the invitation
\* is looked at again.
CommitAccept(c) ==
    /\ AcceptIn(c, "commit")
    /\ LET u == accept[c].userId
           a == Target(c)
           i == accept[c].invitation
       IN  /\ homes' = [homes EXCEPT ![u] = HomesAfter(c)]
           /\ accountStatus' = IF accept[c].owner
                               THEN [accountStatus EXCEPT ![accept[c].current] = "CLOSED"]
                               ELSE accountStatus
           /\ role' = [role EXCEPT ![a] = [@ EXCEPT ![u] = "MEMBER"]]
           /\ invitation' = [invitation EXCEPT ![i] = [@ EXCEPT !.status = "ACCEPTED"]]
           /\ PersonChanges(u, c)
           /\ miscounted' = miscounted \cup Miscounting({a} \cup ({accept[c].current} \ {None}), c)
           /\ usedLate' = usedLate \cup ({a} \cap (Closing \cup {accept[c].current}))
    /\ accept' = [accept EXCEPT ![c] = [@ EXCEPT !.pc = "done"]]
    /\ UNCHANGED <<users, subscribed, invite, removal, unlimited>>

-----------------------------------------------------------------------------
\* RemoveMemberUseCase.execute; what it does to devices and sessions is in Devices.tla,
\* UsageSessions.tla and AuthSessions.tla.

\* ownerMembership.
FindOwner(r, owner) ==
    /\ RemovalIn(r, "idle")
    /\ \E a \in homes[owner] :
          /\ accountStatus[a] = "ACTIVE" /\ role[a][owner] = "OWNER"
          /\ removal' = [removal EXCEPT ![r] = [NoRemoval EXCEPT !.pc = "member", !.accountId = a]]
    /\ UNCHANGED historyVars
    /\ RemovalReads

\* accountMember.findFirst with role MEMBER and status ACTIVE, or MEMBER_NOT_FOUND.
FindMember(r, u) ==
    /\ RemovalIn(r, "member")
    /\ IF u \in MembersOf(removal[r].accountId)
       THEN removal' = [removal EXCEPT ![r] = [@ EXCEPT !.pc = "remove", !.userId = u]]
            /\ UNCHANGED historyVars
       ELSE RemovalFails(r)
    /\ RemovalReads

\* The transaction: the membership is REMOVED by id, an account is created with its owner.
Remove(r) ==
    /\ RemovalIn(r, "remove")
    /\ LET u == removal[r].userId
           a == removal[r].accountId
       IN  /\ homes' = [homes EXCEPT ![u] = (@ \ {a}) \cup {r}]
           /\ accountStatus' = [accountStatus EXCEPT ![r] = "ACTIVE"]
           /\ role' = [role EXCEPT ![r] = [@ EXCEPT ![u] = "OWNER"]]
           /\ PersonChanges(u, r)
           /\ miscounted' = miscounted \cup Miscounting({a}, r)
    /\ removal' = [removal EXCEPT ![r] = [@ EXCEPT !.pc = "done"]]
    /\ UNCHANGED <<users, subscribed, invitation, invite, accept, unlimited, usedLate>>

-----------------------------------------------------------------------------
\* The process stops and starts again: the calls in flight are gone.
Crash ==
    /\ invite' = [i \in Invites |-> IF InviteIn(i, "done") THEN invite[i] ELSE NoInvite]
    /\ accept' = [c \in Accepts |-> IF AcceptIn(c, "done") THEN accept[c] ELSE NoAccept]
    /\ removal' = [r \in Removals |-> IF RemovalIn(r, "done") THEN removal[r] ELSE NoRemoval]
    /\ Forget({i \in Invites : ~InviteIn(i, "done")} \cup {c \in Accepts : ~AcceptIn(c, "done")}
              \cup {r \in Removals : ~RemovalIn(r, "done")})
    /\ UNCHANGED tables

Init ==
    /\ users = {}
    /\ accountStatus = [a \in Accounts |-> "NONE"]
    /\ role = [a \in Accounts |-> [u \in Users |-> "NONE"]]
    /\ homes = [u \in Users |-> {}]
    /\ subscribed = {}
    /\ invitation = [i \in Invites |-> NoInvitation]
    /\ invite = [i \in Invites |-> NoInvite]
    /\ accept = [c \in Accepts |-> NoAccept]
    /\ removal = [r \in Removals |-> NoRemoval]
    /\ crossed = {}
    /\ miscounted = {}
    /\ unlimited = {}
    /\ usedLate = {}

InviteStep(i) ==
    \/ CheckMember(i) \/ CheckInvited(i) \/ CountMembers(i) \/ CountInvitations(i)
    \/ CreateInvitation(i) \/ Expire(i)

AcceptStep(c) == FindCurrent(c) \/ EnsureClosable(c) \/ CommitAccept(c)

Next ==
    \/ \E u \in Users : Register(u) \/ CreateUser(u)
    \/ \E a \in Accounts : Subscribe(a) \/ Lapse(a)
    \/ \E i \in Invites :
          \/ \E owner \in users, email \in Emails : FindOwned(i, owner, email)
          \/ \E a \in Accounts, email \in Emails : FindAccount(i, a, email)
          \/ InviteStep(i)
    \/ \E c \in Accepts :
          \/ \E u \in users, i \in Invites : FindInvitation(c, u, i)
          \/ AcceptStep(c)
    \/ \E r \in Removals :
          \/ \E owner \in users : FindOwner(r, owner)
          \/ \E u \in users : FindMember(r, u)
          \/ Remove(r)
    \/ Crash

Spec == Init /\ [][Next]_vars

-----------------------------------------------------------------------------
\* Properties.

TypeOK ==
    /\ users \subseteq Users
    /\ accountStatus \in [Accounts -> {"NONE", "ACTIVE", "CLOSED"}]
    /\ role \in [Accounts -> [Users -> Role]]
    /\ homes \in [Users -> SUBSET Accounts]
    /\ subscribed \subseteq Accounts
    /\ invitation \in [Invites -> Invitation]
    /\ invite \in [Invites -> Invite]
    /\ accept \in [Accepts -> Accept]
    /\ removal \in [Removals -> Removal]
    /\ crossed \subseteq Accepts \cup Removals
    /\ miscounted \subseteq Invites \cup Accepts
    /\ unlimited \subseteq Invites
    /\ usedLate \subseteq Accounts

\* "Un usuario solo debe tener una membresia ACTIVE a la vez" (ARCHITECTURE.md): each
\* ACTIVE membership beyond the first comes from an acceptance or a removal of the person
\* that wrote what another one had changed since it read.
ExtraHomeWasCrossed ==
    \A u \in Users :
        Cardinality(homes[u]) <= 1
            + Cardinality({c \in crossed \cap Accepts : AcceptIn(c, "done") /\ accept[c].userId = u})
            + Cardinality({r \in crossed \cap Removals : RemovalIn(r, "done") /\ removal[r].userId = u})

\* Members and pending invitations stay within the plan, but for calls that were crossed
\* by a change of the same account, and for invitations an administrator creates while the
\* account has no plan.
ExtraMemberWasMiscounted ==
    \A a \in Accounts :
        Cardinality(MembersOf(a)) + Cardinality(PendingOf(a)) <= MaxAdditionalMembers
            + Cardinality({i \in miscounted \cup unlimited : i \in Invites /\ invite[i].accountId = a})
            + Cardinality({c \in miscounted \cap Accepts : AcceptIn(c, "done") /\ Target(c) = a})

\* An account is closed only when it is empty (ensureCurrentAccountCanBeClosed): a closed
\* account with a person or a subscription in it got them after it was found empty.
ClosedAccountWasEmpty ==
    \A a \in Accounts :
        accountStatus[a] = "CLOSED" /\ (PeopleOf(a) # {} \/ a \in subscribed) => a \in usedLate

\* Whatever is accepted and removed at a time, a person who has an account has one after
\* every step.
NobodyIsPutOut == [][\A u \in Users : homes[u] # {} => homes'[u] # {}]_vars

=============================================================================
