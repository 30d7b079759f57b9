-------------------------- MODULE MembershipProofs --------------------------
(***************************************************************************)
(* Proofs about Membership, for every finite set of persons, invitations,  *)
(* acceptances and removals.  IInv says what the calls remember and that   *)
(* an account about to be closed is empty; HInv adds that a call which was *)
(* not crossed still finds the memberships it read, and MInv that a call   *)
(* which was not miscounted has counted all there is; both count.          *)
(***************************************************************************)
EXTENDS Membership, FiniteSetTheorems, TLAPS

\* What a call has read it keeps, and a row is written by one call only.
CallsAreTyped ==
    /\ \A i \in Invites :
          /\ ~InviteIn(i, "idle") => invite[i].accountId \in Accounts /\ invite[i].email \in Emails
          /\ invitation[i].status # "NONE" =>
                InviteIn(i, "done") /\ invitation[i].accountId \in Accounts
    /\ \A c \in Accepts :
          /\ ~AcceptIn(c, "idle") =>
                /\ accept[c].userId \in Users
                /\ accept[c].invitation \in Invites
                /\ invitation[accept[c].invitation].status # "NONE"
          /\ accept[c].owner <=> accept[c].current # None
          /\ accept[c].pc \in {"idle", "current"} => accept[c].current = None
          /\ accept[c].current # None => accept[c].current # Target(c)
    /\ \A r \in Removals :
          /\ ~RemovalIn(r, "idle") => removal[r].accountId \in Accounts
          /\ removal[r].pc \in {"remove", "done"} => removal[r].userId \in Users

\* An account is referred to only when it exists, and created once.
AccountsExist ==
    /\ \A u \in Users : accountStatus[u] # "NONE" => u \in users
    /\ \A r \in Removals : accountStatus[r] # "NONE" => RemovalIn(r, "done")
    /\ \A u \in Users : \A a \in homes[u] : accountStatus[a] # "NONE"
    /\ \A a \in subscribed : accountStatus[a] # "NONE"
    /\ \A i \in Invites : ~InviteIn(i, "idle") => accountStatus[invite[i].accountId] # "NONE"
    /\ \A i \in Invites :
          invitation[i].status # "NONE" => accountStatus[invitation[i].accountId] # "NONE"
    /\ \A c \in Accepts : accept[c].current # None => accountStatus[accept[c].current] # "NONE"

\* From the check of ensureCurrentAccountCanBeClosed to the commit, the account that is
\* to be closed has nobody but its owner, and no subscription, unless it has been used.
ClosingIsEmpty ==
    \A c \in Accepts :
        AcceptIn(c, "commit") /\ accept[c].owner /\ accept[c].current \notin usedLate =>
            /\ accept[c].current \notin subscribed
            /\ \A u \in Users : accept[c].current \in homes[u] => u = accept[c].userId

\* ClosedAccountWasEmpty, person by person.
ClosedIsEmpty ==
    \A a \in Accounts :
        accountStatus[a] = "CLOSED" /\ a \notin usedLate =>
            a \notin subscribed /\ \A u \in Users : a \notin homes[u]

IInv ==
    /\ TypeOK
    /\ CallsAreTyped
    /\ AccountsExist
    /\ ClosingIsEmpty
    /\ ClosedIsEmpty

-----------------------------------------------------------------------------
\* Types.

LEMMA NoCallType == NoInvite \in Invite /\ NoAccept \in Accept /\ NoRemoval \in Removal
  BY DEF Invite, NoInvite, Accept, NoAccept, Removal, NoRemoval

InviteSteps == {"idle", "member", "invited", "members", "invitations", "create", "done"}
AcceptSteps == {"idle", "current", "close", "commit", "done"}
RemovalSteps == {"idle", "member", "remove", "done"}

LEMMA InviteGotoType ==
  ASSUME NEW x \in Invite, NEW pc \in InviteSteps
  PROVE  /\ [x EXCEPT !.pc = pc] \in Invite
         /\ \A n \in Nat : [x EXCEPT !.pc = pc, !.activeMembers = n] \in Invite
         /\ \A a \in Accounts, e \in Emails, b \in BOOLEAN :
               [NoInvite EXCEPT !.pc = pc, !.accountId = a, !.email = e, !.limited = b] \in Invite
  BY DEF Invite, NoInvite, InviteSteps

LEMMA AcceptGotoType ==
  ASSUME NEW x \in Accept, NEW pc \in AcceptSteps
  PROVE  /\ [x EXCEPT !.pc = pc] \in Accept
         /\ \A a \in Accounts, b \in BOOLEAN : [x EXCEPT !.pc = pc, !.current = a, !.owner = b] \in Accept
         /\ \A u \in Users, i \in Invites :
               [NoAccept EXCEPT !.pc = pc, !.userId = u, !.invitation = i] \in Accept
  BY DEF Accept, NoAccept, AcceptSteps

LEMMA RemovalGotoType ==
  ASSUME NEW x \in Removal, NEW pc \in RemovalSteps
  PROVE  /\ [x EXCEPT !.pc = pc] \in Removal
         /\ \A u \in Users : [x EXCEPT !.pc = pc, !.userId = u] \in Removal
         /\ \A a \in Accounts : [NoRemoval EXCEPT !.pc = pc, !.accountId = a] \in Removal
  BY DEF Removal, NoRemoval, RemovalSteps

LEMMA ForgetType ==
  ASSUME TypeOK, NEW calls, Forget(calls)
  PROVE  /\ crossed' \subseteq Accepts \cup Removals
         /\ miscounted' \subseteq Invites \cup Accepts
         /\ unlimited' \subseteq Invites
         /\ usedLate' \subseteq Accounts
  BY DEF TypeOK, Forget

LEMMA MiscountingType ==
  ASSUME NEW as, NEW writer
  PROVE  Miscounting(as, writer) \subseteq Invites \cup Accepts
  BY DEF Miscounting

LEMMA CrossedType ==
  ASSUME TypeOK, NEW u, NEW writer, PersonChanges(u, writer)
  PROVE  crossed' \subseteq Accepts \cup Removals
  BY DEF TypeOK, PersonChanges

LEMMA CountType ==
  ASSUME NEW a
  PROVE  Cardinality(MembersOf(a)) \in Nat
  <1>1. MembersOf(a) \subseteq Users
    BY DEF MembersOf, PeopleOf
  <1>2. IsFiniteSet(MembersOf(a))
    BY <1>1, FS_Subset, MembershipAssumption
  <1>3. QED
    BY <1>2, FS_CardinalityType

\* The steps of an invitation that only read.
LEMMA InviteReadsType ==
  ASSUME TypeOK, NEW i \in Invites,
         \/ \E owner \in users, email \in Emails : FindOwned(i, owner, email)
         \/ \E a \in Accounts, email \in Emails : FindAccount(i, a, email)
         \/ CheckMember(i) \/ CheckInvited(i) \/ CountMembers(i) \/ CountInvitations(i)
  PROVE  TypeOK'
  <1>1. /\ UNCHANGED <<users, accountStatus, role, homes, subscribed, invitation, accept, removal>>
        /\ UNCHANGED historyVars \/ Forget({i})
    BY DEF FindOwned, FindAccount, CheckMember, CheckInvited, CountMembers, CountInvitations,
           InviteReads, InviteGoto, InviteFails, tables
  <1>2. \E x \in Invite : invite' = [invite EXCEPT ![i] = x]
    <2>0. invite[i] \in Invite
      BY DEF TypeOK
    <2>1. ASSUME NEW owner \in users, NEW email \in Emails, FindOwned(i, owner, email)
          PROVE  \E x \in Invite : invite' = [invite EXCEPT ![i] = x]
      <3>1. PICK a \in homes[owner] :
               invite' = [invite EXCEPT ![i] = [NoInvite EXCEPT !.pc = "member",
                             !.accountId = a, !.email = email, !.limited = TRUE]]
        BY <2>1 DEF FindOwned
      <3>2. a \in Accounts
        BY DEF TypeOK
      <3>3. QED
        BY <2>0, <3>1, <3>2, InviteGotoType DEF InviteSteps
    <2>2. ASSUME NEW a \in Accounts, NEW email \in Emails, FindAccount(i, a, email)
          PROVE  \E x \in Invite : invite' = [invite EXCEPT ![i] = x]
      <3>1. (a \in subscribed) \in BOOLEAN
        OBVIOUS
      <3>2. QED
        BY <2>0, <2>2, <3>1, InviteGotoType DEF InviteSteps, FindAccount
    <2>3. CASE CheckMember(i) \/ CheckInvited(i) \/ CountInvitations(i)
      BY <2>0, <2>3, NoCallType, InviteGotoType DEF InviteSteps, CheckMember, CheckInvited, CountInvitations, InviteFails, InviteGoto
    <2>4. CASE CountMembers(i)
      BY <2>0, <2>4, CountType, InviteGotoType DEF InviteSteps, CountMembers
    <2>5. QED
      BY <2>1, <2>2, <2>3, <2>4
  <1>3. invite' \in [Invites -> Invite]
    BY <1>2 DEF TypeOK
  <1>4. QED
    BY <1>1, <1>3, ForgetType DEF TypeOK, historyVars

LEMMA CreateInvitationType ==
  ASSUME TypeOK, CallsAreTyped, NEW i \in Invites, CreateInvitation(i)
  PROVE  TypeOK'
  <1>1. invite' \in [Invites -> Invite]
    <2>1. invite[i] \in Invite /\ "done" \in InviteSteps
      BY DEF TypeOK, InviteSteps
    <2>2. [invite[i] EXCEPT !.pc = "done"] \in Invite
      BY <2>1, InviteGotoType
    <2>3. QED
      BY <2>2 DEF TypeOK, CreateInvitation
  <1>2. invitation' \in [Invites -> Invitation]
    BY DEF TypeOK, CallsAreTyped, CreateInvitation, InviteIn, Invite, Invitation, InvitationStatus
  <1>3. miscounted' \subseteq Invites \cup Accepts
    BY MiscountingType DEF TypeOK, CreateInvitation
  <1>4. QED
    BY <1>1, <1>2, <1>3 DEF TypeOK, CreateInvitation

LEMMA ExpireType ==
  ASSUME TypeOK, NEW i \in Invites, Expire(i)
  PROVE  TypeOK'
  <1>1. invitation' \in [Invites -> Invitation]
    BY DEF TypeOK, Expire, Invitation, InvitationStatus
  <1>2. miscounted' \subseteq Invites \cup Accepts
    BY MiscountingType DEF TypeOK, Expire
  <1>3. QED
    BY <1>1, <1>2 DEF TypeOK, Expire

\* The steps of an acceptance that only read.
LEMMA AcceptReadsType ==
  ASSUME TypeOK, CallsAreTyped, NEW c \in Accepts,
         \/ \E u \in users, i \in Invites : FindInvitation(c, u, i)
         \/ FindCurrent(c) \/ EnsureClosable(c)
  PROVE  TypeOK'
  <1>1. /\ UNCHANGED <<users, accountStatus, role, homes, subscribed, invitation, invite, removal>>
        /\ UNCHANGED historyVars \/ Forget({c})
    BY DEF FindInvitation, FindCurrent, EnsureClosable, AcceptReads, AcceptGoto, AcceptFails, tables
  <1>2. \E x \in Accept : accept' = [accept EXCEPT ![c] = x]
    <2>0. accept[c] \in Accept
      BY DEF TypeOK
    <2>1. ASSUME NEW u \in users, NEW i \in Invites, FindInvitation(c, u, i)
          PROVE  \E x \in Accept : accept' = [accept EXCEPT ![c] = x]
      BY <2>0, <2>1, AcceptGotoType DEF AcceptSteps, FindInvitation, TypeOK
    <2>2. CASE accept' = [accept EXCEPT ![c] = [@ EXCEPT !.pc = "commit"]] \/ AcceptFails(c)
      BY <2>0, <2>2, NoCallType, AcceptGotoType DEF AcceptSteps, AcceptFails
    <2>3. ASSUME NEW a \in Accounts,
                 accept' = [accept EXCEPT ![c] = [@ EXCEPT !.pc = "close", !.current = a, !.owner = TRUE]]
          PROVE  \E x \in Accept : accept' = [accept EXCEPT ![c] = x]
      BY <2>0, <2>3, AcceptGotoType DEF AcceptSteps
    <2>4. CASE EnsureClosable(c)
      BY <2>2, <2>4 DEF EnsureClosable, AcceptGoto
    <2>5. CASE FindCurrent(c)
      <3>1. accept[c].userId \in Users
        BY <2>5 DEF FindCurrent, CallsAreTyped, AcceptIn
      <3>2. homes[accept[c].userId] \subseteq Accounts
        BY <3>1 DEF TypeOK
      <3>3. QED
        BY <2>2, <2>3, <2>5, <3>2 DEF FindCurrent, AcceptGoto
    <2>6. QED
      BY <2>1, <2>4, <2>5
  <1>3. accept' \in [Accepts -> Accept]
    BY <1>2 DEF TypeOK
  <1>4. QED
    BY <1>1, <1>3, ForgetType DEF TypeOK, historyVars

\* A call that has begun leads to an account.
LEMMA TargetType ==
  ASSUME CallsAreTyped, NEW c \in Accepts, ~AcceptIn(c, "idle")
  PROVE  Target(c) \in Accounts
  BY DEF CallsAreTyped, Target

LEMMA CommitAcceptType ==
  ASSUME TypeOK, CallsAreTyped, NEW c \in Accepts, CommitAccept(c)
  PROVE  TypeOK'
  <1>1. /\ accept[c] \in Accept /\ accept[c].userId \in Users /\ accept[c].invitation \in Invites
        /\ Target(c) \in Accounts
    BY TargetType DEF TypeOK, CallsAreTyped, CommitAccept, AcceptIn
  <1>2. accept' \in [Accepts -> Accept]
    <2>1. [accept[c] EXCEPT !.pc = "done"] \in Accept
      BY <1>1, AcceptGotoType DEF AcceptSteps
    <2>2. QED
      BY <2>1 DEF TypeOK, CommitAccept
  <1>3. homes' \in [Users -> SUBSET Accounts]
    <2>1. HomesAfter(c) \subseteq Accounts
      BY <1>1 DEF TypeOK, HomesAfter
    <2>2. QED
      BY <1>1, <2>1 DEF TypeOK, CommitAccept
  <1>4. accountStatus' \in [Accounts -> {"NONE", "ACTIVE", "CLOSED"}]
    BY DEF TypeOK, CommitAccept
  <1>5. role' \in [Accounts -> [Users -> Role]]
    BY <1>1 DEF TypeOK, CommitAccept, Role
  <1>6. invitation' \in [Invites -> Invitation]
    BY <1>1 DEF TypeOK, CommitAccept, Invitation, InvitationStatus
  <1>7. crossed' \subseteq Accepts \cup Removals
    BY CrossedType DEF CommitAccept
  <1>8. miscounted' \subseteq Invites \cup Accepts /\ usedLate' \subseteq Accounts
    BY <1>1, MiscountingType DEF TypeOK, CommitAccept
  <1>9. QED
    BY <1>2, <1>3, <1>4, <1>5, <1>6, <1>7, <1>8 DEF TypeOK, CommitAccept

\* The steps of a removal that only read.
LEMMA RemovalReadsType ==
  ASSUME TypeOK, NEW r \in Removals,
         \/ \E owner \in users : FindOwner(r, owner)
         \/ \E u \in users : FindMember(r, u)
  PROVE  TypeOK'
  <1>1. /\ UNCHANGED <<users, accountStatus, role, homes, subscribed, invitation, invite, accept>>
        /\ UNCHANGED historyVars \/ Forget({r})
    BY DEF FindOwner, FindMember, RemovalReads, RemovalFails, tables
  <1>2. \E x \in Removal : removal' = [removal EXCEPT ![r] = x]
    <2>0. removal[r] \in Removal /\ users \subseteq Users
      BY DEF TypeOK
    <2>1. ASSUME NEW owner \in users, FindOwner(r, owner)
          PROVE  \E x \in Removal : removal' = [removal EXCEPT ![r] = x]
      <3>1. homes[owner] \subseteq Accounts
        BY <2>0 DEF TypeOK
      <3>2. QED
        BY <2>0, <2>1, <3>1, RemovalGotoType DEF RemovalSteps, FindOwner
    <2>2. ASSUME NEW u \in users, FindMember(r, u)
          PROVE  \E x \in Removal : removal' = [removal EXCEPT ![r] = x]
      BY <2>0, <2>2, NoCallType, RemovalGotoType DEF RemovalSteps, FindMember, RemovalFails
    <2>3. QED
      BY <2>1, <2>2
  <1>3. removal' \in [Removals -> Removal]
    BY <1>2 DEF TypeOK
  <1>4. QED
    BY <1>1, <1>3, ForgetType DEF TypeOK, historyVars

LEMMA RemoveType ==
  ASSUME TypeOK, CallsAreTyped, NEW r \in Removals, Remove(r)
  PROVE  TypeOK'
  <1>1. /\ removal[r] \in Removal /\ removal[r].userId \in Users /\ r \in Accounts
    BY DEF TypeOK, CallsAreTyped, Remove, RemovalIn, Accounts
  <1>2. removal' \in [Removals -> Removal]
    <2>1. [removal[r] EXCEPT !.pc = "done"] \in Removal
      BY <1>1, RemovalGotoType DEF RemovalSteps
    <2>2. QED
      BY <2>1 DEF TypeOK, Remove
  <1>3. homes' \in [Users -> SUBSET Accounts]
    BY <1>1 DEF TypeOK, Remove
  <1>4. accountStatus' \in [Accounts -> {"NONE", "ACTIVE", "CLOSED"}]
    BY <1>1 DEF TypeOK, Remove
  <1>5. role' \in [Accounts -> [Users -> Role]]
    BY <1>1 DEF TypeOK, Remove, Role
  <1>6. crossed' \subseteq Accepts \cup Removals
    BY CrossedType DEF Remove
  <1>7. miscounted' \subseteq Invites \cup Accepts
    BY MiscountingType DEF TypeOK, Remove
  <1>8. QED
    BY <1>2, <1>3, <1>4, <1>5, <1>6, <1>7 DEF TypeOK, Remove

LEMMA CrashType ==
  ASSUME TypeOK, Crash
  PROVE  TypeOK'
  <1>1. UNCHANGED <<users, accountStatus, role, homes, subscribed, invitation>>
    BY DEF Crash, tables
  <1>2. /\ crossed' \subseteq Accepts \cup Removals
        /\ miscounted' \subseteq Invites \cup Accepts
        /\ unlimited' \subseteq Invites
        /\ usedLate' \subseteq Accounts
    BY ForgetType DEF Crash
  <1>3. invite' \in [Invites -> Invite]
    BY NoCallType DEF TypeOK, Crash
  <1>4. accept' \in [Accepts -> Accept]
    BY NoCallType DEF TypeOK, Crash
  <1>5. removal' \in [Removals -> Removal]
    BY NoCallType DEF TypeOK, Crash
  <1>6. QED
    BY <1>1, <1>2, <1>3, <1>4, <1>5 DEF TypeOK

\* New persons, and the subscription of an account.
LEMMA RegisterType ==
  ASSUME TypeOK, NEW u \in Users, Register(u) \/ CreateUser(u)
  PROVE  TypeOK'
  <1>1. u \in Accounts
    BY DEF Accounts
  <1>2. CASE Register(u)
    <2>1. homes' \in [Users -> SUBSET Accounts]
      BY <1>1, <1>2 DEF TypeOK, Register
    <2>2. role' \in [Accounts -> [Users -> Role]]
      BY <1>1, <1>2 DEF TypeOK, Register, Role
    <2>3. QED
      BY <1>1, <1>2, <2>1, <2>2 DEF TypeOK, Register, historyVars
  <1>3. CASE CreateUser(u)
    BY <1>3 DEF TypeOK, CreateUser, historyVars
  <1>4. QED
    BY <1>2, <1>3

LEMMA SubscriptionType ==
  ASSUME TypeOK, NEW a \in Accounts, Subscribe(a) \/ Lapse(a)
  PROVE  TypeOK'
  BY DEF TypeOK, Subscribe, Lapse, historyVars

LEMMA InitType == Init => TypeOK
  <1> SUFFICES ASSUME Init PROVE TypeOK
    OBVIOUS
  <1>1. role \in [Accounts -> [Users -> Role]]
    BY DEF Init, Role
  <1>2. invitation \in [Invites -> Invitation]
    BY DEF Init, NoInvitation, Invitation, InvitationStatus
  <1>3. QED
    BY <1>1, <1>2, NoCallType DEF Init, TypeOK

-----------------------------------------------------------------------------
\* The inductive invariant, one lemma for each kind of step.

LEMMA InviteReadsKeepsInv ==
  ASSUME IInv, NEW i \in Invites, TypeOK',
         \/ \E owner \in users, email \in Emails : FindOwned(i, owner, email)
         \/ \E a \in Accounts, email \in Emails : FindAccount(i, a, email)
         \/ CheckMember(i) \/ CheckInvited(i) \/ CountMembers(i) \/ CountInvitations(i)
  PROVE  IInv'
  <1>1. UNCHANGED <<users, accountStatus, role, homes, subscribed, invitation, accept, removal, usedLate>>
    BY DEF FindOwned, FindAccount, CheckMember, CheckInvited, CountMembers, CountInvitations,
           InviteReads, InviteGoto, InviteFails, Forget, tables, historyVars
  <1>2. /\ ~InviteIn(i, "done")
        /\ \A j \in Invites \ {i} : invite'[j] = invite[j]
        /\ invite'[i].pc # "idle" =>
              /\ invite'[i].accountId \in Accounts /\ invite'[i].email \in Emails
              /\ accountStatus[invite'[i].accountId] # "NONE"
    <2>0. /\ invite[i] \in Invite /\ invite \in [Invites -> Invite]
          /\ users \subseteq Users /\ homes \in [Users -> SUBSET Accounts]
          /\ NoInvite.pc = "idle"
      BY DEF IInv, TypeOK, NoInvite
    <2>1. ASSUME NEW owner \in users, NEW email \in Emails, FindOwned(i, owner, email)
          PROVE  <1>2!:
      BY <2>0, <2>1 DEF FindOwned, InviteIn, NoInvite
    <2>2. ASSUME NEW a \in Accounts, NEW email \in Emails, FindAccount(i, a, email)
          PROVE  <1>2!:
      BY <2>0, <2>2 DEF FindAccount, InviteIn, NoInvite
    <2>3. CASE CheckMember(i) \/ CheckInvited(i) \/ CountMembers(i) \/ CountInvitations(i)
      <3>1. /\ ~InviteIn(i, "done") /\ ~InviteIn(i, "idle")
            /\ \/ \E pc \in InviteSteps : invite' = [invite EXCEPT ![i] = [@ EXCEPT !.pc = pc]]
               \/ \E pc \in InviteSteps, n \in Nat :
                     invite' = [invite EXCEPT ![i] = [@ EXCEPT !.pc = pc, !.activeMembers = n]]
               \/ invite' = [invite EXCEPT ![i] = NoInvite]
        BY <2>0, <2>3, CountType DEF CheckMember, CheckInvited, CountMembers, CountInvitations, InviteIn,
                            InviteGoto, InviteFails, InviteSteps
      <3>2. /\ invite[i].accountId \in Accounts /\ invite[i].email \in Emails
            /\ accountStatus[invite[i].accountId] # "NONE"
        BY <3>1 DEF IInv, CallsAreTyped, AccountsExist
      <3>3. /\ \A j \in Invites \ {i} : invite'[j] = invite[j]
            /\ \/ invite'[i].pc = "idle"
               \/ invite'[i].accountId = invite[i].accountId /\ invite'[i].email = invite[i].email
        BY <2>0, <3>1 DEF Invite
      <3>4. QED
        BY <3>1, <3>2, <3>3
    <2>4. QED
      BY <2>1, <2>2, <2>3
  <1>3. CallsAreTyped'
    BY <1>1, <1>2 DEF IInv, CallsAreTyped, InviteIn, AcceptIn, RemovalIn, Target
  <1>4. AccountsExist'
    BY <1>1, <1>2 DEF IInv, AccountsExist, InviteIn, RemovalIn
  <1>5. ClosingIsEmpty' /\ ClosedIsEmpty'
    BY <1>1 DEF IInv, ClosingIsEmpty, ClosedIsEmpty, AcceptIn
  <1>6. QED
    BY <1>3, <1>4, <1>5 DEF IInv

LEMMA CreateInvitationKeepsInv ==
  ASSUME IInv, NEW i \in Invites, TypeOK', CreateInvitation(i)
  PROVE  IInv'
  <1>1. UNCHANGED <<users, accountStatus, homes, subscribed, accept, removal, usedLate>>
    BY DEF CreateInvitation
  <1>2. /\ InviteIn(i, "create") /\ invitation[i].status = "NONE"
        /\ invite[i].accountId \in Accounts /\ accountStatus[invite[i].accountId] # "NONE"
    BY DEF IInv, TypeOK, CallsAreTyped, AccountsExist, CreateInvitation, InviteIn
  <1>3. /\ \A j \in Invites \ {i} : invite'[j] = invite[j] /\ invitation'[j] = invitation[j]
        /\ invite'[i].pc = "done" /\ invite'[i].accountId = invite[i].accountId
        /\ invite'[i].email = invite[i].email
        /\ invitation'[i].status = "PENDING" /\ invitation'[i].accountId = invite[i].accountId
    BY DEF IInv, TypeOK, CreateInvitation, Invite
  <1>4. CallsAreTyped'
    BY <1>1, <1>2, <1>3 DEF IInv, CallsAreTyped, InviteIn, AcceptIn, RemovalIn, Target
  <1>5. AccountsExist'
    BY <1>1, <1>2, <1>3 DEF IInv, AccountsExist, InviteIn, RemovalIn
  <1>6. ClosingIsEmpty' /\ ClosedIsEmpty'
    BY <1>1 DEF IInv, ClosingIsEmpty, ClosedIsEmpty, AcceptIn
  <1>7. QED
    BY <1>4, <1>5, <1>6 DEF IInv

LEMMA ExpireKeepsInv ==
  ASSUME IInv, NEW i \in Invites, TypeOK', Expire(i)
  PROVE  IInv'
  <1>1. /\ UNCHANGED <<users, accountStatus, homes, subscribed, invite, accept, removal, usedLate>>
        /\ invitation[i].status # "NONE"
    BY DEF Expire, Pending
  <1>2. \A j \in Invites : /\ invitation'[j].accountId = invitation[j].accountId
                           /\ invitation'[j].status = "NONE" <=> invitation[j].status = "NONE"
    BY <1>1 DEF IInv, TypeOK, Expire, Invitation
  <1>3. CallsAreTyped'
    BY <1>1, <1>2 DEF IInv, CallsAreTyped, InviteIn, AcceptIn, RemovalIn, Target
  <1>4. AccountsExist'
    BY <1>1, <1>2 DEF IInv, AccountsExist, InviteIn, RemovalIn
  <1>5. ClosingIsEmpty' /\ ClosedIsEmpty'
    BY <1>1 DEF IInv, ClosingIsEmpty, ClosedIsEmpty, AcceptIn
  <1>6. QED
    BY <1>3, <1>4, <1>5 DEF IInv

\* What a step that only reads leaves in the record of an acceptance.
Begun(c) == /\ accept'[c].pc = "current" /\ accept'[c].userId \in Users
            /\ accept'[c].invitation \in Invites
            /\ invitation[accept'[c].invitation].status # "NONE"
            /\ accept'[c].current = None /\ ~accept'[c].owner
Refused(c) == accept'[c] = NoAccept
Kept(c) == /\ accept[c].pc # "idle"
           /\ accept'[c].userId = accept[c].userId /\ accept'[c].invitation = accept[c].invitation
Homeless(c) == /\ Kept(c) /\ accept[c].pc = "current" /\ accept'[c].pc = "commit"
               /\ accept'[c].current = None /\ ~accept'[c].owner
Owning(c) == /\ Kept(c) /\ accept'[c].pc = "close" /\ accept'[c].owner
             /\ accept'[c].current \in Accounts /\ accept'[c].current # Target(c)
             /\ accountStatus[accept'[c].current] # "NONE"
Emptied(c) == /\ Kept(c) /\ accept'[c].pc = "commit"
              /\ accept'[c].current = accept[c].current /\ accept'[c].owner = accept[c].owner
              /\ accept[c].current \notin subscribed
              /\ PeopleOf(accept[c].current) \subseteq {accept[c].userId}

LEMMA AcceptReadsShape ==
  ASSUME IInv, NEW c \in Accepts,
         \/ \E u \in users, i \in Invites : FindInvitation(c, u, i)
         \/ FindCurrent(c) \/ EnsureClosable(c)
  PROVE  /\ \A d \in Accepts \ {c} : accept'[d] = accept[d]
         /\ Begun(c) \/ Refused(c) \/ Homeless(c) \/ Owning(c) \/ Emptied(c)
  <1>0. /\ accept[c] \in Accept /\ accept \in [Accepts -> Accept]
        /\ users \subseteq Users /\ homes \in [Users -> SUBSET Accounts]
    BY DEF IInv, TypeOK
  <1>1. ASSUME NEW u \in users, NEW i \in Invites, FindInvitation(c, u, i)
        PROVE  Begun(c) /\ \A d \in Accepts \ {c} : accept'[d] = accept[d]
    BY <1>0, <1>1 DEF FindInvitation, Begun, NoAccept, Pending
  <1>2. CASE AcceptFails(c)
    BY <1>0, <1>2 DEF AcceptFails, Refused
  <1>3. ASSUME AcceptGoto(c, "commit")
        PROVE  /\ accept[c].pc # "idle" => Kept(c)
               /\ accept'[c].pc = "commit" /\ accept'[c].current = accept[c].current
               /\ accept'[c].owner = accept[c].owner
               /\ \A d \in Accepts \ {c} : accept'[d] = accept[d]
    BY <1>0, <1>3 DEF AcceptGoto, Kept, Accept
  <1>4. CASE EnsureClosable(c)
    BY <1>2, <1>3, <1>4 DEF EnsureClosable, Emptied, AcceptIn
  <1>5. CASE FindCurrent(c)
    <2>1. /\ accept[c].pc = "current" /\ accept[c].userId \in Users
          /\ accept[c].current = None /\ ~accept[c].owner
      BY <1>5 DEF FindCurrent, AcceptIn, IInv, CallsAreTyped
    <2>2. CASE AcceptGoto(c, "commit")
      BY <1>3, <2>1, <2>2 DEF Homeless
    <2>3. ASSUME NEW a \in homes[accept[c].userId], a # Target(c),
                 accept' = [accept EXCEPT ![c] = [@ EXCEPT !.pc = "close", !.current = a, !.owner = TRUE]]
          PROVE  Owning(c) /\ \A d \in Accepts \ {c} : accept'[d] = accept[d]
      <3>1. a \in Accounts /\ accountStatus[a] # "NONE"
        BY <1>0, <2>1 DEF IInv, AccountsExist
      <3>2. QED
        BY <1>0, <2>1, <2>3, <3>1 DEF Owning, Kept, Accept
    <2>4. QED
      BY <1>2, <1>5, <2>2, <2>3 DEF FindCurrent
  <1>6. QED
    BY <1>1, <1>4, <1>5

LEMMA AcceptReadsKeepsInv ==
  ASSUME IInv, NEW c \in Accepts, TypeOK',
         \/ \E u \in users, i \in Invites : FindInvitation(c, u, i)
         \/ FindCurrent(c) \/ EnsureClosable(c)
  PROVE  IInv'
  <1>1. UNCHANGED <<users, accountStatus, role, homes, subscribed, invitation, invite, removal, usedLate>>
    BY DEF FindInvitation, FindCurrent, EnsureClosable, AcceptReads, AcceptGoto, AcceptFails,
           Forget, tables, historyVars
  <1>2. /\ \A d \in Accepts \ {c} : accept'[d] = accept[d]
        /\ Begun(c) \/ Refused(c) \/ Homeless(c) \/ Owning(c) \/ Emptied(c)
    BY AcceptReadsShape
  <1>3. None \notin Accounts
    BY MembershipAssumption
  <1>4. CallsAreTyped'
    BY <1>1, <1>2, <1>3 DEF IInv, CallsAreTyped, InviteIn, AcceptIn, RemovalIn, Target, NoAccept,
                       Begun, Refused, Kept, Homeless, Owning, Emptied
  <1>5. AccountsExist'
    BY <1>1, <1>2, <1>3 DEF IInv, AccountsExist, InviteIn, RemovalIn, NoAccept,
                       Begun, Refused, Kept, Homeless, Owning, Emptied
  <1>6. ClosingIsEmpty'
    BY <1>1, <1>2 DEF IInv, ClosingIsEmpty, AcceptIn, NoAccept, PeopleOf,
                       Begun, Refused, Kept, Homeless, Owning, Emptied
  <1>7. ClosedIsEmpty'
    BY <1>1 DEF IInv, ClosedIsEmpty
  <1>8. QED
    BY <1>4, <1>5, <1>6, <1>7 DEF IInv

LEMMA CommitAcceptKeepsInv ==
  ASSUME IInv, NEW c \in Accepts, TypeOK', CommitAccept(c)
  PROVE  IInv'
  <1> DEFINE u == accept[c].userId
             a == Target(c)
             b == accept[c].current
             i == accept[c].invitation
  <1>1. /\ UNCHANGED <<users, subscribed, invite, removal>> /\ AcceptIn(c, "commit")
        /\ u \in Users /\ a \in Accounts /\ i \in Invites /\ a # b
        /\ invitation[i].status # "NONE" /\ accountStatus[a] # "NONE"
        /\ accept[c].owner <=> b # None
        /\ b \in Accounts \cup {None} /\ None \notin Accounts
    BY TargetType, MembershipAssumption
       DEF IInv, TypeOK, CallsAreTyped, AccountsExist, CommitAccept, AcceptIn, Target, Accept
  <1>2. /\ homes'[u] = (homes[u] \ {b}) \cup {a}
        /\ \A v \in Users \ {u} : homes'[v] = homes[v]
    BY <1>1 DEF IInv, TypeOK, CommitAccept, HomesAfter
  <1>3. /\ b # None => accountStatus'[b] = "CLOSED" /\ accountStatus[b] # "NONE"
        /\ \A x \in Accounts \ {b} : accountStatus'[x] = accountStatus[x]
    BY <1>1 DEF IInv, TypeOK, CommitAccept, AccountsExist
  <1>4. /\ \A d \in Accepts \ {c} : accept'[d] = accept[d]
        /\ accept'[c].pc = "done" /\ accept'[c].userId = u /\ accept'[c].invitation = i
        /\ accept'[c].current = b /\ accept'[c].owner = accept[c].owner
    BY DEF IInv, TypeOK, CommitAccept, Accept
  <1>5. \A j \in Invites : /\ invitation'[j].accountId = invitation[j].accountId
                           /\ invitation'[j].status = "NONE" <=> invitation[j].status = "NONE"
    BY <1>1 DEF IInv, TypeOK, CommitAccept, Invitation
  <1>6. /\ usedLate \subseteq usedLate'
        /\ accountStatus[a] = "CLOSED" => a \in usedLate'
        /\ \A d \in Accepts : AcceptIn(d, "commit") /\ accept[d].owner /\ accept[d].current = a => a \in usedLate'
    BY <1>1 DEF CommitAccept, Closing
  <1> HIDE DEF u, a, b, i
  <1>7. CallsAreTyped'
    <2>1. \A d \in Accepts : ~AcceptIn(d, "idle") => Target(d)' = Target(d)
      BY <1>1, <1>4, <1>5 DEF IInv, CallsAreTyped, AcceptIn, Target, i
    <2>2. QED
      BY <1>1, <1>4, <1>5, <2>1 DEF IInv, CallsAreTyped, InviteIn, AcceptIn, RemovalIn, a, b
  <1>8. AccountsExist'
    <2>1. \A x \in Accounts : accountStatus'[x] = "NONE" <=> accountStatus[x] = "NONE"
      BY <1>1, <1>3
    <2>2. \A v \in Users : accountStatus'[v] # "NONE" => v \in users'
      BY <1>1, <2>1 DEF IInv, AccountsExist, Accounts
    <2>3. \A r \in Removals : accountStatus'[r] # "NONE" => RemovalIn(r, "done")'
      BY <1>1, <2>1 DEF IInv, AccountsExist, Accounts, RemovalIn
    <2>4. \A v \in Users : \A x \in homes'[v] : accountStatus'[x] # "NONE"
      BY <1>1, <1>2, <2>1 DEF IInv, TypeOK, AccountsExist
    <2>5. \A x \in subscribed' : accountStatus'[x] # "NONE"
      BY <1>1, <2>1 DEF IInv, TypeOK, AccountsExist
    <2>6. \A j \in Invites : ~InviteIn(j, "idle")' => accountStatus'[invite'[j].accountId] # "NONE"
      BY <1>1, <2>1 DEF IInv, CallsAreTyped, AccountsExist, InviteIn
    <2>7. \A j \in Invites :
             invitation'[j].status # "NONE" => accountStatus'[invitation'[j].accountId] # "NONE"
      BY <1>5, <2>1 DEF IInv, CallsAreTyped, AccountsExist
    <2>8. \A d \in Accepts :
             accept'[d].current # None => accountStatus'[accept'[d].current] # "NONE"
      <3>1. \A d \in Accepts : /\ accept'[d].current = accept[d].current
                               /\ accept[d].current \in Accounts \cup {None}
        BY <1>4 DEF IInv, TypeOK, Accept, b
      <3>2. QED
        BY <2>1, <3>1 DEF IInv, AccountsExist
    <2>9. QED
      BY <2>2, <2>3, <2>4, <2>5, <2>6, <2>7, <2>8 DEF AccountsExist
  <1>9. ClosingIsEmpty'
    BY <1>1, <1>2, <1>4, <1>6 DEF IInv, ClosingIsEmpty, AcceptIn
  <1>10. ClosedIsEmpty'
    BY <1>1, <1>2, <1>3, <1>6 DEF IInv, ClosingIsEmpty, ClosedIsEmpty, a, b, u
  <1>11. QED
    BY <1>7, <1>8, <1>9, <1>10 DEF IInv

LEMMA RemovalReadsKeepsInv ==
  ASSUME IInv, NEW r \in Removals, TypeOK',
         \/ \E owner \in users : FindOwner(r, owner)
         \/ \E u \in users : FindMember(r, u)
  PROVE  IInv'
  <1>1. UNCHANGED <<users, accountStatus, role, homes, subscribed, invitation, invite, accept, usedLate>>
    BY DEF FindOwner, FindMember, RemovalReads, RemovalFails, Forget, tables, historyVars
  <1>2. /\ ~RemovalIn(r, "done")
        /\ \A q \in Removals \ {r} : removal'[q] = removal[q]
        /\ removal'[r].pc # "idle" => removal'[r].accountId \in Accounts
        /\ removal'[r].pc \in {"remove", "done"} => removal'[r].userId \in Users
    <2>0. /\ removal[r] \in Removal /\ removal \in [Removals -> Removal]
          /\ users \subseteq Users /\ homes \in [Users -> SUBSET Accounts]
      BY DEF IInv, TypeOK
    <2>1. ASSUME NEW owner \in users, FindOwner(r, owner)
          PROVE  <1>2!:
      BY <2>0, <2>1 DEF FindOwner, RemovalIn, NoRemoval
    <2>2. ASSUME NEW u \in users, FindMember(r, u)
          PROVE  <1>2!:
      <3>1. RemovalIn(r, "member") /\ removal[r].accountId \in Accounts
        BY <2>2 DEF FindMember, RemovalIn, IInv, CallsAreTyped
      <3>2. CASE RemovalFails(r)
        BY <2>0, <3>1, <3>2 DEF RemovalFails, RemovalIn, NoRemoval
      <3>3. CASE removal' = [removal EXCEPT ![r] = [@ EXCEPT !.pc = "remove", !.userId = u]]
        BY <2>0, <3>1, <3>3 DEF RemovalIn, Removal
      <3>4. QED
        BY <2>2, <3>2, <3>3 DEF FindMember
    <2>3. QED
      BY <2>1, <2>2
  <1>3. CallsAreTyped'
    BY <1>1, <1>2 DEF IInv, CallsAreTyped, InviteIn, AcceptIn, RemovalIn, Target
  <1>4. AccountsExist'
    BY <1>1, <1>2 DEF IInv, AccountsExist, InviteIn, RemovalIn
  <1>5. ClosingIsEmpty' /\ ClosedIsEmpty'
    BY <1>1 DEF IInv, ClosingIsEmpty, ClosedIsEmpty, AcceptIn
  <1>6. QED
    BY <1>3, <1>4, <1>5 DEF IInv

\* A new account is nobody's and no call knows it.
LEMMA NewAccount ==
  ASSUME IInv, NEW n \in Accounts, accountStatus[n] = "NONE"
  PROVE  /\ n \notin subscribed /\ \A v \in Users : n \notin homes[v]
         /\ \A c \in Accepts : accept[c].owner => accept[c].current # n
  BY DEF IInv, AccountsExist, CallsAreTyped

\* An account is opened for a person, who may leave others.
LEMMA OpeningKeepsInv ==
  ASSUME IInv, TypeOK', NEW n \in Accounts, NEW u \in Users, accountStatus[n] = "NONE",
         accountStatus' = [accountStatus EXCEPT ![n] = "ACTIVE"],
         homes'[u] \subseteq homes[u] \cup {n}, \A v \in Users \ {u} : homes'[v] = homes[v],
         UNCHANGED <<subscribed, invitation, invite, accept, usedLate>>
  PROVE  /\ ClosingIsEmpty' /\ ClosedIsEmpty'
         /\ \A a \in Accounts : accountStatus[a] # "NONE" => accountStatus'[a] # "NONE"
         /\ \A v \in Users : \A a \in homes'[v] : accountStatus'[a] # "NONE"
         /\ \A a \in subscribed' : accountStatus'[a] # "NONE"
         /\ \A i \in Invites : ~InviteIn(i, "idle")' => accountStatus'[invite'[i].accountId] # "NONE"
         /\ \A i \in Invites :
               invitation'[i].status # "NONE" => accountStatus'[invitation'[i].accountId] # "NONE"
         /\ \A c \in Accepts : accept'[c].current # None => accountStatus'[accept'[c].current] # "NONE"
  <1>1. /\ n \notin subscribed /\ \A v \in Users : n \notin homes[v]
        /\ \A c \in Accepts : accept[c].owner => accept[c].current # n
    BY NewAccount
  <1>2. /\ accountStatus'[n] = "ACTIVE"
        /\ \A a \in Accounts \ {n} : accountStatus'[a] = accountStatus[a]
    BY DEF IInv, TypeOK
  <1>3. /\ subscribed \subseteq Accounts /\ homes \in [Users -> SUBSET Accounts]
        /\ \A c \in Accepts : accept[c].current \in Accounts \cup {None}
    BY DEF IInv, TypeOK, Accept
  <1>4. ClosingIsEmpty'
    BY <1>1 DEF IInv, ClosingIsEmpty, AcceptIn
  <1>5. ClosedIsEmpty'
    BY <1>1, <1>2 DEF IInv, ClosedIsEmpty
  <1>6. \A a \in Accounts : accountStatus[a] # "NONE" => accountStatus'[a] # "NONE"
    BY <1>2
  <1>7. \A v \in Users : \A a \in homes'[v] : accountStatus'[a] # "NONE"
    BY <1>2, <1>3, <1>6 DEF IInv, AccountsExist
  <1>8. \A a \in subscribed' : accountStatus'[a] # "NONE"
    BY <1>3, <1>6 DEF IInv, AccountsExist
  <1>9. \A i \in Invites : ~InviteIn(i, "idle")' => accountStatus'[invite'[i].accountId] # "NONE"
    BY <1>6 DEF IInv, AccountsExist, CallsAreTyped, InviteIn
  <1>10. \A i \in Invites :
            invitation'[i].status # "NONE" => accountStatus'[invitation'[i].accountId] # "NONE"
    BY <1>6 DEF IInv, AccountsExist, CallsAreTyped
  <1>11. \A c \in Accepts : accept'[c].current # None => accountStatus'[accept'[c].current] # "NONE"
    BY <1>3, <1>6 DEF IInv, AccountsExist
  <1>12. QED
    BY <1>4, <1>5, <1>6, <1>7, <1>8, <1>9, <1>10, <1>11

LEMMA RemoveKeepsInv ==
  ASSUME IInv, NEW r \in Removals, TypeOK', Remove(r)
  PROVE  IInv'
  <1>1. /\ RemovalIn(r, "remove") /\ r \in Accounts /\ removal[r].userId \in Users
        /\ accountStatus[r] = "NONE" /\ r \notin Users
        /\ UNCHANGED <<users, subscribed, invitation, invite, accept, usedLate>>
        /\ accountStatus' = [accountStatus EXCEPT ![r] = "ACTIVE"]
    BY MembershipAssumption DEF IInv, CallsAreTyped, AccountsExist, Remove, RemovalIn, Accounts
  <1>2. /\ homes'[removal[r].userId] \subseteq homes[removal[r].userId] \cup {r}
        /\ \A v \in Users \ {removal[r].userId} : homes'[v] = homes[v]
    BY <1>1 DEF IInv, TypeOK, Remove
  <1>3. /\ \A q \in Removals \ {r} : removal'[q] = removal[q]
        /\ removal'[r].pc = "done" /\ removal'[r].userId = removal[r].userId
        /\ removal'[r].accountId = removal[r].accountId
    BY DEF IInv, TypeOK, Remove, Removal
  <1>4. CallsAreTyped'
    BY <1>1, <1>3 DEF IInv, CallsAreTyped, InviteIn, AcceptIn, RemovalIn, Target
  <1>5. /\ \A u \in Users : accountStatus'[u] # "NONE" => u \in users'
        /\ \A q \in Removals : accountStatus'[q] # "NONE" => RemovalIn(q, "done")'
    BY <1>1, <1>3 DEF IInv, TypeOK, AccountsExist, RemovalIn, Accounts
  <1>6. QED
    BY <1>1, <1>2, <1>4, <1>5, OpeningKeepsInv DEF IInv, AccountsExist

LEMMA RegisterKeepsInv ==
  ASSUME IInv, NEW u \in Users, TypeOK', Register(u)
  PROVE  IInv'
  <1>1. /\ u \in Accounts /\ u \notin Removals /\ accountStatus[u] = "NONE" /\ users' = users \cup {u}
        /\ UNCHANGED <<subscribed, invitation, invite, accept, removal, usedLate>>
        /\ accountStatus' = [accountStatus EXCEPT ![u] = "ACTIVE"]
    BY MembershipAssumption DEF IInv, AccountsExist, Register, Accounts, historyVars
  <1>2. homes'[u] \subseteq homes[u] \cup {u} /\ \A v \in Users \ {u} : homes'[v] = homes[v]
    BY DEF IInv, TypeOK, Register
  <1>3. CallsAreTyped'
    BY <1>1 DEF IInv, CallsAreTyped, InviteIn, AcceptIn, RemovalIn, Target
  <1>4. /\ \A v \in Users : accountStatus'[v] # "NONE" => v \in users'
        /\ \A r \in Removals : accountStatus'[r] # "NONE" => RemovalIn(r, "done")'
    BY <1>1 DEF IInv, TypeOK, AccountsExist, RemovalIn, Accounts
  <1>5. QED
    BY <1>1, <1>2, <1>3, <1>4, OpeningKeepsInv DEF IInv, AccountsExist

LEMMA CreateUserKeepsInv ==
  ASSUME IInv, NEW u \in Users, TypeOK', CreateUser(u)
  PROVE  IInv'
  BY DEF IInv, CallsAreTyped, AccountsExist, ClosingIsEmpty, ClosedIsEmpty, CreateUser, historyVars,
         InviteIn, AcceptIn, RemovalIn, Target

LEMMA SubscriptionKeepsInv ==
  ASSUME IInv, NEW a \in Accounts, TypeOK', Subscribe(a) \/ Lapse(a)
  PROVE  IInv'
  <1>1. /\ UNCHANGED <<users, accountStatus, homes, invitation, invite, accept, removal>>
        /\ usedLate \subseteq usedLate'
        /\ subscribed' \subseteq subscribed \/ (subscribed' = subscribed \cup {a} /\ accountStatus[a] # "NONE")
    BY DEF Subscribe, Lapse, historyVars
  <1>2. a \in subscribed' \ subscribed /\ a \in Closing => a \in usedLate'
    BY DEF Subscribe, Lapse
  <1>3. CallsAreTyped' /\ AccountsExist'
    BY <1>1 DEF IInv, CallsAreTyped, AccountsExist, InviteIn, AcceptIn, RemovalIn, Target
  <1>4. ClosingIsEmpty' /\ ClosedIsEmpty'
    <2>1. \A x : x \in subscribed' \ subscribed /\ x \in Closing => x \in usedLate'
      BY <1>1, <1>2
    <2>2. \A c \in Accepts : AcceptIn(c, "commit") /\ accept[c].owner => accept[c].current \in Closing
      BY DEF Closing
    <2>3. \A x \in Accounts : accountStatus[x] = "CLOSED" => x \in Closing
      BY DEF Closing
    <2>4. QED
      BY <1>1, <2>1, <2>2, <2>3 DEF IInv, ClosingIsEmpty, ClosedIsEmpty, AcceptIn
  <1>5. QED
    BY <1>3, <1>4 DEF IInv

LEMMA CrashKeepsInv ==
  ASSUME IInv, TypeOK', Crash
  PROVE  IInv'
  <1>1. UNCHANGED <<users, accountStatus, homes, subscribed, invitation, usedLate>>
    BY DEF Crash, tables, Forget
  <1>2. /\ \A i \in Invites : invite'[i] = IF InviteIn(i, "done") THEN invite[i] ELSE NoInvite
        /\ \A c \in Accepts : accept'[c] = IF AcceptIn(c, "done") THEN accept[c] ELSE NoAccept
        /\ \A r \in Removals : removal'[r] = IF RemovalIn(r, "done") THEN removal[r] ELSE NoRemoval
    BY DEF Crash
  <1>3. CallsAreTyped'
    BY <1>1, <1>2 DEF IInv, CallsAreTyped, InviteIn, AcceptIn, RemovalIn, Target,
                       NoInvite, NoAccept, NoRemoval
  <1>4. AccountsExist'
    BY <1>1, <1>2 DEF IInv, AccountsExist, InviteIn, RemovalIn, NoInvite, NoAccept, NoRemoval
  <1>5. ClosingIsEmpty' /\ ClosedIsEmpty'
    BY <1>1, <1>2 DEF IInv, ClosingIsEmpty, ClosedIsEmpty, AcceptIn, NoAccept
  <1>6. QED
    BY <1>3, <1>4, <1>5 DEF IInv

LEMMA InitInv == Init => IInv
  <1> SUFFICES ASSUME Init PROVE IInv
    OBVIOUS
  <1>1. TypeOK
    BY InitType
  <1>2. /\ \A i \in Invites : invitation[i].status = "NONE" /\ invite[i].pc = "idle"
        /\ \A c \in Accepts : accept[c].pc = "idle" /\ accept[c].current = None /\ ~accept[c].owner
        /\ \A r \in Removals : removal[r].pc = "idle"
        /\ \A a \in Accounts : accountStatus[a] = "NONE"
        /\ \A u \in Users : homes[u] = {}
        /\ subscribed = {}
    BY DEF Init, NoInvitation, NoInvite, NoAccept, NoRemoval
  <1>3. CallsAreTyped
    BY <1>2 DEF CallsAreTyped, InviteIn, AcceptIn, RemovalIn
  <1>4. AccountsExist
    BY <1>2 DEF AccountsExist, InviteIn, Accounts
  <1>5. ClosingIsEmpty /\ ClosedIsEmpty
    BY <1>2 DEF ClosingIsEmpty, ClosedIsEmpty, AcceptIn
  <1>6. QED
    BY <1>1, <1>3, <1>4, <1>5 DEF IInv

LEMMA NextInv == IInv /\ [Next]_vars => IInv'
  <1> SUFFICES ASSUME IInv, [Next]_vars PROVE IInv'
    OBVIOUS
  <1>0. TypeOK /\ CallsAreTyped
    BY DEF IInv
  <1>1. CASE UNCHANGED vars
    BY <1>1 DEF vars, IInv, TypeOK, CallsAreTyped, AccountsExist, ClosingIsEmpty, ClosedIsEmpty,
                InviteIn, AcceptIn, RemovalIn, Target
  <1>2. ASSUME NEW u \in Users, Register(u) \/ CreateUser(u)
        PROVE  IInv'
    BY <1>0, <1>2, RegisterType, RegisterKeepsInv, CreateUserKeepsInv
  <1>3. ASSUME NEW a \in Accounts, Subscribe(a) \/ Lapse(a)
        PROVE  IInv'
    BY <1>0, <1>3, SubscriptionType, SubscriptionKeepsInv
  <1>4. ASSUME NEW i \in Invites,
               \/ \E owner \in users, email \in Emails : FindOwned(i, owner, email)
               \/ \E a \in Accounts, email \in Emails : FindAccount(i, a, email)
               \/ CheckMember(i) \/ CheckInvited(i) \/ CountMembers(i) \/ CountInvitations(i)
        PROVE  IInv'
    BY <1>0, <1>4, InviteReadsType, InviteReadsKeepsInv
  <1>5. ASSUME NEW i \in Invites, CreateInvitation(i) \/ Expire(i)
        PROVE  IInv'
    BY <1>0, <1>5, CreateInvitationType, ExpireType, CreateInvitationKeepsInv, ExpireKeepsInv
  <1>6. ASSUME NEW c \in Accepts,
               \/ \E u \in users, i \in Invites : FindInvitation(c, u, i)
               \/ FindCurrent(c) \/ EnsureClosable(c)
        PROVE  IInv'
    BY <1>0, <1>6, AcceptReadsType, AcceptReadsKeepsInv
  <1>7. ASSUME NEW c \in Accepts, CommitAccept(c)
        PROVE  IInv'
    BY <1>0, <1>7, CommitAcceptType, CommitAcceptKeepsInv
  <1>8. ASSUME NEW r \in Removals,
               \/ \E owner \in users : FindOwner(r, owner)
               \/ \E u \in users : FindMember(r, u)
        PROVE  IInv'
    BY <1>0, <1>8, RemovalReadsType, RemovalReadsKeepsInv
  <1>9. ASSUME NEW r \in Removals, Remove(r)
        PROVE  IInv'
    BY <1>0, <1>9, RemoveType, RemoveKeepsInv
  <1>10. CASE Crash
    BY <1>0, <1>10, CrashType, CrashKeepsInv
  <1>11. QED
    BY <1>1, <1>2, <1>3, <1>4, <1>5, <1>6, <1>7, <1>8, <1>9, <1>10 DEF Next, InviteStep, AcceptStep

LEMMA InductiveInvariant == Spec => []IInv
  BY InitInv, NextInv, PTL DEF Spec

\* Every reachable state is type-correct, for any finite set of persons.
THEOREM TypeCorrect == Spec => []TypeOK
  <1>1. IInv => TypeOK
    BY DEF IInv
  <1>2. QED
    BY <1>1, InductiveInvariant, PTL

\* ensureCurrentAccountCanBeClosed is checked outside of the transaction that closes the
\* account; whoever is found in a closed account came between the check and now.
THEOREM ClosedAccountsWereEmpty == Spec => []ClosedAccountWasEmpty
  <1>1. IInv => ClosedAccountWasEmpty
    BY DEF IInv, ClosedIsEmpty, ClosedAccountWasEmpty, PeopleOf
  <1>2. QED
    BY <1>1, InductiveInvariant, PTL

\* No acceptance and no removal leaves the person without an account, whatever else has
\* happened since it read the memberships.
THEOREM NobodyIsEverPutOut == Spec => NobodyIsPutOut
  <1>1. IInv /\ [Next]_vars => [\A u \in Users : homes[u] # {} => homes'[u] # {}]_vars
    <2> SUFFICES ASSUME IInv, Next
                 PROVE  \A u \in Users : homes[u] # {} => homes'[u] # {}
      OBVIOUS
    <2>1. homes \in [Users -> SUBSET Accounts]
      BY DEF IInv, TypeOK
    <2>2. ASSUME NEW v \in Users, Register(v)
          PROVE  \A u \in Users : homes[u] # {} => homes'[u] # {}
      BY <2>1, <2>2 DEF Register
    <2>3. ASSUME NEW c \in Accepts, CommitAccept(c)
          PROVE  \A u \in Users : homes[u] # {} => homes'[u] # {}
      BY <2>1, <2>3 DEF CommitAccept, HomesAfter
    <2>4. ASSUME NEW r \in Removals, Remove(r)
          PROVE  \A u \in Users : homes[u] # {} => homes'[u] # {}
      BY <2>1, <2>4 DEF Remove
    <2>5. CASE UNCHANGED homes
      BY <2>5
    <2>6. QED
      BY <2>2, <2>3, <2>4, <2>5
         DEF Next, InviteStep, AcceptStep, CreateUser, Subscribe, Lapse, FindOwned, FindAccount,
             CheckMember, CheckInvited, CountMembers, CountInvitations, CreateInvitation, Expire,
             FindInvitation, FindCurrent, EnsureClosable, FindOwner, FindMember, Crash,
             InviteReads, AcceptReads, RemovalReads, tables
  <1>2. QED
    BY <1>1, InductiveInvariant, PTL DEF Spec, NobodyIsPutOut

-----------------------------------------------------------------------------
\* One home for each person, but for calls that were crossed.

\* A call that has not been crossed still finds the memberships as it read them.
HomesAreKnown ==
    /\ \A c \in Accepts : ~AcceptIn(c, "idle") => accept[c].userId \in users
    /\ \A c \in Accepts \ crossed :
          accept[c].pc \in {"close", "commit"} =>
              IF accept[c].current = None
              THEN homes[accept[c].userId] = {} \/ Target(c) \in homes[accept[c].userId]
              ELSE accept[c].current \in homes[accept[c].userId]
    /\ \A c \in Accepts : AcceptIn(c, "close") => accept[c].current # None
    /\ \A r \in Removals : removal[r].pc \in {"remove", "done"} => removal[r].userId \in users
    /\ \A r \in Removals \ crossed :
          RemovalIn(r, "remove") => removal[r].accountId \in homes[removal[r].userId]

CrossedAccepts(u) == {c \in crossed \cap Accepts : AcceptIn(c, "done") /\ accept[c].userId = u}
CrossedRemovals(u) == {r \in crossed \cap Removals : RemovalIn(r, "done") /\ removal[r].userId = u}

HInv == IInv /\ HomesAreKnown /\ ExtraHomeWasCrossed

LEMMA AccountsFinite == IsFiniteSet(Accounts)
  BY FS_Union, MembershipAssumption DEF Accounts

\* Counting homes.
LEMMA HomesCount ==
  ASSUME NEW S \in SUBSET Accounts, NEW x \in Accounts
  PROVE  /\ IsFiniteSet(S) /\ Cardinality(S) \in Nat
         /\ Cardinality({x}) = 1 /\ Cardinality({}) = 0
         /\ \A T \in SUBSET S : Cardinality(T) <= Cardinality(S)
         /\ Cardinality(S \cup {x}) <= Cardinality(S) + 1
         /\ \A y \in S : Cardinality((S \ {y}) \cup {x}) <= Cardinality(S)
  <1>1. IsFiniteSet(S)
    BY AccountsFinite, FS_Subset
  <1>2. \A T \in SUBSET S : Cardinality(T) <= Cardinality(S)
    BY <1>1, FS_Subset
  <1>3. ASSUME NEW T \in SUBSET Accounts
        PROVE  Cardinality(T) \in Nat /\ Cardinality(T \cup {x}) <= Cardinality(T) + 1
    <2>1. IsFiniteSet(T)
      BY AccountsFinite, FS_Subset
    <2>2. Cardinality(T) \in Nat
      BY <2>1, FS_CardinalityType
    <2>3. Cardinality(T \cup {x}) = IF x \in T THEN Cardinality(T) ELSE Cardinality(T) + 1
      BY <2>1, FS_AddElement
    <2>4. QED
      BY <2>2, <2>3
  <1>4. ASSUME NEW y \in S
        PROVE  Cardinality((S \ {y}) \cup {x}) <= Cardinality(S)
    <2>1. Cardinality(S \ {y}) = Cardinality(S) - 1
      BY <1>1, FS_RemoveElement
    <2>2. Cardinality((S \ {y}) \cup {x}) <= Cardinality(S \ {y}) + 1
      BY <1>3
    <2>3. Cardinality(S) \in Nat
      BY <1>3
    <2>4. QED
      BY <1>3, <2>1, <2>2, <2>3
  <1>5. Cardinality({x}) = 1 /\ Cardinality({}) = 0
    BY FS_Singleton, FS_EmptySet
  <1>6. QED
    BY <1>1, <1>2, <1>3, <1>4, <1>5

\* Counting the calls that account for a home more.
LEMMA CrossedCount ==
  ASSUME NEW A \in SUBSET Accepts, NEW R \in SUBSET Removals
  PROVE  /\ Cardinality(A) \in Nat /\ Cardinality(R) \in Nat
         /\ \A B \in SUBSET Accepts : A \subseteq B => Cardinality(A) <= Cardinality(B)
         /\ \A B \in SUBSET Removals : R \subseteq B => Cardinality(R) <= Cardinality(B)
         /\ \A B \in SUBSET Accepts, c \in Accepts \ A : A \cup {c} \subseteq B => Cardinality(A) + 1 <= Cardinality(B)
         /\ \A B \in SUBSET Removals, r \in Removals \ R : R \cup {r} \subseteq B => Cardinality(R) + 1 <= Cardinality(B)
  <1>1. ASSUME NEW U, IsFiniteSet(U), NEW S \in SUBSET U
        PROVE  /\ IsFiniteSet(S) /\ Cardinality(S) \in Nat
               /\ \A B \in SUBSET U : S \subseteq B => Cardinality(S) <= Cardinality(B)
               /\ \A B \in SUBSET U, c \in U \ S : S \cup {c} \subseteq B => Cardinality(S) + 1 <= Cardinality(B)
    <2>1. \A B \in SUBSET U : IsFiniteSet(B) /\ Cardinality(B) \in Nat
      BY <1>1, FS_Subset, FS_CardinalityType
    <2>2. \A B \in SUBSET U : S \subseteq B => Cardinality(S) <= Cardinality(B)
      BY <2>1, FS_Subset
    <2>3. ASSUME NEW B \in SUBSET U, NEW c \in U \ S, S \cup {c} \subseteq B
          PROVE  Cardinality(S) + 1 <= Cardinality(B)
      <3>1. Cardinality(S \cup {c}) = Cardinality(S) + 1
        BY <2>1, FS_AddElement
      <3>2. Cardinality(S \cup {c}) <= Cardinality(B)
        BY <2>1, <2>3, FS_Subset
      <3>3. QED
        BY <3>1, <3>2
    <2>4. QED
      BY <2>1, <2>2, <2>3
  <1>2. IsFiniteSet(Accepts) /\ IsFiniteSet(Removals)
    BY MembershipAssumption
  <1>3. QED
    BY <1>1, <1>2

\* A person whose homes grow by no more than the calls that account for it.
LEMMA HomesWithin ==
  ASSUME IInv, ExtraHomeWasCrossed, NEW u \in Users, IInv',
         CrossedAccepts(u) \subseteq CrossedAccepts(u)', CrossedRemovals(u) \subseteq CrossedRemovals(u)',
         \/ homes'[u] \subseteq homes[u]
         \/ \E a \in Accounts : homes'[u] = {a}
         \/ \E a \in Accounts : \E b \in homes[u] : homes'[u] = (homes[u] \ {b}) \cup {a}
         \/ \E a \in Accounts : \E c \in Accepts \ CrossedAccepts(u) :
               c \in CrossedAccepts(u)' /\ homes'[u] \subseteq homes[u] \cup {a}
         \/ \E a \in Accounts : \E r \in Removals \ CrossedRemovals(u) :
               r \in CrossedRemovals(u)' /\ homes'[u] \subseteq homes[u] \cup {a}
  PROVE  Cardinality(homes'[u]) <= 1 + Cardinality(CrossedAccepts(u)') + Cardinality(CrossedRemovals(u)')
  <1> DEFINE S == homes[u]
             T == homes'[u]
             A == CrossedAccepts(u)
             B == CrossedAccepts(u)'
             R == CrossedRemovals(u)
             Q == CrossedRemovals(u)'
  <1>1. /\ S \in SUBSET Accounts /\ T \in SUBSET Accounts
        /\ A \in SUBSET Accepts /\ B \in SUBSET Accepts
        /\ R \in SUBSET Removals /\ Q \in SUBSET Removals
    BY DEF IInv, TypeOK, CrossedAccepts, CrossedRemovals
  <1>2. Cardinality(S) <= 1 + Cardinality(A) + Cardinality(R)
    BY DEF ExtraHomeWasCrossed, CrossedAccepts, CrossedRemovals
  <1>3. /\ Cardinality(A) \in Nat /\ Cardinality(B) \in Nat /\ Cardinality(A) <= Cardinality(B)
        /\ Cardinality(R) \in Nat /\ Cardinality(Q) \in Nat /\ Cardinality(R) <= Cardinality(Q)
    BY <1>1, CrossedCount
  <1>4. /\ \A c \in Accepts \ A : c \in B => Cardinality(A) + 1 <= Cardinality(B)
        /\ \A r \in Removals \ R : r \in Q => Cardinality(R) + 1 <= Cardinality(Q)
    <2>1. /\ \A c \in Accepts \ A : c \in B => A \cup {c} \subseteq B
          /\ \A r \in Removals \ R : r \in Q => R \cup {r} \subseteq Q
      OBVIOUS
    <2>2. QED
      BY <1>1, <2>1, CrossedCount
  <1>5. ASSUME NEW a \in Accounts
        PROVE  /\ Cardinality(S) \in Nat /\ Cardinality(T) \in Nat
               /\ T \subseteq S => Cardinality(T) <= Cardinality(S)
               /\ T = {a} => Cardinality(T) = 1
               /\ \A b \in S : T = (S \ {b}) \cup {a} => Cardinality(T) <= Cardinality(S)
               /\ T \subseteq S \cup {a} => Cardinality(T) <= Cardinality(S) + 1
    <2>1. /\ Cardinality(S) \in Nat /\ Cardinality({a}) = 1
          /\ Cardinality(S \cup {a}) <= Cardinality(S) + 1
          /\ \A X \in SUBSET S : Cardinality(X) <= Cardinality(S)
          /\ \A y \in S : Cardinality((S \ {y}) \cup {a}) <= Cardinality(S)
      BY <1>1, HomesCount
    <2>2. Cardinality(T) \in Nat
      BY <1>1, HomesCount
    <2>3. S \cup {a} \in SUBSET Accounts
      BY <1>1
    <2>4. /\ Cardinality(S \cup {a}) \in Nat
          /\ \A X \in SUBSET (S \cup {a}) : Cardinality(X) <= Cardinality(S \cup {a})
      BY <2>3, HomesCount
    <2>5. ASSUME T \subseteq S \cup {a}
          PROVE  Cardinality(T) <= Cardinality(S) + 1
      <3>1. Cardinality(T) <= Cardinality(S \cup {a})
        BY <2>4, <2>5
      <3>2. QED
        BY <3>1, <2>1, <2>2, <2>4
    <2>6. QED
      BY <2>1, <2>2, <2>5
  <1>6. u \in Accounts
    BY DEF Accounts
  <1>7. \/ Cardinality(T) <= 1
        \/ Cardinality(T) <= Cardinality(S)
        \/ Cardinality(T) <= Cardinality(S) + 1 /\ Cardinality(A) + 1 <= Cardinality(B)
        \/ Cardinality(T) <= Cardinality(S) + 1 /\ Cardinality(R) + 1 <= Cardinality(Q)
    BY <1>4, <1>5, <1>6
  <1>8. Cardinality(S) \in Nat /\ Cardinality(T) \in Nat
    BY <1>5, <1>6
  <1> HIDE DEF S, T, A, B, R, Q
  <1>9. Cardinality(T) <= 1 + Cardinality(B) + Cardinality(Q)
    BY <1>2, <1>3, <1>7, <1>8
  <1>10. QED
    BY <1>9 DEF T, B, Q

\* The steps that leave every membership as it is: the calls that end account for as much.
LEMMA SameHomes ==
  ASSUME IInv, IInv', ExtraHomeWasCrossed, UNCHANGED homes,
         \A c \in Accepts : AcceptIn(c, "done") =>
              accept'[c] = accept[c] /\ (c \in crossed => c \in crossed'),
         \A r \in Removals : RemovalIn(r, "done") =>
              removal'[r] = removal[r] /\ (r \in crossed => r \in crossed')
  PROVE  ExtraHomeWasCrossed'
  <1>1. ASSUME NEW u \in Users
        PROVE  Cardinality(homes'[u]) <= 1 + Cardinality(CrossedAccepts(u)') + Cardinality(CrossedRemovals(u)')
    <2>1. CrossedAccepts(u) \subseteq CrossedAccepts(u)' /\ CrossedRemovals(u) \subseteq CrossedRemovals(u)'
      BY DEF CrossedAccepts, CrossedRemovals, AcceptIn, RemovalIn
    <2>2. QED
      BY <2>1, HomesWithin
  <1>2. QED
    BY <1>1 DEF ExtraHomeWasCrossed, CrossedAccepts, CrossedRemovals

\* The steps that touch neither the memberships nor the calls that depend on them.
LEMMA OthersKeepHomes ==
  ASSUME HInv, IInv', NEW gone, gone \cap (Accepts \cup Removals) = {},
         users \subseteq users', UNCHANGED <<homes, accept, removal>>, crossed' = crossed \ gone,
         \A c \in Accepts : ~AcceptIn(c, "idle") => Target(c)' = Target(c)
  PROVE  HInv'
  <1>1. ExtraHomeWasCrossed'
    BY SameHomes DEF HInv
  <1>2. HomesAreKnown'
    BY DEF HInv, HomesAreKnown, AcceptIn, RemovalIn
  <1>3. QED
    BY <1>1, <1>2 DEF HInv

\* The account an acceptance leads to is settled.
LEMMA TargetIsSettled ==
  ASSUME IInv, [Next]_vars
  PROVE  \A c \in Accepts : ~AcceptIn(c, "idle") /\ accept'[c].invitation = accept[c].invitation
                                => Target(c)' = Target(c)
  <1>1. \A i \in Invites : invitation[i].status # "NONE" => invitation'[i].accountId = invitation[i].accountId
    <2>1. invitation \in [Invites -> Invitation]
      BY DEF IInv, TypeOK
    <2>2. ASSUME NEW i \in Invites, CreateInvitation(i)
          PROVE  <1>1!:
      BY <2>1, <2>2 DEF CreateInvitation, IInv, CallsAreTyped, InviteIn
    <2>3. ASSUME NEW i \in Invites, Expire(i)
          PROVE  <1>1!:
      BY <2>1, <2>3 DEF Expire, Invitation
    <2>4. ASSUME NEW c \in Accepts, CommitAccept(c)
          PROVE  <1>1!:
      BY <2>1, <2>4 DEF CommitAccept, Invitation
    <2>5. CASE UNCHANGED invitation
      BY <2>5
    <2>6. QED
      BY <2>2, <2>3, <2>4, <2>5
         DEF Next, InviteStep, AcceptStep, Register, CreateUser, Subscribe, Lapse, FindOwned, FindAccount,
             CheckMember, CheckInvited, CountMembers, CountInvitations,
             FindInvitation, FindCurrent, EnsureClosable, FindOwner, FindMember, Remove, Crash,
             InviteReads, AcceptReads, RemovalReads, tables, vars
  <1>2. QED
    BY <1>1 DEF IInv, CallsAreTyped, Target, AcceptIn

LEMMA InviteReadsKeepsHomes ==
  ASSUME HInv, IInv', NEW i \in Invites, [Next]_vars,
         \/ \E owner \in users, email \in Emails : FindOwned(i, owner, email)
         \/ \E a \in Accounts, email \in Emails : FindAccount(i, a, email)
         \/ CheckMember(i) \/ CheckInvited(i) \/ CountMembers(i) \/ CountInvitations(i)
         \/ CreateInvitation(i) \/ Expire(i)
  PROVE  HInv'
  <1>1. /\ UNCHANGED <<users, homes, accept, removal>>
        /\ crossed' = crossed \/ crossed' = crossed \ {i}
    BY DEF FindOwned, FindAccount, CheckMember, CheckInvited, CountMembers, CountInvitations,
           CreateInvitation, Expire, InviteReads, InviteGoto, InviteFails, Forget, tables, historyVars
  <1>2. {i} \cap (Accepts \cup Removals) = {}
    BY MembershipAssumption
  <1>3. \A c \in Accepts : ~AcceptIn(c, "idle") => Target(c)' = Target(c)
    BY <1>1, TargetIsSettled DEF HInv
  <1>4. CASE crossed' = crossed
    <2>1. crossed' = crossed \ {} /\ {} \cap (Accepts \cup Removals) = {}
      BY <1>4
    <2>2. QED
      BY <1>1, <1>3, <2>1, OthersKeepHomes
  <1>5. CASE crossed' = crossed \ {i}
    BY <1>1, <1>2, <1>3, <1>5, OthersKeepHomes
  <1>6. QED
    BY <1>1, <1>4, <1>5

LEMMA AcceptReadsKeepsHomes ==
  ASSUME HInv, IInv', NEW c \in Accepts, [Next]_vars,
         \/ \E u \in users, i \in Invites : FindInvitation(c, u, i)
         \/ FindCurrent(c) \/ EnsureClosable(c)
  PROVE  HInv'
  <1>1. /\ UNCHANGED <<users, homes, removal>>
        /\ crossed' = crossed \/ crossed' = crossed \ {c}
        /\ ~AcceptIn(c, "done")
    BY DEF FindInvitation, FindCurrent, EnsureClosable, AcceptReads, AcceptGoto, AcceptFails,
           Forget, tables, historyVars, AcceptIn
  <1>2. c \notin Removals
    BY MembershipAssumption
  <1>3. \A d \in Accepts \ {c} : accept'[d] = accept[d]
    BY AcceptReadsShape DEF HInv
  <1>4. ExtraHomeWasCrossed'
    BY <1>1, <1>2, <1>3, SameHomes DEF HInv
  <1>5. \A d \in Accepts \ {c} : ~AcceptIn(d, "idle") => Target(d)' = Target(d)
    BY <1>3, TargetIsSettled DEF HInv
  <1>6. /\ accept'[c].pc # "idle" => accept'[c].userId \in users
        /\ accept'[c].pc = "close" => accept'[c].current # None
        /\ accept'[c].pc \in {"close", "commit"} /\ c \notin crossed' =>
              IF accept'[c].current = None
              THEN homes[accept'[c].userId] = {} \/ Target(c)' \in homes[accept'[c].userId]
              ELSE accept'[c].current \in homes[accept'[c].userId]
    <2>0. accept \in [Accepts -> Accept] /\ accept[c] \in Accept /\ homes \in [Users -> SUBSET Accounts]
          /\ None \notin Accounts
      BY MembershipAssumption DEF HInv, IInv, TypeOK
    <2>1. ASSUME NEW u \in users, NEW i \in Invites, FindInvitation(c, u, i)
          PROVE  <1>6!:
      BY <2>0, <2>1 DEF FindInvitation, NoAccept
    <2>2. CASE AcceptFails(c)
      BY <2>0, <2>2 DEF AcceptFails, NoAccept
    <2>3. CASE AcceptIn(c, "close") /\ AcceptGoto(c, "commit")
      <3>1. /\ accept'[c].userId = accept[c].userId /\ accept'[c].current = accept[c].current
            /\ accept'[c].pc = "commit" /\ crossed' = crossed
        BY <2>0, <2>3 DEF AcceptGoto, Accept, historyVars
      <3>2. /\ accept[c].userId \in users /\ accept[c].current # None
            /\ c \notin crossed => accept[c].current \in homes[accept[c].userId]
        BY <2>3 DEF HInv, HomesAreKnown, AcceptIn
      <3>3. QED
        BY <3>1, <3>2
    <2>4. CASE FindCurrent(c)
      <3>1. /\ accept[c].pc = "current" /\ accept[c].userId \in users
            /\ accept[c].userId \in Users
            /\ accept[c].current = None
        BY <2>4 DEF FindCurrent, AcceptIn, HInv, HomesAreKnown, IInv, CallsAreTyped
      <3>2. CASE AcceptGoto(c, "commit")
                 /\ (homes[accept[c].userId] = {} \/ Target(c) \in homes[accept[c].userId])
        <4>1. /\ accept'[c].userId = accept[c].userId /\ accept'[c].current = accept[c].current
              /\ accept'[c].invitation = accept[c].invitation /\ accept'[c].pc = "commit"
          BY <2>0, <3>2 DEF AcceptGoto, Accept
        <4>2. Target(c)' = Target(c)
          BY <3>1, <4>1, TargetIsSettled DEF HInv, AcceptIn
        <4>3. QED
          BY <3>1, <3>2, <4>1, <4>2
      <3>3. ASSUME NEW a \in homes[accept[c].userId],
                   accept' = [accept EXCEPT ![c] = [@ EXCEPT !.pc = "close", !.current = a, !.owner = TRUE]]
            PROVE  <1>6!:
        <4>1. a # None
          BY <2>0, <3>1
        <4>2. accept'[c].userId = accept[c].userId /\ accept'[c].current = a /\ accept'[c].pc = "close"
          BY <2>0, <3>3 DEF Accept
        <4>3. QED
          BY <3>1, <3>3, <4>1, <4>2
      <3>4. QED
        BY <2>2, <2>4, <3>2, <3>3 DEF FindCurrent
    <2>5. QED
      BY <2>1, <2>2, <2>3, <2>4 DEF EnsureClosable
  <1>7. HomesAreKnown'
    BY <1>1, <1>2, <1>3, <1>5, <1>6 DEF HInv, HomesAreKnown, AcceptIn, RemovalIn
  <1>8. QED
    BY <1>4, <1>7 DEF HInv

LEMMA CommitAcceptKeepsHomes ==
  ASSUME HInv, IInv', NEW c \in Accepts, [Next]_vars, CommitAccept(c)
  PROVE  HInv'
  <1> DEFINE u == accept[c].userId
             a == Target(c)
             b == accept[c].current
  <1>1. /\ UNCHANGED <<users, removal>> /\ accept[c].pc = "commit"
        /\ u \in Users /\ u \in users /\ a \in Accounts
        /\ homes'[u] = (homes[u] \ {b}) \cup {a}
        /\ \A v \in Users \ {u} : homes'[v] = homes[v]
    BY TargetType DEF HInv, HomesAreKnown, IInv, TypeOK, CallsAreTyped, CommitAccept, AcceptIn, HomesAfter
  <1>2. /\ \A d \in Accepts \ {c} : accept'[d] = accept[d]
        /\ accept'[c].pc = "done" /\ accept'[c].userId = u /\ accept'[c].current = b
        /\ accept'[c].invitation = accept[c].invitation
    BY DEF HInv, IInv, TypeOK, CommitAccept, Accept
  <1>3. /\ crossed \subseteq crossed' /\ (c \in crossed' <=> c \in crossed)
        /\ \A d \in Accepts \ {c} :
              accept[d].pc \in {"close", "commit"} /\ accept[d].userId = u => d \in crossed'
        /\ \A r \in Removals : RemovalIn(r, "remove") /\ removal[r].userId = u => r \in crossed'
    BY MembershipAssumption DEF CommitAccept, PersonChanges
  <1>4. \A d \in Accepts : ~AcceptIn(d, "idle") => Target(d)' = Target(d)
    BY <1>2, TargetIsSettled DEF HInv
  <1>5. /\ \A d \in Accepts : accept[d].pc # "idle" => accept[d].userId \in Users
        /\ \A r \in Removals : removal[r].pc = "remove" => removal[r].userId \in Users
    BY DEF HInv, IInv, CallsAreTyped, AcceptIn
  <1>6. \/ c \in crossed
        \/ homes[u] = {}
        \/ a \in homes[u]
        \/ b \in homes[u]
    BY <1>1 DEF HInv, HomesAreKnown
  <1> HIDE DEF u, a, b
  <1>7. HomesAreKnown'
    BY <1>1, <1>2, <1>3, <1>4, <1>5 DEF HInv, HomesAreKnown, AcceptIn, RemovalIn
  <1>8. ASSUME NEW v \in Users
        PROVE  /\ CrossedAccepts(v) \subseteq CrossedAccepts(v)'
               /\ CrossedRemovals(v) \subseteq CrossedRemovals(v)'
    BY <1>1, <1>2, <1>3 DEF CrossedAccepts, CrossedRemovals, AcceptIn, RemovalIn
  <1>9. ASSUME NEW v \in Users
        PROVE  Cardinality(homes'[v]) <= 1 + Cardinality(CrossedAccepts(v)') + Cardinality(CrossedRemovals(v)')
    <2>1. CASE v # u
      BY <1>1, <1>8, <2>1, HomesWithin DEF HInv
    <2>2. CASE v = u
      <3>1. CASE homes[u] = {}
        <4>1. homes'[v] = {a}
          BY <1>1, <2>2, <3>1
        <4>2. QED
          BY <1>1, <1>8, <4>1, HomesWithin DEF HInv
      <3>2. CASE a \in homes[u]
        <4>1. homes'[v] \subseteq homes[v]
          BY <1>1, <2>2, <3>2
        <4>2. QED
          BY <1>1, <1>8, <4>1, HomesWithin DEF HInv
      <3>3. CASE b \in homes[u]
        <4>1. b \in homes[v] /\ homes'[v] = (homes[v] \ {b}) \cup {a}
          BY <1>1, <2>2, <3>3
        <4>2. QED
          BY <1>1, <1>8, <4>1, HomesWithin DEF HInv
      <3>4. CASE c \in crossed
        <4>1. c \in Accepts \ CrossedAccepts(v)
          BY <1>1 DEF CrossedAccepts, AcceptIn
        <4>2. c \in CrossedAccepts(v)'
          BY <1>2, <1>3, <2>2, <3>4 DEF CrossedAccepts, AcceptIn
        <4>3. homes'[v] \subseteq homes[v] \cup {a}
          BY <1>1, <2>2
        <4>4. QED
          BY <1>1, <1>8, <4>1, <4>2, <4>3, HomesWithin DEF HInv
      <3>5. QED
        BY <1>6, <3>1, <3>2, <3>3, <3>4
    <2>3. QED
      BY <2>1, <2>2
  <1>10. ExtraHomeWasCrossed'
    BY <1>9 DEF ExtraHomeWasCrossed, CrossedAccepts, CrossedRemovals
  <1>11. QED
    BY <1>7, <1>10 DEF HInv

LEMMA RemovalReadsKeepsHomes ==
  ASSUME HInv, IInv', NEW r \in Removals, [Next]_vars,
         \/ \E owner \in users : FindOwner(r, owner)
         \/ \E u \in users : FindMember(r, u)
  PROVE  HInv'
  <1>1. /\ UNCHANGED <<users, homes, accept>>
        /\ crossed' = crossed \/ crossed' = crossed \ {r}
        /\ ~RemovalIn(r, "done")
    BY DEF FindOwner, FindMember, RemovalReads, RemovalFails, Forget, tables, historyVars, RemovalIn
  <1>2. r \notin Accepts
    BY MembershipAssumption
  <1>3. /\ \A q \in Removals \ {r} : removal'[q] = removal[q]
        /\ removal'[r].pc \in {"remove", "done"} =>
              /\ removal'[r].pc = "remove" /\ removal'[r].userId \in users
              /\ removal'[r].accountId \in homes[removal'[r].userId]
    <2>0. removal[r] \in Removal /\ removal \in [Removals -> Removal]
      BY DEF HInv, IInv, TypeOK
    <2>1. ASSUME NEW owner \in users, FindOwner(r, owner)
          PROVE  <1>3!:
      BY <2>0, <2>1 DEF FindOwner, NoRemoval
    <2>2. ASSUME NEW u \in users, FindMember(r, u)
          PROVE  <1>3!:
      <3>1. CASE RemovalFails(r)
        BY <2>0, <3>1 DEF RemovalFails, NoRemoval
      <3>2. CASE /\ removal' = [removal EXCEPT ![r] = [@ EXCEPT !.pc = "remove", !.userId = u]]
                 /\ u \in MembersOf(removal[r].accountId)
        BY <2>0, <3>2 DEF Removal, MembersOf, PeopleOf
      <3>3. QED
        BY <2>2, <3>1, <3>2 DEF FindMember
    <2>3. QED
      BY <2>1, <2>2
  <1>4. ExtraHomeWasCrossed'
    BY <1>1, <1>2, <1>3, SameHomes DEF HInv
  <1>5. \A d \in Accepts : ~AcceptIn(d, "idle") => Target(d)' = Target(d)
    BY <1>1, TargetIsSettled DEF HInv
  <1>6. HomesAreKnown'
    BY <1>1, <1>2, <1>3, <1>5 DEF HInv, HomesAreKnown, AcceptIn, RemovalIn
  <1>7. QED
    BY <1>4, <1>6 DEF HInv

LEMMA RemoveKeepsHomes ==
  ASSUME HInv, IInv', NEW r \in Removals, [Next]_vars, Remove(r)
  PROVE  HInv'
  <1> DEFINE u == removal[r].userId
             b == removal[r].accountId
  <1>1. /\ UNCHANGED <<users, accept>> /\ removal[r].pc = "remove"
        /\ u \in Users /\ u \in users /\ r \in Accounts
        /\ homes'[u] = (homes[u] \ {b}) \cup {r}
        /\ \A v \in Users \ {u} : homes'[v] = homes[v]
    BY DEF HInv, HomesAreKnown, IInv, TypeOK, CallsAreTyped, Remove, RemovalIn, Accounts
  <1>2. /\ \A q \in Removals \ {r} : removal'[q] = removal[q]
        /\ removal'[r].pc = "done" /\ removal'[r].userId = u
    BY DEF HInv, IInv, TypeOK, Remove, Removal
  <1>3. /\ crossed \subseteq crossed' /\ (r \in crossed' <=> r \in crossed)
        /\ \A d \in Accepts : accept[d].pc \in {"close", "commit"} /\ accept[d].userId = u => d \in crossed'
        /\ \A q \in Removals \ {r} : RemovalIn(q, "remove") /\ removal[q].userId = u => q \in crossed'
    BY MembershipAssumption DEF Remove, PersonChanges
  <1>4. \A d \in Accepts : ~AcceptIn(d, "idle") => Target(d)' = Target(d)
    BY <1>1, TargetIsSettled DEF HInv
  <1>5. /\ \A d \in Accepts : accept[d].pc # "idle" => accept[d].userId \in Users
        /\ \A q \in Removals : removal[q].pc = "remove" => removal[q].userId \in Users
    BY DEF HInv, IInv, CallsAreTyped, AcceptIn
  <1>6. r \in crossed \/ b \in homes[u]
    BY <1>1 DEF HInv, HomesAreKnown, RemovalIn
  <1> HIDE DEF u, b
  <1>7. HomesAreKnown'
    BY <1>1, <1>2, <1>3, <1>4, <1>5 DEF HInv, HomesAreKnown, AcceptIn, RemovalIn
  <1>8. ASSUME NEW v \in Users
        PROVE  /\ CrossedAccepts(v) \subseteq CrossedAccepts(v)'
               /\ CrossedRemovals(v) \subseteq CrossedRemovals(v)'
    BY <1>1, <1>2, <1>3 DEF CrossedAccepts, CrossedRemovals, AcceptIn, RemovalIn
  <1>9. ASSUME NEW v \in Users
        PROVE  Cardinality(homes'[v]) <= 1 + Cardinality(CrossedAccepts(v)') + Cardinality(CrossedRemovals(v)')
    <2>1. CASE v # u
      BY <1>1, <1>8, <2>1, HomesWithin DEF HInv
    <2>2. CASE v = u /\ b \in homes[u]
      <3>1. b \in homes[v] /\ homes'[v] = (homes[v] \ {b}) \cup {r}
        BY <1>1, <2>2
      <3>2. QED
        BY <1>1, <1>8, <3>1, HomesWithin DEF HInv
    <2>3. CASE v = u /\ r \in crossed
      <3>1. r \in Removals \ CrossedRemovals(v)
        BY <1>1 DEF CrossedRemovals, RemovalIn
      <3>2. r \in CrossedRemovals(v)'
        BY <1>2, <1>3, <2>3 DEF CrossedRemovals, RemovalIn
      <3>3. homes'[v] \subseteq homes[v] \cup {r}
        BY <1>1, <2>3
      <3>4. QED
        BY <1>1, <1>8, <3>1, <3>2, <3>3, HomesWithin DEF HInv
    <2>4. QED
      BY <1>6, <2>1, <2>2, <2>3
  <1>10. ExtraHomeWasCrossed'
    BY <1>9 DEF ExtraHomeWasCrossed, CrossedAccepts, CrossedRemovals
  <1>11. QED
    BY <1>7, <1>10 DEF HInv

LEMMA RegisterKeepsHomes ==
  ASSUME HInv, IInv', NEW u \in Users, [Next]_vars, Register(u)
  PROVE  HInv'
  <1>1. /\ UNCHANGED <<accept, removal, crossed>> /\ u \notin users /\ users' = users \cup {u}
        /\ u \in Accounts /\ homes'[u] = {u}
        /\ \A v \in Users \ {u} : homes'[v] = homes[v]
    BY DEF HInv, IInv, TypeOK, Register, historyVars, Accounts
  <1>2. \A d \in Accepts : ~AcceptIn(d, "idle") => Target(d)' = Target(d)
    BY <1>1, TargetIsSettled DEF HInv
  <1>3. /\ \A d \in Accepts : accept[d].pc # "idle" => accept[d].userId \in Users \ {u}
        /\ \A r \in Removals : removal[r].pc = "remove" => removal[r].userId \in Users \ {u}
    BY <1>1 DEF HInv, IInv, CallsAreTyped, HomesAreKnown, AcceptIn
  <1>4. HomesAreKnown'
    BY <1>1, <1>2, <1>3 DEF HInv, HomesAreKnown, AcceptIn, RemovalIn
  <1>5. ASSUME NEW v \in Users
        PROVE  Cardinality(homes'[v]) <= 1 + Cardinality(CrossedAccepts(v)') + Cardinality(CrossedRemovals(v)')
    <2>1. /\ CrossedAccepts(v) \subseteq CrossedAccepts(v)'
          /\ CrossedRemovals(v) \subseteq CrossedRemovals(v)'
      BY <1>1 DEF CrossedAccepts, CrossedRemovals, AcceptIn, RemovalIn
    <2>2. homes'[v] \subseteq homes[v] \/ homes'[v] = {u}
      BY <1>1
    <2>3. QED
      BY <1>1, <2>1, <2>2, HomesWithin DEF HInv
  <1>6. ExtraHomeWasCrossed'
    BY <1>5 DEF ExtraHomeWasCrossed, CrossedAccepts, CrossedRemovals
  <1>7. QED
    BY <1>4, <1>6 DEF HInv

LEMMA EnvironmentKeepsHomes ==
  ASSUME HInv, IInv', [Next]_vars,
         \/ \E u \in Users : CreateUser(u)
         \/ \E a \in Accounts : Subscribe(a) \/ Lapse(a)
         \/ UNCHANGED vars
  PROVE  HInv'
  <1>1. /\ users \subseteq users' /\ UNCHANGED <<homes, accept, removal>>
        /\ crossed' = crossed \ {} /\ {} \cap (Accepts \cup Removals) = {}
    BY DEF CreateUser, Subscribe, Lapse, historyVars, vars
  <1>2. \A c \in Accepts : ~AcceptIn(c, "idle") => Target(c)' = Target(c)
    BY <1>1, TargetIsSettled DEF HInv
  <1>3. QED
    BY <1>1, <1>2, OthersKeepHomes

LEMMA CrashKeepsHomes ==
  ASSUME HInv, IInv', [Next]_vars, Crash
  PROVE  HInv'
  <1>1. UNCHANGED <<users, homes>>
    BY DEF Crash, tables
  <1>2. /\ \A c \in Accepts : accept'[c] = IF AcceptIn(c, "done") THEN accept[c] ELSE NoAccept
        /\ \A r \in Removals : removal'[r] = IF RemovalIn(r, "done") THEN removal[r] ELSE NoRemoval
    BY DEF Crash
  <1>3. /\ \A c \in Accepts : AcceptIn(c, "done") /\ c \in crossed => c \in crossed'
        /\ \A r \in Removals : RemovalIn(r, "done") /\ r \in crossed => r \in crossed'
    BY MembershipAssumption DEF Crash, Forget
  <1>4. ExtraHomeWasCrossed'
    BY <1>1, <1>2, <1>3, SameHomes DEF HInv
  <1>5. HomesAreKnown'
    BY <1>1, <1>2 DEF HInv, HomesAreKnown, AcceptIn, RemovalIn, NoAccept, NoRemoval
  <1>6. QED
    BY <1>4, <1>5 DEF HInv

LEMMA InitHomes == Init => HInv
  <1> SUFFICES ASSUME Init PROVE HInv
    OBVIOUS
  <1>1. IInv
    BY InitInv
  <1>2. HomesAreKnown
    BY DEF Init, HomesAreKnown, AcceptIn, RemovalIn, NoAccept, NoRemoval
  <1>3. ASSUME NEW u \in Users
        PROVE  Cardinality(homes[u]) <= 1 + Cardinality(CrossedAccepts(u)) + Cardinality(CrossedRemovals(u))
    <2>1. homes[u] = {} /\ CrossedAccepts(u) = {} /\ CrossedRemovals(u) = {}
      BY DEF Init, CrossedAccepts, CrossedRemovals
    <2>2. QED
      BY <2>1, FS_EmptySet
  <1>4. QED
    BY <1>1, <1>2, <1>3 DEF HInv, ExtraHomeWasCrossed, CrossedAccepts, CrossedRemovals

LEMMA NextHomes == HInv /\ [Next]_vars => HInv'
  <1> SUFFICES ASSUME HInv, [Next]_vars PROVE HInv'
    OBVIOUS
  <1>0. IInv'
    BY NextInv DEF HInv
  <1>1. CASE \/ \E u \in Users : CreateUser(u)
             \/ \E a \in Accounts : Subscribe(a) \/ Lapse(a)
             \/ UNCHANGED vars
    BY <1>0, <1>1, EnvironmentKeepsHomes
  <1>2. ASSUME NEW u \in Users, Register(u)
        PROVE  HInv'
    BY <1>0, <1>2, RegisterKeepsHomes
  <1>3. ASSUME NEW i \in Invites,
               \/ \E owner \in users, email \in Emails : FindOwned(i, owner, email)
               \/ \E a \in Accounts, email \in Emails : FindAccount(i, a, email)
               \/ InviteStep(i)
        PROVE  HInv'
    BY <1>0, <1>3, InviteReadsKeepsHomes DEF InviteStep
  <1>4. ASSUME NEW c \in Accepts,
               \/ \E u \in users, i \in Invites : FindInvitation(c, u, i)
               \/ AcceptStep(c)
        PROVE  HInv'
    BY <1>0, <1>4, AcceptReadsKeepsHomes, CommitAcceptKeepsHomes DEF AcceptStep
  <1>5. ASSUME NEW r \in Removals,
               \/ \E owner \in users : FindOwner(r, owner)
               \/ \E u \in users : FindMember(r, u)
               \/ Remove(r)
        PROVE  HInv'
    BY <1>0, <1>5, RemovalReadsKeepsHomes, RemoveKeepsHomes
  <1>6. CASE Crash
    BY <1>0, <1>6, CrashKeepsHomes
  <1>7. QED
    BY <1>1, <1>2, <1>3, <1>4, <1>5, <1>6 DEF Next

\* "Un usuario solo debe tener una membresia ACTIVE a la vez", up to the calls that were
\* crossed: nothing but two calls that overlap gives a person another home.
THEOREM OneHomeButForCrossings == Spec => []ExtraHomeWasCrossed
  <1>1. HInv => ExtraHomeWasCrossed
    BY DEF HInv
  <1>2. QED
    BY <1>1, InitHomes, NextHomes, PTL DEF Spec

-----------------------------------------------------------------------------
\* Members and invitations within the plan, but for calls that were miscounted.

\* A call that has not been miscounted has counted all there is.
CountsAreKnown ==
    \A i \in Invites \ miscounted : \A a \in Accounts : invite[i].accountId = a =>
        /\ InviteIn(i, "invitations") => Cardinality(MembersOf(a)) <= invite[i].activeMembers
        /\ InviteIn(i, "create") /\ invite[i].limited =>
              Cardinality(MembersOf(a)) + Cardinality(PendingOf(a)) + 1 <= MaxAdditionalMembers

\* The invitation of an acceptance that has not been miscounted is still pending.
InvitationsAreOpen ==
    \A c \in Accepts \ miscounted :
        accept[c].pc \in {"current", "close", "commit"} => Pending(accept[c].invitation)

\* The calls that have ended and account for a member or an invitation more.
ExcusedInvites(a) ==
    {i \in miscounted \cup unlimited : i \in Invites /\ InviteIn(i, "done") /\ invite[i].accountId = a}
ExcusedAccepts(a) == {c \in miscounted \cap Accepts : AcceptIn(c, "done") /\ Target(c) = a}

\* ExtraMemberWasMiscounted, from calls that have ended only.
LoadWithin(a) ==
    Cardinality(MembersOf(a)) + Cardinality(PendingOf(a)) <=
        MaxAdditionalMembers + Cardinality(ExcusedInvites(a)) + Cardinality(ExcusedAccepts(a))

MInv == IInv /\ CountsAreKnown /\ InvitationsAreOpen /\ \A a \in Accounts : LoadWithin(a)

LEMMA LoadCount ==
  ASSUME TypeOK, NEW a
  PROVE  /\ MembersOf(a) \in SUBSET Users /\ PendingOf(a) \in SUBSET Invites
         /\ ExcusedInvites(a) \in SUBSET Invites /\ ExcusedAccepts(a) \in SUBSET Accepts
  BY DEF MembersOf, PeopleOf, PendingOf, ExcusedInvites, ExcusedAccepts

\* Counting in a finite set.
LEMMA Counts ==
  ASSUME NEW U, IsFiniteSet(U), NEW S \in SUBSET U
  PROVE  /\ Cardinality(S) \in Nat
         /\ \A T \in SUBSET S : Cardinality(T) <= Cardinality(S)
         /\ \A T \in SUBSET U, x \in U : T \subseteq S \cup {x} => Cardinality(T) <= Cardinality(S) + 1
         /\ \A T \in SUBSET S, x \in S : x \notin T => Cardinality(T) + 1 <= Cardinality(S)
  <1>1. \A T \in SUBSET U : IsFiniteSet(T) /\ Cardinality(T) \in Nat
    BY FS_Subset, FS_CardinalityType
  <1>2. \A T \in SUBSET S : Cardinality(T) <= Cardinality(S)
    BY <1>1, FS_Subset
  <1>3. ASSUME NEW T \in SUBSET U, NEW x \in U, T \subseteq S \cup {x}
        PROVE  Cardinality(T) <= Cardinality(S) + 1
    <2>1. Cardinality(S \cup {x}) = IF x \in S THEN Cardinality(S) ELSE Cardinality(S) + 1
      BY <1>1, FS_AddElement
    <2>2. Cardinality(T) <= Cardinality(S \cup {x})
      <3>1. S \cup {x} \in SUBSET U
        OBVIOUS
      <3>2. IsFiniteSet(S \cup {x})
        BY <1>1, <3>1
      <3>3. QED
        BY <1>3, <3>2, FS_Subset
    <2>3. Cardinality(S) \in Nat /\ Cardinality(T) \in Nat
      BY <1>1
    <2>4. QED
      BY <2>1, <2>2, <2>3
  <1>4. ASSUME NEW T \in SUBSET S, NEW x \in S, x \notin T
        PROVE  Cardinality(T) + 1 <= Cardinality(S)
    <2>1. Cardinality(T \cup {x}) = Cardinality(T) + 1
      BY <1>1, <1>4, FS_AddElement
    <2>2. Cardinality(T \cup {x}) <= Cardinality(S)
      <3>1. T \cup {x} \in SUBSET S
        OBVIOUS
      <3>2. QED
        BY <1>2, <3>1
    <2>3. QED
      BY <2>1, <2>2
  <1>5. QED
    BY <1>1, <1>2, <1>3, <1>4

\* Nobody joins the account and no invitation is created.
NoneJoins(a) == MembersOf(a)' \subseteq MembersOf(a) /\ PendingOf(a)' \subseteq PendingOf(a)

\* The calls that account for members keep doing so.
Accounted(a) == /\ ExcusedInvites(a) \subseteq ExcusedInvites(a)'
                /\ ExcusedAccepts(a) \subseteq ExcusedAccepts(a)'

\* One person joins the account u, or is invited to it with i, and there was room, or an
\* invitation is used up, or a call more accounts for it.
LEMMA LoadKept ==
  ASSUME TypeOK, TypeOK', NEW a, LoadWithin(a), Accounted(a),
         \/ NoneJoins(a)
         \/ \E u \in Users : \E i \in PendingOf(a) :
               MembersOf(a)' \subseteq MembersOf(a) \cup {u} /\ PendingOf(a)' \subseteq PendingOf(a) \ {i}
         \/ \E u \in Users : \E c \in ExcusedAccepts(a)' \ ExcusedAccepts(a) :
               MembersOf(a)' \subseteq MembersOf(a) \cup {u} /\ PendingOf(a)' \subseteq PendingOf(a)
         \/ \E i \in ExcusedInvites(a)' \ ExcusedInvites(a) :
               MembersOf(a)' \subseteq MembersOf(a) /\ PendingOf(a)' \subseteq PendingOf(a) \cup {i}
         \/ /\ Cardinality(MembersOf(a)) + Cardinality(PendingOf(a)) + 1 <= MaxAdditionalMembers
            /\ \E i \in Invites :
                  MembersOf(a)' \subseteq MembersOf(a) /\ PendingOf(a)' \subseteq PendingOf(a) \cup {i}
  PROVE  LoadWithin(a)'
  <1> DEFINE M == MembersOf(a)
             N == MembersOf(a)'
             P == PendingOf(a)
             Q == PendingOf(a)'
             I == ExcusedInvites(a)
             J == ExcusedInvites(a)'
             A == ExcusedAccepts(a)
             B == ExcusedAccepts(a)'
  <1>1. /\ IsFiniteSet(Users) /\ IsFiniteSet(Invites) /\ IsFiniteSet(Accepts)
        /\ MaxAdditionalMembers \in Nat
    BY MembershipAssumption
  <1>2. /\ M \in SUBSET Users /\ P \in SUBSET Invites
        /\ I \in SUBSET Invites /\ A \in SUBSET Accepts
    BY LoadCount
  <1>3. /\ N \in SUBSET Users /\ Q \in SUBSET Invites
        /\ J \in SUBSET Invites /\ B \in SUBSET Accepts
    BY DEF TypeOK, MembersOf, PeopleOf, PendingOf, ExcusedInvites, ExcusedAccepts
  <1>4. I \subseteq J /\ A \subseteq B
    BY DEF Accounted
  <1>5. Cardinality(M) + Cardinality(P) <= MaxAdditionalMembers + Cardinality(I) + Cardinality(A)
    BY DEF LoadWithin
  <1>6. \/ N \subseteq M /\ Q \subseteq P
        \/ \E u \in Users : \E i \in P : N \subseteq M \cup {u} /\ Q \subseteq P \ {i}
        \/ \E u \in Users : \E c \in B \ A : N \subseteq M \cup {u} /\ Q \subseteq P
        \/ \E i \in J \ I : N \subseteq M /\ Q \subseteq P \cup {i}
        \/ /\ Cardinality(M) + Cardinality(P) + 1 <= MaxAdditionalMembers
           /\ \E i \in Invites : N \subseteq M /\ Q \subseteq P \cup {i}
    BY DEF NoneJoins
  <1>7. LoadWithin(a)' <=>
          Cardinality(N) + Cardinality(Q) <= MaxAdditionalMembers + Cardinality(J) + Cardinality(B)
    BY DEF LoadWithin
  <1> HIDE DEF M, N, P, Q, I, J, A, B
  <1>8. /\ Cardinality(M) \in Nat /\ Cardinality(N) \in Nat
        /\ N \subseteq M => Cardinality(N) <= Cardinality(M)
        /\ \A u \in Users : N \subseteq M \cup {u} => Cardinality(N) <= Cardinality(M) + 1
    BY <1>1, <1>2, <1>3, Counts
  <1>9. /\ Cardinality(P) \in Nat /\ Cardinality(Q) \in Nat
        /\ Q \subseteq P => Cardinality(Q) <= Cardinality(P)
        /\ \A i \in Invites : Q \subseteq P \cup {i} => Cardinality(Q) <= Cardinality(P) + 1
        /\ \A i \in P : Q \subseteq P \ {i} => Cardinality(Q) + 1 <= Cardinality(P)
    <2>1. \A i \in P : Q \subseteq P \ {i} => Q \in SUBSET P /\ i \notin Q
      OBVIOUS
    <2>2. QED
      BY <1>1, <1>2, <1>3, <2>1, Counts
  <1>10. /\ Cardinality(I) \in Nat /\ Cardinality(J) \in Nat /\ Cardinality(I) <= Cardinality(J)
         /\ \A i \in J \ I : Cardinality(I) + 1 <= Cardinality(J)
    BY <1>1, <1>2, <1>3, <1>4, Counts
  <1>11. /\ Cardinality(A) \in Nat /\ Cardinality(B) \in Nat /\ Cardinality(A) <= Cardinality(B)
         /\ \A c \in B \ A : Cardinality(A) + 1 <= Cardinality(B)
    BY <1>1, <1>2, <1>3, <1>4, Counts
  <1>12. \/ Cardinality(N) <= Cardinality(M) /\ Cardinality(Q) <= Cardinality(P)
         \/ Cardinality(N) <= Cardinality(M) + 1 /\ Cardinality(Q) + 1 <= Cardinality(P)
         \/ /\ Cardinality(N) <= Cardinality(M) + 1 /\ Cardinality(Q) <= Cardinality(P)
            /\ Cardinality(A) + 1 <= Cardinality(B)
         \/ /\ Cardinality(N) <= Cardinality(M) /\ Cardinality(Q) <= Cardinality(P) + 1
            /\ Cardinality(I) + 1 <= Cardinality(J)
         \/ /\ Cardinality(M) + Cardinality(P) + 1 <= MaxAdditionalMembers
            /\ Cardinality(N) <= Cardinality(M) /\ Cardinality(Q) <= Cardinality(P) + 1
    BY <1>3, <1>6, <1>8, <1>9, <1>10, <1>11
  <1>13. Cardinality(N) + Cardinality(Q) <= MaxAdditionalMembers + Cardinality(J) + Cardinality(B)
    BY <1>1, <1>5, <1>8, <1>9, <1>10, <1>11, <1>12
  <1>14. QED
    BY <1>7, <1>13

\* What a step may do to the calls, for what has been accounted for to stay so.
LEMMA EndedCallsAccount ==
  ASSUME IInv, IInv', [Next]_vars,
         \A i \in Invites : InviteIn(i, "done") =>
              /\ invite'[i] = invite[i]
              /\ i \in miscounted => i \in miscounted'
              /\ i \in unlimited => i \in unlimited',
         \A c \in Accepts : AcceptIn(c, "done") =>
              accept'[c] = accept[c] /\ (c \in miscounted => c \in miscounted')
  PROVE  \A a \in Accounts : Accounted(a)
  <1>1. \A c \in Accepts : AcceptIn(c, "done") => Target(c)' = Target(c)
    BY TargetIsSettled DEF AcceptIn
  <1>2. QED
    BY <1>1 DEF Accounted, ExcusedInvites, ExcusedAccepts, InviteIn, AcceptIn

LEMMA NoneJoinsCounts ==
  ASSUME TypeOK, TypeOK', NEW a, NoneJoins(a)
  PROVE  /\ Cardinality(MembersOf(a)') \in Nat /\ Cardinality(MembersOf(a)') <= Cardinality(MembersOf(a))
         /\ Cardinality(PendingOf(a)') \in Nat /\ Cardinality(PendingOf(a)') <= Cardinality(PendingOf(a))
         /\ Cardinality(MembersOf(a)) \in Nat /\ Cardinality(PendingOf(a)) \in Nat
  <1>1. MembersOf(a) \in SUBSET Users /\ PendingOf(a) \in SUBSET Invites
    BY LoadCount
  <1>2. IsFiniteSet(Users) /\ IsFiniteSet(Invites)
    BY MembershipAssumption
  <1>3. MembersOf(a)' \in SUBSET MembersOf(a) /\ PendingOf(a)' \in SUBSET PendingOf(a)
    BY DEF NoneJoins
  <1>4. QED
    BY <1>1, <1>2, <1>3, Counts

\* The steps after which nobody has joined: what has been counted is not less than there
\* is, and the calls they move find it so.
LEMMA NobodyJoined ==
  ASSUME MInv, IInv', [Next]_vars,
         \A a \in Accounts : NoneJoins(a),
         \A i \in Invites :
              \/ /\ invite'[i] = invite[i]
                 /\ i \in miscounted => i \in miscounted'
                 /\ i \in unlimited => i \in unlimited'
              \/ /\ ~InviteIn(i, "done")
                 /\ invite'[i].pc \notin {"invitations", "create"}
              \/ /\ ~InviteIn(i, "done")
                 /\ i \notin miscounted' => \A a \in Accounts : invite'[i].accountId = a =>
                      /\ InviteIn(i, "invitations")' => Cardinality(MembersOf(a)) <= invite'[i].activeMembers
                      /\ InviteIn(i, "create")' /\ invite'[i].limited =>
                            Cardinality(MembersOf(a)) + Cardinality(PendingOf(a)) + 1 <= MaxAdditionalMembers,
         \A c \in Accepts :
              AcceptIn(c, "done") => accept'[c] = accept[c] /\ (c \in miscounted => c \in miscounted'),
         InvitationsAreOpen'
  PROVE  MInv'
  <1>1. \A a \in Accounts : Accounted(a)
    BY EndedCallsAccount DEF MInv
  <1>2. TypeOK /\ TypeOK'
    BY DEF MInv, IInv
  <1>3. \A a \in Accounts : LoadWithin(a)'
    BY <1>1, <1>2, LoadKept DEF MInv
  <1>4. ASSUME NEW i \in Invites \ miscounted', NEW a \in Accounts, a = invite'[i].accountId
        PROVE  /\ InviteIn(i, "invitations")' => Cardinality(MembersOf(a)') <= invite'[i].activeMembers
               /\ InviteIn(i, "create")' /\ invite'[i].limited =>
                     Cardinality(MembersOf(a)') + Cardinality(PendingOf(a)') + 1 <= MaxAdditionalMembers
    <2>1. CASE invite'[i].pc \notin {"invitations", "create"}
      BY <2>1 DEF InviteIn
    <2>2. CASE invite'[i].pc \in {"invitations", "create"}
      <3>1. /\ InviteIn(i, "invitations")' => Cardinality(MembersOf(a)) <= invite'[i].activeMembers
            /\ InviteIn(i, "create")' /\ invite'[i].limited =>
                  Cardinality(MembersOf(a)) + Cardinality(PendingOf(a)) + 1 <= MaxAdditionalMembers
        <4>1. CASE invite'[i] = invite[i] /\ (i \in miscounted => i \in miscounted')
          BY <1>4, <4>1 DEF MInv, CountsAreKnown, InviteIn
        <4>2. QED
          BY <1>4, <2>2, <4>1
      <3>2. /\ Cardinality(MembersOf(a)') \in Nat /\ Cardinality(MembersOf(a)') <= Cardinality(MembersOf(a))
            /\ Cardinality(PendingOf(a)') \in Nat /\ Cardinality(PendingOf(a)') <= Cardinality(PendingOf(a))
            /\ Cardinality(MembersOf(a)) \in Nat /\ Cardinality(PendingOf(a)) \in Nat
        BY <1>2, NoneJoinsCounts
      <3>3. invite'[i].activeMembers \in Nat
        BY <1>2 DEF TypeOK, Invite
      <3>4. MaxAdditionalMembers \in Nat
        BY MembershipAssumption
      <3>5. QED
        BY <3>1, <3>2, <3>3, <3>4
    <2>3. QED
      BY <2>1, <2>2
  <1>5. CountsAreKnown'
    BY <1>4 DEF CountsAreKnown
  <1>6. QED
    BY <1>3, <1>5 DEF MInv

LEMMA SameTables ==
  ASSUME UNCHANGED <<role, homes, invitation>>
  PROVE  \A a : NoneJoins(a) /\ MembersOf(a)' = MembersOf(a) /\ PendingOf(a)' = PendingOf(a)
  BY DEF NoneJoins, MembersOf, PeopleOf, PendingOf, Pending

\* The invitations stay open while the rows and the acceptances stay as they are.
LEMMA SameInvitations ==
  ASSUME MInv, UNCHANGED <<invitation, accept>>, \A c \in Accepts : c \in miscounted => c \in miscounted'
  PROVE  InvitationsAreOpen'
  BY DEF MInv, InvitationsAreOpen, Pending

LEMMA InviteReadsKeepsLoad ==
  ASSUME MInv, IInv', NEW i \in Invites, [Next]_vars,
         \/ \E owner \in users, email \in Emails : FindOwned(i, owner, email)
         \/ \E a \in Accounts, email \in Emails : FindAccount(i, a, email)
         \/ CheckMember(i) \/ CheckInvited(i) \/ CountMembers(i) \/ CountInvitations(i)
  PROVE  MInv'
  <1>1. /\ UNCHANGED <<users, role, homes, invitation, accept>>
        /\ UNCHANGED <<miscounted, unlimited>> \/ (miscounted' = miscounted \ {i} /\ unlimited' = unlimited)
        /\ ~InviteIn(i, "done")
    BY DEF FindOwned, FindAccount, CheckMember, CheckInvited, CountMembers, CountInvitations,
           InviteReads, InviteGoto, InviteFails, Forget, tables, historyVars, InviteIn
  <1>2. i \notin Accepts /\ MaxAdditionalMembers \in Nat
    BY MembershipAssumption
  <1>3. invite[i] \in Invite /\ invite \in [Invites -> Invite]
    BY DEF MInv, IInv, TypeOK
  <1>4. \A j \in Invites \ {i} : invite'[j] = invite[j]
    BY <1>3 DEF FindOwned, FindAccount, CheckMember, CheckInvited, CountMembers, CountInvitations,
                InviteGoto, InviteFails
  <1>5. \/ invite'[i].pc \notin {"invitations", "create"}
        \/ /\ miscounted' = miscounted /\ invite'[i].accountId = invite[i].accountId
           /\ invite'[i].pc = "invitations"
           /\ invite'[i].activeMembers = Cardinality(MembersOf(invite[i].accountId))
        \/ invite'[i].pc = "create" /\ ~invite'[i].limited
        \/ /\ miscounted' = miscounted /\ invite'[i].accountId = invite[i].accountId
           /\ InviteIn(i, "invitations") /\ invite'[i].pc = "create"
           /\ ~(invite[i].activeMembers + Cardinality(PendingOf(invite[i].accountId)) >= MaxAdditionalMembers)
    <2>1. ASSUME NEW owner \in users, NEW email \in Emails, FindOwned(i, owner, email)
          PROVE  invite'[i].pc = "member"
      BY <1>3, <2>1 DEF FindOwned, NoInvite
    <2>2. ASSUME NEW a \in Accounts, NEW email \in Emails, FindAccount(i, a, email)
          PROVE  invite'[i].pc = "member"
      BY <1>3, <2>2 DEF FindAccount, NoInvite
    <2>3. CASE InviteFails(i)
      BY <1>3, <2>3 DEF InviteFails, NoInvite
    <2>4. CASE CheckMember(i)
      BY <1>3, <2>3, <2>4 DEF CheckMember, InviteGoto, Invite
    <2>5. CASE CheckInvited(i)
      <3>1. CASE InviteGoto(i, IF invite[i].limited THEN "members" ELSE "create")
        <4>1. CASE invite[i].limited
          BY <1>3, <3>1, <4>1 DEF InviteGoto, Invite
        <4>2. CASE ~invite[i].limited
          BY <1>3, <3>1, <4>2 DEF InviteGoto, Invite
        <4>3. QED
          BY <4>1, <4>2
      <3>2. QED
        BY <2>3, <2>5, <3>1 DEF CheckInvited
    <2>6. CASE CountMembers(i)
      BY <1>3, <2>6 DEF CountMembers, Invite, historyVars
    <2>7. CASE CountInvitations(i)
      <3>1. CASE /\ ~(invite[i].activeMembers + Cardinality(PendingOf(invite[i].accountId)) >= MaxAdditionalMembers)
                 /\ InviteGoto(i, "create")
        BY <1>3, <2>7, <3>1 DEF InviteGoto, Invite, historyVars, CountInvitations
      <3>2. QED
        BY <2>3, <2>7, <3>1 DEF CountInvitations
    <2>8. QED
      BY <2>1, <2>2, <2>4, <2>5, <2>6, <2>7
  <1>6. ASSUME i \notin miscounted', NEW a \in Accounts, invite'[i].accountId = a
        PROVE  /\ InviteIn(i, "invitations")' => Cardinality(MembersOf(a)) <= invite'[i].activeMembers
               /\ InviteIn(i, "create")' /\ invite'[i].limited =>
                     Cardinality(MembersOf(a)) + Cardinality(PendingOf(a)) + 1 <= MaxAdditionalMembers
    <2>1. Cardinality(MembersOf(a)) \in Nat /\ Cardinality(PendingOf(a)) \in Nat
      <3>1. TypeOK
        BY DEF MInv, IInv
      <3>2. MembersOf(a) \in SUBSET Users /\ PendingOf(a) \in SUBSET Invites
        BY <3>1, LoadCount
      <3>3. QED
        BY <3>2, Counts, MembershipAssumption
    <2>2. CASE InviteIn(i, "invitations") /\ i \notin miscounted /\ invite[i].accountId = a
               /\ ~(invite[i].activeMembers + Cardinality(PendingOf(a)) >= MaxAdditionalMembers)
               /\ invite'[i].pc = "create"
      <3>1. Cardinality(MembersOf(a)) <= invite[i].activeMembers
        BY <2>2 DEF MInv, CountsAreKnown
      <3>2. invite[i].activeMembers \in Nat
        BY <1>3 DEF Invite
      <3>3. Cardinality(MembersOf(a)) + Cardinality(PendingOf(a)) + 1 <= MaxAdditionalMembers
        BY <1>2, <2>1, <2>2, <3>1, <3>2
      <3>4. QED
        BY <2>2, <3>3 DEF InviteIn
    <2>3. CASE invite[i].accountId = a /\ invite'[i].pc = "invitations"
               /\ invite'[i].activeMembers = Cardinality(MembersOf(a))
      BY <2>1, <2>3 DEF InviteIn
    <2>4. QED
      BY <1>5, <1>6, <2>2, <2>3 DEF InviteIn
  <1>7. \A c \in Accepts : accept'[c] = accept[c] /\ (c \in miscounted => c \in miscounted')
    BY <1>1, <1>2
  <1>8. InvitationsAreOpen'
    BY <1>1, <1>7, SameInvitations
  <1>9. \A a \in Accounts : NoneJoins(a)
    BY <1>1, SameTables
  <1>10. \A j \in Invites \ {i} : /\ invite'[j] = invite[j]
                                  /\ j \in miscounted => j \in miscounted'
                                  /\ j \in unlimited => j \in unlimited'
    BY <1>1, <1>4
  <1>11. QED
    BY <1>1, <1>6, <1>7, <1>8, <1>9, <1>10, NobodyJoined

LEMMA ExpireKeepsLoad ==
  ASSUME MInv, IInv', NEW i \in Invites, [Next]_vars, Expire(i)
  PROVE  MInv'
  <1>1. /\ UNCHANGED <<role, homes, invite, accept, unlimited>>
        /\ miscounted' = miscounted \cup Miscounting({invitation[i].accountId}, None)
        /\ \A j \in Invites \ {i} : invitation'[j] = invitation[j]
        /\ invitation'[i].status = "EXPIRED"
    BY DEF Expire, MInv, IInv, TypeOK, Invitation
  <1>2. \A a \in Accounts : NoneJoins(a)
    BY <1>1 DEF NoneJoins, MembersOf, PeopleOf, PendingOf, Pending
  <1>3. ASSUME NEW c \in Accepts, accept[c].pc \in {"current", "close", "commit"}, c \notin miscounted'
        PROVE  Pending(accept[c].invitation)'
    <2>1. accept[c].invitation \in Invites /\ c # None
      BY <1>3, MembershipAssumption DEF MInv, IInv, CallsAreTyped, AcceptIn, TypeOK
    <2>2. accept[c].invitation # i
      BY <1>1, <1>3, <2>1 DEF Miscounting, Target
    <2>3. QED
      BY <1>1, <1>3, <2>1, <2>2 DEF MInv, InvitationsAreOpen, Pending
  <1>4. InvitationsAreOpen'
    BY <1>1, <1>3 DEF InvitationsAreOpen
  <1>5. QED
    BY <1>1, <1>2, <1>4, NobodyJoined

LEMMA CreateInvitationKeepsLoad ==
  ASSUME MInv, IInv', NEW i \in Invites, [Next]_vars, CreateInvitation(i)
  PROVE  MInv'
  <1>0. invite \in [Invites -> Invite] /\ invitation \in [Invites -> Invitation]
    BY DEF MInv, IInv, TypeOK
  <1>b. PICK b \in Accounts : b = invite[i].accountId
    BY DEF MInv, IInv, CallsAreTyped, CreateInvitation, InviteIn
  <1>1. /\ UNCHANGED <<role, homes, accept>>
        /\ miscounted' = miscounted \cup Miscounting({b}, i)
        /\ \A j \in Invites \ {i} : invitation'[j] = invitation[j] /\ invite'[j] = invite[j]
        /\ invitation'[i].accountId = b
        /\ invite[i].pc = "create" /\ invite'[i].pc = "done" /\ invite'[i].accountId = b
        /\ unlimited \subseteq unlimited'
        /\ ~invite[i].limited => i \in unlimited'
    BY <1>0, <1>b DEF CreateInvitation, InviteIn, Invite
  <1>2. invitation[i].status = "NONE"
    BY <1>1 DEF MInv, IInv, CallsAreTyped, InviteIn
  <1>3. /\ \A a \in Accounts : MembersOf(a)' = MembersOf(a)
        /\ \A a \in Accounts \ {b} : PendingOf(a)' \subseteq PendingOf(a)
        /\ PendingOf(b)' \subseteq PendingOf(b) \cup {i}
    BY <1>1 DEF MembersOf, PeopleOf, PendingOf, Pending
  <1>4. \A a \in Accounts : Accounted(a)
    <2>1. /\ \A j \in Invites : InviteIn(j, "done") => j # i
          /\ \A j : j \in miscounted => j \in miscounted'
      BY <1>1 DEF InviteIn
    <2>2. QED
      BY <1>1, <2>1, EndedCallsAccount DEF MInv
  <1>5. TypeOK /\ TypeOK'
    BY DEF MInv, IInv
  <1>6. ASSUME NEW a \in Accounts
        PROVE  LoadWithin(a)'
    <2>1. CASE a # b
      BY <1>3, <1>4, <1>5, <2>1, LoadKept DEF MInv, NoneJoins
    <2>2. CASE a = b
      <3>1. CASE i \in miscounted \/ ~invite[i].limited
        <4>1. i \in ExcusedInvites(a)' \ ExcusedInvites(a)
          BY <1>1, <2>2, <3>1 DEF ExcusedInvites, InviteIn
        <4>2. MembersOf(a)' \subseteq MembersOf(a) /\ PendingOf(a)' \subseteq PendingOf(a) \cup {i}
          BY <1>3, <2>2
        <4>3. QED
          BY <1>4, <1>5, <4>1, <4>2, LoadKept DEF MInv
      <3>2. CASE i \notin miscounted /\ invite[i].limited
        <4>1. Cardinality(MembersOf(a)) + Cardinality(PendingOf(a)) + 1 <= MaxAdditionalMembers
          BY <1>b, <1>1, <2>2, <3>2 DEF MInv, CountsAreKnown, InviteIn
        <4>2. MembersOf(a)' \subseteq MembersOf(a) /\ PendingOf(a)' \subseteq PendingOf(a) \cup {i}
          BY <1>3, <2>2
        <4>3. QED
          BY <1>4, <1>5, <4>1, <4>2, LoadKept DEF MInv
      <3>3. QED
        BY <3>1, <3>2
    <2>3. QED
      BY <2>1, <2>2
  <1>7. ASSUME NEW j \in Invites \ miscounted', NEW a \in Accounts, invite'[j].accountId = a
        PROVE  /\ InviteIn(j, "invitations")' => Cardinality(MembersOf(a)') <= invite'[j].activeMembers
               /\ InviteIn(j, "create")' /\ invite'[j].limited =>
                     Cardinality(MembersOf(a)') + Cardinality(PendingOf(a)') + 1 <= MaxAdditionalMembers
    <2>1. CASE invite'[j].pc \notin {"invitations", "create"}
      BY <2>1 DEF InviteIn
    <2>2. CASE invite'[j].pc \in {"invitations", "create"}
      <3>1. j # i /\ invite'[j] = invite[j] /\ j \notin miscounted /\ a # b
        BY <1>1, <1>7, <2>2 DEF Miscounting
      <3>2. NoneJoins(a)
        BY <1>3, <3>1 DEF NoneJoins
      <3>3. /\ InviteIn(j, "invitations")' => Cardinality(MembersOf(a)) <= invite'[j].activeMembers
            /\ InviteIn(j, "create")' /\ invite'[j].limited =>
                  Cardinality(MembersOf(a)) + Cardinality(PendingOf(a)) + 1 <= MaxAdditionalMembers
        BY <1>7, <3>1 DEF MInv, CountsAreKnown, InviteIn
      <3>4. /\ Cardinality(MembersOf(a)') \in Nat /\ Cardinality(MembersOf(a)') <= Cardinality(MembersOf(a))
            /\ Cardinality(PendingOf(a)') \in Nat /\ Cardinality(PendingOf(a)') <= Cardinality(PendingOf(a))
            /\ Cardinality(MembersOf(a)) \in Nat /\ Cardinality(PendingOf(a)) \in Nat
        BY <1>5, <3>2, NoneJoinsCounts
      <3>5. invite'[j].activeMembers \in Nat /\ MaxAdditionalMembers \in Nat
        BY <1>5, MembershipAssumption DEF TypeOK, Invite
      <3>6. QED
        BY <3>3, <3>4, <3>5
    <2>3. QED
      BY <2>1, <2>2
  <1>8. CountsAreKnown'
    BY <1>7 DEF CountsAreKnown
  <1>9. InvitationsAreOpen'
    <2>1. ASSUME NEW c \in Accepts, accept[c].pc \in {"current", "close", "commit"}, c \notin miscounted
          PROVE  Pending(accept[c].invitation)'
      BY <1>1, <1>2, <2>1 DEF MInv, InvitationsAreOpen, Pending, IInv, CallsAreTyped, AcceptIn
    <2>2. QED
      BY <1>1, <2>1 DEF InvitationsAreOpen
  <1>10. QED
    BY <1>6, <1>8, <1>9 DEF MInv

LEMMA AcceptReadsKeepsLoad ==
  ASSUME MInv, IInv', NEW c \in Accepts, [Next]_vars,
         \/ \E u \in users, i \in Invites : FindInvitation(c, u, i)
         \/ FindCurrent(c) \/ EnsureClosable(c)
  PROVE  MInv'
  <1>1. /\ UNCHANGED <<role, homes, invitation, invite, unlimited>>
        /\ miscounted' = miscounted \/ miscounted' = miscounted \ {c}
        /\ ~AcceptIn(c, "done")
    BY DEF FindInvitation, FindCurrent, EnsureClosable, AcceptReads, AcceptGoto, AcceptFails,
           Forget, tables, historyVars, AcceptIn
  <1>2. c \notin Invites
    BY MembershipAssumption
  <1>3. \A d \in Accepts \ {c} : accept'[d] = accept[d]
    BY AcceptReadsShape DEF MInv
  <1>4. \/ accept'[c].pc = "idle"
        \/ Pending(accept'[c].invitation)
        \/ /\ miscounted' = miscounted /\ accept[c].pc \in {"current", "close"}
           /\ accept'[c].invitation = accept[c].invitation
    <2>0. accept[c] \in Accept /\ accept \in [Accepts -> Accept]
      BY DEF MInv, IInv, TypeOK
    <2>1. ASSUME NEW u \in users, NEW i \in Invites, FindInvitation(c, u, i)
          PROVE  Pending(accept'[c].invitation)
      BY <2>0, <2>1 DEF FindInvitation, NoAccept
    <2>2. CASE AcceptFails(c)
      BY <2>0, <2>2 DEF AcceptFails, NoAccept
    <2>3. CASE accept[c].pc \in {"current", "close"} /\ AcceptGoto(c, "commit")
      BY <2>0, <2>3 DEF AcceptGoto, Accept, historyVars
    <2>4. ASSUME NEW a, UNCHANGED historyVars, accept[c].pc = "current",
                 accept' = [accept EXCEPT ![c] = [@ EXCEPT !.pc = "close", !.current = a, !.owner = TRUE]]
          PROVE  <1>4!:
      BY <2>0, <2>4 DEF Accept, historyVars
    <2>5. CASE FindCurrent(c)
      BY <2>2, <2>3, <2>4, <2>5 DEF FindCurrent, AcceptIn
    <2>6. CASE EnsureClosable(c)
      BY <2>2, <2>3, <2>6 DEF EnsureClosable, AcceptIn
    <2>7. QED
      BY <2>1, <2>5, <2>6
  <1>5. InvitationsAreOpen'
    <2>1. accept'[c].pc \in {"current", "close", "commit"} /\ c \notin miscounted'
             => Pending(accept'[c].invitation)
      BY <1>4 DEF MInv, InvitationsAreOpen
    <2>2. \A d \in Accepts \ {c} : accept'[d].pc \in {"current", "close", "commit"} /\ d \notin miscounted'
             => Pending(accept'[d].invitation)
      BY <1>1, <1>3 DEF MInv, InvitationsAreOpen
    <2>3. QED
      BY <1>1, <2>1, <2>2 DEF InvitationsAreOpen, Pending
  <1>6. \A a \in Accounts : NoneJoins(a)
    BY <1>1, SameTables
  <1>7. \A d \in Accepts : AcceptIn(d, "done") =>
            accept'[d] = accept[d] /\ (d \in miscounted => d \in miscounted')
    BY <1>1, <1>3
  <1>8. \A i \in Invites : /\ invite'[i] = invite[i]
                           /\ i \in miscounted => i \in miscounted'
                           /\ i \in unlimited => i \in unlimited'
    BY <1>1, <1>2
  <1>9. QED
    BY <1>5, <1>6, <1>7, <1>8, NobodyJoined

LEMMA CommitAcceptKeepsLoad ==
  ASSUME MInv, IInv', NEW c \in Accepts, [Next]_vars, CommitAccept(c)
  PROVE  MInv'
  <1>0. /\ accept \in [Accepts -> Accept] /\ invitation \in [Invites -> Invitation]
        /\ homes \in [Users -> SUBSET Accounts] /\ role \in [Accounts -> [Users -> Role]]
        /\ TypeOK /\ TypeOK'
    BY DEF MInv, IInv, TypeOK
  <1>1. PICK u \in Users, i \in Invites, b \in Accounts :
             accept[c].userId = u /\ accept[c].invitation = i /\ Target(c) = b /\ invitation[i].accountId = b
    <2>1. ~AcceptIn(c, "idle")
      BY DEF CommitAccept, AcceptIn
    <2>2. QED
      BY <2>1, TargetType DEF MInv, IInv, CallsAreTyped, Target
  <1>2. /\ UNCHANGED <<invite, unlimited>>
        /\ accept[c].pc = "commit" /\ accept'[c].pc = "done"
        /\ accept'[c].invitation = i
        /\ \A d \in Accepts \ {c} : accept'[d] = accept[d]
        /\ homes'[u] = (homes[u] \ {accept[c].current}) \cup {b}
        /\ \A v \in Users \ {u} : homes'[v] = homes[v]
        /\ \A a \in Accounts : \A v \in Users : a # b \/ v # u => role'[a][v] = role[a][v]
        /\ \A j \in Invites \ {i} : invitation'[j] = invitation[j]
        /\ invitation'[i].status = "ACCEPTED" /\ invitation'[i].accountId = b
    BY <1>0, <1>1 DEF CommitAccept, AcceptIn, HomesAfter, Accept, Invitation
  <1>3. /\ \A x : x \in miscounted => x \in miscounted'
        /\ \A j \in Invites : invite[j].pc \in {"invitations", "create"} /\ invite[j].accountId = b => j \in miscounted'
        /\ \A d \in Accepts \ {c} :
              accept[d].pc \in {"current", "close", "commit"} /\ Target(d) = b => d \in miscounted'
    <2>1. miscounted' = miscounted \cup Miscounting({b} \cup ({accept[c].current} \ {None}), c)
      BY <1>1 DEF CommitAccept
    <2>2. c \notin Invites
      BY MembershipAssumption
    <2>3. QED
      BY <2>1, <2>2 DEF Miscounting
  <1>4. /\ \A a \in Accounts \ {b} : NoneJoins(a)
        /\ MembersOf(b)' \subseteq MembersOf(b) \cup {u}
        /\ PendingOf(b)' \subseteq PendingOf(b) \ {i}
    <2>1. ASSUME NEW a \in Accounts, NEW v \in Users, v \in MembersOf(a)'
          PROVE  v \in MembersOf(a) \/ (a = b /\ v = u)
      BY <1>2, <2>1 DEF MembersOf, PeopleOf
    <2>2. \A a \in Accounts : MembersOf(a)' \subseteq Users
      BY DEF MembersOf, PeopleOf
    <2>3. \A a \in Accounts : PendingOf(a)' \subseteq PendingOf(a) \ {i}
      BY <1>2 DEF PendingOf, Pending
    <2>4. QED
      BY <2>1, <2>2, <2>3 DEF NoneJoins
  <1>5. \A a \in Accounts : Accounted(a)
    <2>1. \A d \in Accepts : AcceptIn(d, "done") => accept'[d] = accept[d] /\ (d \in miscounted => d \in miscounted')
      BY <1>2, <1>3 DEF AcceptIn
    <2>2. QED
      BY <1>2, <1>3, <2>1, EndedCallsAccount DEF MInv
  <1>6. ASSUME NEW a \in Accounts
        PROVE  LoadWithin(a)'
    <2>1. CASE a # b
      BY <1>0, <1>4, <1>5, <2>1, LoadKept DEF MInv
    <2>2. CASE a = b /\ i \in PendingOf(b)
      BY <1>0, <1>4, <1>5, <2>2, LoadKept DEF MInv
    <2>3. CASE a = b /\ i \notin PendingOf(b)
      <3>1. c \in miscounted
        BY <1>1, <1>2, <2>3 DEF MInv, InvitationsAreOpen, PendingOf
      <3>2. c \in ExcusedAccepts(b)' \ ExcusedAccepts(b)
        BY <1>2, <1>3, <3>1 DEF ExcusedAccepts, AcceptIn, Target
      <3>3. PendingOf(b)' \subseteq PendingOf(b)
        BY <1>4
      <3>4. QED
        BY <1>0, <1>4, <1>5, <2>3, <3>2, <3>3, LoadKept DEF MInv
    <2>4. QED
      BY <2>1, <2>2, <2>3
  <1>7. ASSUME NEW j \in Invites \ miscounted', NEW a \in Accounts, invite'[j].accountId = a
        PROVE  /\ InviteIn(j, "invitations")' => Cardinality(MembersOf(a)') <= invite'[j].activeMembers
               /\ InviteIn(j, "create")' /\ invite'[j].limited =>
                     Cardinality(MembersOf(a)') + Cardinality(PendingOf(a)') + 1 <= MaxAdditionalMembers
    <2>1. CASE invite[j].pc \notin {"invitations", "create"}
      BY <1>2, <2>1 DEF InviteIn
    <2>2. CASE invite[j].pc \in {"invitations", "create"}
      <3>1. invite'[j] = invite[j] /\ j \notin miscounted /\ a # b
        BY <1>2, <1>3, <1>7, <2>2
      <3>2. NoneJoins(a)
        BY <1>4, <3>1
      <3>3. /\ InviteIn(j, "invitations")' => Cardinality(MembersOf(a)) <= invite'[j].activeMembers
            /\ InviteIn(j, "create")' /\ invite'[j].limited =>
                  Cardinality(MembersOf(a)) + Cardinality(PendingOf(a)) + 1 <= MaxAdditionalMembers
        BY <1>7, <3>1 DEF MInv, CountsAreKnown, InviteIn
      <3>4. /\ Cardinality(MembersOf(a)') \in Nat /\ Cardinality(MembersOf(a)') <= Cardinality(MembersOf(a))
            /\ Cardinality(PendingOf(a)') \in Nat /\ Cardinality(PendingOf(a)') <= Cardinality(PendingOf(a))
            /\ Cardinality(MembersOf(a)) \in Nat /\ Cardinality(PendingOf(a)) \in Nat
        BY <1>0, <3>2, NoneJoinsCounts
      <3>5. invite'[j].activeMembers \in Nat /\ MaxAdditionalMembers \in Nat
        BY <1>0, MembershipAssumption DEF TypeOK, Invite
      <3>6. QED
        BY <3>3, <3>4, <3>5
    <2>3. QED
      BY <2>1, <2>2
  <1>8. CountsAreKnown'
    BY <1>7 DEF CountsAreKnown
  <1>9. InvitationsAreOpen'
    <2>1. ASSUME NEW d \in Accepts, accept'[d].pc \in {"current", "close", "commit"}, d \notin miscounted'
          PROVE  invitation'[accept'[d].invitation].status = "PENDING"
      <3>1. d # c /\ accept'[d] = accept[d] /\ d \notin miscounted /\ accept[d].invitation \in Invites
        BY <1>2, <1>3, <2>1 DEF MInv, IInv, CallsAreTyped, AcceptIn
      <3>2. accept[d].invitation # i
        BY <1>1, <1>3, <2>1, <3>1 DEF Target
      <3>3. QED
        BY <1>2, <2>1, <3>1, <3>2 DEF MInv, InvitationsAreOpen, Pending
    <2>2. QED
      BY <2>1 DEF InvitationsAreOpen, Pending
  <1>10. QED
    BY <1>6, <1>8, <1>9 DEF MInv

\* The steps of persons, removals and subscriptions.
LEMMA OthersKeepLoad ==
  ASSUME MInv, IInv', [Next]_vars,
         \/ \E u \in Users : Register(u) \/ CreateUser(u)
         \/ \E a \in Accounts : Subscribe(a) \/ Lapse(a)
         \/ \E r \in Removals :
               \/ \E owner \in users : FindOwner(r, owner)
               \/ \E u \in users : FindMember(r, u)
               \/ Remove(r)
         \/ UNCHANGED vars
  PROVE  MInv'
  <1>0. /\ homes \in [Users -> SUBSET Accounts] /\ role \in [Accounts -> [Users -> Role]]
    BY DEF MInv, IInv, TypeOK
  <1>1. /\ UNCHANGED <<invitation, invite, accept, unlimited>>
        /\ \A x \in Invites \cup Accepts : x \in miscounted => x \in miscounted'
    <2>1. ASSUME NEW u \in Users, Register(u) \/ CreateUser(u)
          PROVE  <1>1!:
      BY <2>1 DEF Register, CreateUser, historyVars
    <2>2. ASSUME NEW a \in Accounts, Subscribe(a) \/ Lapse(a)
          PROVE  <1>1!:
      BY <2>2 DEF Subscribe, Lapse, historyVars
    <2>3. ASSUME NEW r \in Removals, \E owner \in users : FindOwner(r, owner)
          PROVE  <1>1!:
      BY <2>3 DEF FindOwner, RemovalReads, tables, historyVars
    <2>4. ASSUME NEW r \in Removals, \E u \in users : FindMember(r, u)
          PROVE  <1>1!:
      BY <2>4, MembershipAssumption DEF FindMember, RemovalFails, Forget, RemovalReads, tables, historyVars
    <2>5. ASSUME NEW r \in Removals, Remove(r)
          PROVE  <1>1!:
      BY <2>5 DEF Remove
    <2>6. CASE UNCHANGED vars
      BY <2>6 DEF vars
    <2>7. QED
      BY <2>1, <2>2, <2>3, <2>4, <2>5, <2>6
  <1>2. ASSUME NEW a \in Accounts, NEW v \in Users, a \in homes'[v], role'[a][v] = "MEMBER"
        PROVE  a \in homes[v] /\ role[a][v] = "MEMBER"
    <2>1. ASSUME NEW u \in Users, Register(u)
          PROVE  a \in homes[v] /\ role[a][v] = "MEMBER"
      <3>1. /\ homes'[v] = IF v = u THEN {u} ELSE homes[v]
            /\ role'[a][v] = IF a = u /\ v = u THEN "OWNER" ELSE role[a][v]
        BY <1>0, <2>1 DEF Register
      <3>2. QED
        BY <1>2, <3>1
    <2>2. ASSUME NEW r \in Removals, Remove(r)
          PROVE  a \in homes[v] /\ role[a][v] = "MEMBER"
      <3>1. /\ v = removal[r].userId => homes'[v] = (homes[v] \ {removal[r].accountId}) \cup {r}
            /\ v # removal[r].userId => homes'[v] = homes[v]
            /\ role'[a][v] = IF a = r /\ v = removal[r].userId THEN "OWNER" ELSE role[a][v]
        BY <1>0, <2>2 DEF Remove
      <3>2. QED
        BY <1>2, <3>1
    <2>3. CASE UNCHANGED <<homes, role>>
      BY <1>2, <2>3
    <2>4. QED
      BY <2>1, <2>2, <2>3 DEF CreateUser, Subscribe, Lapse, FindOwner, FindMember, RemovalReads, tables, vars
  <1>3. \A a \in Accounts : NoneJoins(a)
    <2>1. \A a \in Accounts : MembersOf(a)' \subseteq MembersOf(a)
      BY <1>2 DEF MembersOf, PeopleOf
    <2>2. \A a \in Accounts : PendingOf(a)' \subseteq PendingOf(a)
      BY <1>1 DEF PendingOf, Pending
    <2>3. QED
      BY <2>1, <2>2 DEF NoneJoins
  <1>4. InvitationsAreOpen'
    BY <1>1, SameInvitations
  <1>5. QED
    BY <1>1, <1>3, <1>4, NobodyJoined

LEMMA CrashKeepsLoad ==
  ASSUME MInv, IInv', [Next]_vars, Crash
  PROVE  MInv'
  <1>1. UNCHANGED <<role, homes, invitation, unlimited>>
    BY DEF Crash, tables, Forget
  <1>2. /\ \A i \in Invites : invite'[i] = IF InviteIn(i, "done") THEN invite[i] ELSE NoInvite
        /\ \A c \in Accepts : accept'[c] = IF AcceptIn(c, "done") THEN accept[c] ELSE NoAccept
    BY DEF Crash
  <1>3. /\ \A i \in Invites : InviteIn(i, "done") /\ i \in miscounted => i \in miscounted'
        /\ \A c \in Accepts : AcceptIn(c, "done") /\ c \in miscounted => c \in miscounted'
    BY MembershipAssumption DEF Crash, Forget
  <1>4. \A a \in Accounts : NoneJoins(a)
    BY <1>1, SameTables
  <1>5. InvitationsAreOpen'
    BY <1>2 DEF InvitationsAreOpen, AcceptIn, NoAccept
  <1>6. \A i \in Invites : ~InviteIn(i, "done") => invite'[i].pc \notin {"invitations", "create"}
    BY <1>2 DEF NoInvite
  <1>7. \A i \in Invites : InviteIn(i, "done") => /\ invite'[i] = invite[i]
                                                  /\ i \in miscounted => i \in miscounted'
                                                  /\ i \in unlimited => i \in unlimited'
    BY <1>1, <1>2, <1>3
  <1>8. \A c \in Accepts : AcceptIn(c, "done") => accept'[c] = accept[c] /\ (c \in miscounted => c \in miscounted')
    BY <1>2, <1>3
  <1>9. QED
    BY <1>4, <1>5, <1>6, <1>7, <1>8, NobodyJoined

LEMMA InitLoad == Init => MInv
  <1> SUFFICES ASSUME Init PROVE MInv
    OBVIOUS
  <1>1. IInv
    BY InitInv
  <1>2. CountsAreKnown /\ InvitationsAreOpen
    BY DEF Init, CountsAreKnown, InvitationsAreOpen, InviteIn, NoInvite, NoAccept
  <1>3. ASSUME NEW a \in Accounts
        PROVE  LoadWithin(a)
    <2>1. /\ MembersOf(a) = {} /\ PendingOf(a) = {}
          /\ ExcusedInvites(a) = {} /\ ExcusedAccepts(a) = {}
      BY DEF Init, MembersOf, PeopleOf, PendingOf, Pending, NoInvitation, ExcusedInvites, ExcusedAccepts
    <2>2. Cardinality({}) = 0 /\ MaxAdditionalMembers \in Nat
      BY FS_EmptySet, MembershipAssumption
    <2>3. QED
      BY <2>1, <2>2 DEF LoadWithin
  <1>4. QED
    BY <1>1, <1>2, <1>3 DEF MInv

LEMMA NextLoad == MInv /\ [Next]_vars => MInv'
  <1> SUFFICES ASSUME MInv, [Next]_vars PROVE MInv'
    OBVIOUS
  <1>0. IInv'
    BY NextInv DEF MInv
  <1>1. ASSUME NEW i \in Invites,
               \/ \E owner \in users, email \in Emails : FindOwned(i, owner, email)
               \/ \E a \in Accounts, email \in Emails : FindAccount(i, a, email)
               \/ InviteStep(i)
        PROVE  MInv'
    BY <1>0, <1>1, InviteReadsKeepsLoad, ExpireKeepsLoad, CreateInvitationKeepsLoad DEF InviteStep
  <1>2. ASSUME NEW c \in Accepts,
               \/ \E u \in users, i \in Invites : FindInvitation(c, u, i)
               \/ AcceptStep(c)
        PROVE  MInv'
    BY <1>0, <1>2, AcceptReadsKeepsLoad, CommitAcceptKeepsLoad DEF AcceptStep
  <1>3. CASE Crash
    BY <1>0, <1>3, CrashKeepsLoad
  <1>4. CASE \/ \E u \in Users : Register(u) \/ CreateUser(u)
             \/ \E a \in Accounts : Subscribe(a) \/ Lapse(a)
             \/ \E r \in Removals :
                   \/ \E owner \in users : FindOwner(r, owner)
                   \/ \E u \in users : FindMember(r, u)
                   \/ Remove(r)
             \/ UNCHANGED vars
    BY <1>0, <1>4, OthersKeepLoad
  <1>5. QED
    BY <1>1, <1>2, <1>3, <1>4 DEF Next

\* The additional members and the pending invitations of an account never exceed what its
\* plan allows (MEMBER_LIMIT_REACHED) by more than the calls that were miscounted, or
\* invited without a plan: InviteMemberUseCase counts before it creates, and two calls
\* that overlap count the same.
THEOREM PlanLimitsMembersButForOverlaps == Spec => []ExtraMemberWasMiscounted
  <1>1. MInv => ExtraMemberWasMiscounted
    <2> SUFFICES ASSUME MInv, NEW a \in Accounts
                 PROVE  Cardinality(MembersOf(a)) + Cardinality(PendingOf(a)) <= MaxAdditionalMembers
                          + Cardinality({i \in miscounted \cup unlimited : i \in Invites /\ invite[i].accountId = a})
                          + Cardinality({c \in miscounted \cap Accepts : AcceptIn(c, "done") /\ Target(c) = a})
      BY DEF ExtraMemberWasMiscounted
    <2> DEFINE J == {i \in miscounted \cup unlimited : i \in Invites /\ invite[i].accountId = a}
               I == ExcusedInvites(a)
               A == ExcusedAccepts(a)
               M == MembersOf(a)
               P == PendingOf(a)
    <2>1. TypeOK /\ LoadWithin(a)
      BY DEF MInv, IInv
    <2>2. J \in SUBSET Invites /\ I \in SUBSET J
      BY DEF ExcusedInvites
    <2>3. Cardinality(M) + Cardinality(P) <= MaxAdditionalMembers + Cardinality(I) + Cardinality(A)
      BY <2>1 DEF LoadWithin
    <2>4. M \in SUBSET Users /\ P \in SUBSET Invites /\ I \in SUBSET Invites /\ A \in SUBSET Accepts
      BY <2>1, LoadCount
    <2>5. A = {c \in miscounted \cap Accepts : AcceptIn(c, "done") /\ Target(c) = a}
      BY DEF ExcusedAccepts
    <2> HIDE DEF J, I, A, M, P
    <2>6. /\ Cardinality(J) \in Nat /\ Cardinality(I) \in Nat /\ Cardinality(I) <= Cardinality(J)
          /\ Cardinality(A) \in Nat /\ Cardinality(M) \in Nat /\ Cardinality(P) \in Nat
          /\ MaxAdditionalMembers \in Nat
      BY <2>2, <2>4, Counts, MembershipAssumption
    <2>7. Cardinality(M) + Cardinality(P) <= MaxAdditionalMembers + Cardinality(J) + Cardinality(A)
      BY <2>3, <2>6
    <2>8. QED
      BY <2>5, <2>7 DEF J, M, P
  <1>2. QED
    BY <1>1, InitLoad, NextLoad, PTL DEF Spec
=============================================================================
