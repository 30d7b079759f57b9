---------------------------- MODULE DeviceLinks ----------------------------
(***************************************************************************)
(* Linking a television: it asks for a code, a person approves the code    *)
(* from a phone, and the television polls until it receives its tokens.    *)
(*                                                                         *)
(* An approval reads that the link is PENDING, registers the device, and   *)
(* then writes APPROVED whatever the status has become.  A poll reads the  *)
(* link, moves it from APPROVED to CLAIMED in one conditional statement,   *)
(* and creates the authentication session from what it read before.  The   *)
(* television repeats the poll when no answer comes, so polls of one link  *)
(* run together.  The server may crash between any two steps.              *)
(***************************************************************************)
EXTENDS Naturals, FiniteSets

CONSTANTS
    Users,
    Links,      \* requests of televisions; each one has its installation
    Approvals,  \* calls of approve
    LinkOf,     \* the link whose code the approval was called with
    Polls,      \* requests of claim that may be open at a time
    MaxCrashes, \* bound on the crashes
    None

ASSUME LinksAssumption ==
    /\ LinkOf \in [Approvals -> Links]
    /\ None \notin Users \cup Links \cup Approvals
    /\ MaxCrashes \in Nat

VARIABLES
    link,          \* rows of table DeviceLink: status, and the approval whose person and
                   \* device are in the row
    expired,       \* links whose expiresAt has passed
    activeDevices, \* <<user, link>>: the device of a link's installation that was
                   \* registered for the person, while it is ACTIVE
    approval,      \* the calls of approve: where they are, and their person
    poll,          \* the calls of claim: where they are, and what they have read
    session,       \* the session created for the grant of each approval
    claims,        \* history: times the grant of each approval was claimed
    received,      \* history: grants whose tokens reached the television
    lost,          \* history: grants whose reply was lost, or cut short by a crash
    crossed,       \* history: approvals written since the approval had read its link
    bornRevoked,   \* history: sessions created when their device was not ACTIVE
    crashes

historyVars == <<claims, received, lost, crossed, bornRevoked>>
vars == <<link, expired, activeDevices, approval, poll, session,
          claims, received, lost, crossed, bornRevoked, crashes>>

LinkStatus == {"NONE", "PENDING", "APPROVED", "CLAIMED"}
ApprovalSteps == {"idle", "register", "approve", "done", "failed"}
PollSteps == {"idle", "claim", "create", "store", "reply"}
SessionStatus == {"NONE", "LIVE", "REVOKED"}

Link == [status : LinkStatus, approval : Approvals \cup {None}]
Approval == [pc : ApprovalSteps, userId : Users \cup {None}]
Poll == [pc : PollSteps,
         link : Links \cup {None},
         read : Approvals \cup {None},      \* approvedByUserId and deviceId, as read
         grant : Approvals \cup {None}]     \* the approval whose APPROVED it claimed
Session == [status : SessionStatus, approval : Approvals \cup {None}]

NoPoll == [pc |-> "idle", link |-> None, read |-> None, grant |-> None]

-----------------------------------------------------------------------------
Pending(l) == link[l].status = "PENDING" /\ l \notin expired
Approved(l) == link[l].status = "APPROVED"

\* The device that approval a registered, and the device a session is bound to.
DeviceOf(a) == <<approval[a].userId, LinkOf[a]>>
SessionDevice(g) == DeviceOf(session[g].approval)

AtApproval(a, pc) == approval' = [approval EXCEPT ![a] = [@ EXCEPT !.pc = pc]]
AtPoll(p, pc) == poll' = [poll EXCEPT ![p] = [@ EXCEPT !.pc = pc]]

-----------------------------------------------------------------------------
\* RequestDeviceLinkUseCase.execute, and AdminDeviceLinkUseCase.execute: the retries
\* with another code leave no row behind.
Request(l) ==
    /\ link[l].status = "NONE"
    /\ link' = [link EXCEPT ![l] = [@ EXCEPT !.status = "PENDING"]]
    /\ UNCHANGED <<expired, activeDevices, approval, poll, session, historyVars, crashes>>

\* DEVICE_LINK_TTL_SECONDS pass.
Expire(l) ==
    /\ link[l].status # "NONE"
    /\ l \notin expired
    /\ expired' = expired \cup {l}
    /\ UNCHANGED <<link, activeDevices, approval, poll, session, historyVars, crashes>>

-----------------------------------------------------------------------------
\* ApproveDeviceLinkUseCase.execute.

\* Faulty variant of FindPending: the status is not compared.
FindLink(a, u) ==
    /\ approval[a].pc = "idle"
    /\ \/ /\ link[LinkOf[a]].status # "NONE" /\ LinkOf[a] \notin expired
          /\ approval' = [approval EXCEPT ![a] = [pc |-> "register", userId |-> u]]
       \/ /\ link[LinkOf[a]].status = "NONE" \/ LinkOf[a] \in expired
          /\ AtApproval(a, "failed")
    /\ UNCHANGED <<link, expired, activeDevices, poll, session, historyVars, crashes>>

\* deviceLink.findUnique, or DEVICE_LINK_INVALID_OR_EXPIRED.
FindPending(a, u) ==
    /\ approval[a].pc = "idle"
    /\ \/ /\ Pending(LinkOf[a])
          /\ approval' = [approval EXCEPT ![a] = [pc |-> "register", userId |-> u]]
       \/ ~Pending(LinkOf[a]) /\ AtApproval(a, "failed")
    /\ UNCHANGED <<link, expired, activeDevices, poll, session, historyVars, crashes>>

\* registerDevice.execute (Devices.tla): the device is ACTIVE, or the call fails.
Register(a) ==
    /\ approval[a].pc = "register"
    /\ \/ activeDevices' = activeDevices \cup {DeviceOf(a)} /\ AtApproval(a, "approve")
       \/ activeDevices' = activeDevices /\ AtApproval(a, "failed")
    /\ UNCHANGED <<link, expired, poll, session, historyVars, crashes>>

\* Faulty variant of Approve: a status is written that no reader of the table knows.
ApproveAsActive(a) ==
    /\ approval[a].pc = "approve"
    /\ link' = [link EXCEPT ![LinkOf[a]] = [status |-> "ACTIVE", approval |-> a]]
    /\ AtApproval(a, "done")
    /\ UNCHANGED <<expired, activeDevices, poll, session, historyVars, crashes>>

\* deviceLink.update where id: the status is not looked at again.
Approve(a) ==
    /\ approval[a].pc = "approve"
    /\ link' = [link EXCEPT ![LinkOf[a]] = [status |-> "APPROVED", approval |-> a]]
    /\ crossed' = [b \in Approvals |->
          IF b # a /\ LinkOf[b] = LinkOf[a] /\ approval[b].pc \in {"register", "approve"}
          THEN crossed[b] \cup {a} ELSE crossed[b]]
    /\ AtApproval(a, "done")
    /\ UNCHANGED <<expired, activeDevices, poll, session, claims, received, lost,
                   bornRevoked, crashes>>

-----------------------------------------------------------------------------
\* ClaimDeviceLinkUseCase.execute, then CreateAuthSessionUseCase.execute.

\* deviceLink.findUnique: an answer at once, or the row of an approved link.
Find(p, l) ==
    /\ poll[p].pc = "idle"
    /\ Approved(l) /\ l \notin expired
    /\ poll' = [poll EXCEPT ![p] = [pc |-> "claim", link |-> l,
                                    read |-> link[l].approval, grant |-> None]]
    /\ UNCHANGED <<link, expired, activeDevices, approval, session, historyVars, crashes>>

\* Faulty variant of Claim: the status is not part of the condition.
ClaimAnyway(p) ==
    /\ poll[p].pc = "claim"
    /\ LET l == poll[p].link
           g == link[l].approval
       IN  /\ link' = [link EXCEPT ![l] = [@ EXCEPT !.status = "CLAIMED"]]
           /\ claims' = [claims EXCEPT ![g] = @ + 1]
           /\ poll' = [poll EXCEPT ![p] = [@ EXCEPT !.pc = "create", !.grant = g]]
    /\ UNCHANGED <<expired, activeDevices, approval, session,
                   received, lost, crossed, bornRevoked, crashes>>

\* Faulty variant of Claim: the poll is answered at once and creates no session.
ClaimAndAnswer(p) ==
    /\ poll[p].pc = "claim"
    /\ link' = [link EXCEPT ![poll[p].link] =
          IF Approved(poll[p].link) THEN [@ EXCEPT !.status = "CLAIMED"] ELSE @]
    /\ poll' = [poll EXCEPT ![p] = NoPoll]
    /\ UNCHANGED <<expired, activeDevices, approval, session, historyVars, crashes>>

\* deviceLink.updateMany where id and status APPROVED, or DEVICE_LINK_ALREADY_CLAIMED.
Claim(p) ==
    /\ poll[p].pc = "claim"
    /\ LET l == poll[p].link
           g == link[l].approval
       IN  \/ /\ Approved(l)
              /\ link' = [link EXCEPT ![l] = [@ EXCEPT !.status = "CLAIMED"]]
              /\ claims' = [claims EXCEPT ![g] = @ + 1]
              /\ poll' = [poll EXCEPT ![p] = [@ EXCEPT !.pc = "create", !.grant = g]]
           \/ /\ ~Approved(l)
              /\ poll' = [poll EXCEPT ![p] = NoPoll]
              /\ UNCHANGED <<link, claims>>
    /\ UNCHANGED <<expired, activeDevices, approval, session,
                   received, lost, crossed, bornRevoked, crashes>>

\* session.create for the person and the device read before the claim.
CreateSession(p) ==
    /\ poll[p].pc = "create"
    /\ session' = [session EXCEPT ![poll[p].grant] =
                      [status |-> "LIVE", approval |-> poll[p].read]]
    /\ bornRevoked' = IF DeviceOf(poll[p].read) \in activeDevices THEN bornRevoked
                      ELSE bornRevoked \cup {poll[p].grant}
    /\ AtPoll(p, "store")
    /\ UNCHANGED <<link, expired, activeDevices, approval,
                   claims, received, lost, crossed, crashes>>

\* session.update of the hash, a statement that touches nothing modelled here.
StoreHash(p) ==
    /\ poll[p].pc = "store"
    /\ AtPoll(p, "reply")
    /\ UNCHANGED <<link, expired, activeDevices, approval, session, historyVars, crashes>>

\* The tokens reach the television, or the reply is lost.
Reply(p) ==
    /\ poll[p].pc = "reply"
    /\ \/ received' = received \cup {poll[p].grant} /\ lost' = lost
       \/ received' = received /\ lost' = lost \cup {poll[p].grant}
    /\ poll' = [poll EXCEPT ![p] = NoPoll]
    /\ UNCHANGED <<link, expired, activeDevices, approval, session,
                   claims, crossed, bornRevoked, crashes>>

-----------------------------------------------------------------------------
\* Faulty variant of RevokeDevice: sessions whose tokens were not received are left out.
RevokeReceived(d) ==
    /\ d \in activeDevices
    /\ activeDevices' = activeDevices \ {d}
    /\ session' = [g \in Approvals |->
          IF session[g].status = "LIVE" /\ SessionDevice(g) = d /\ g \in received
          THEN [session[g] EXCEPT !.status = "REVOKED"] ELSE session[g]]
    /\ UNCHANGED <<link, expired, approval, poll, historyVars, crashes>>

\* RevokeDeviceUseCase and RegisterDeviceUseCase.revokeDevice: the transaction revokes
\* the device and session.updateMany({ deviceId, revokedAt: null }).
RevokeDevice(d) ==
    /\ d \in activeDevices
    /\ activeDevices' = activeDevices \ {d}
    /\ session' = [g \in Approvals |->
          IF session[g].status = "LIVE" /\ SessionDevice(g) = d
          THEN [session[g] EXCEPT !.status = "REVOKED"] ELSE session[g]]
    /\ UNCHANGED <<link, expired, approval, poll, historyVars, crashes>>

\* The process stops and starts again: approvals and polls in flight are gone.
Crash ==
    /\ crashes < MaxCrashes
    /\ crashes' = crashes + 1
    /\ approval' = [a \in Approvals |->
          IF approval[a].pc \in {"register", "approve"} THEN [approval[a] EXCEPT !.pc = "failed"]
          ELSE approval[a]]
    /\ lost' = lost \cup {poll[p].grant : p \in {q \in Polls : poll[q].grant # None}}
    /\ poll' = [p \in Polls |-> NoPoll]
    /\ UNCHANGED <<link, expired, activeDevices, session,
                   claims, received, crossed, bornRevoked>>

-----------------------------------------------------------------------------
Init ==
    /\ link = [l \in Links |-> [status |-> "NONE", approval |-> None]]
    /\ expired = {}
    /\ activeDevices = {}
    /\ approval = [a \in Approvals |-> [pc |-> "idle", userId |-> None]]
    /\ poll = [p \in Polls |-> NoPoll]
    /\ session = [g \in Approvals |-> [status |-> "NONE", approval |-> None]]
    /\ claims = [g \in Approvals |-> 0]
    /\ received = {}
    /\ lost = {}
    /\ crossed = [a \in Approvals |-> {}]
    /\ bornRevoked = {}
    /\ crashes = 0

PollStep(p) == Claim(p) \/ CreateSession(p) \/ StoreHash(p) \/ Reply(p)

Next ==
    \/ \E l \in Links : Request(l) \/ Expire(l)
    \/ \E a \in Approvals : (\E u \in Users : FindPending(a, u)) \/ Register(a) \/ Approve(a)
    \/ \E p \in Polls : (\E l \in Links : Find(p, l)) \/ PollStep(p)
    \/ \E d \in activeDevices : RevokeDevice(d)
    \/ Crash

Spec == Init /\ [][Next]_vars

\* A television polls its link again and again, and a request that the server has begun
\* goes on: nothing in it waits for another request.  Approvals, revocations, expiry
\* and crashes need not happen.
Fairness ==
    /\ \A l \in Links : WF_vars(\E p \in Polls : Find(p, l))
    /\ \A p \in Polls : WF_vars(PollStep(p))

FairSpec == Spec /\ Fairness

-----------------------------------------------------------------------------
(***************************************************************************)
(* Properties.                                                             *)
(***************************************************************************)

TypeOK ==
    /\ link \in [Links -> Link]
    /\ expired \subseteq Links
    /\ activeDevices \subseteq Users \X Links
    /\ approval \in [Approvals -> Approval]
    /\ poll \in [Polls -> Poll]
    /\ session \in [Approvals -> Session]
    /\ claims \in [Approvals -> Nat]
    /\ received \subseteq Approvals
    /\ lost \subseteq Approvals
    /\ crossed \in [Approvals -> SUBSET Approvals]
    /\ bornRevoked \subseteq Approvals
    /\ crashes \in 0 .. MaxCrashes

\* The grants of LinkHandshake: an approval that was written is open while its link says
\* so, taken when a poll has claimed it, and replaced otherwise.
Grant == [a \in Approvals |->
    IF approval[a].pc # "done" THEN "none"
    ELSE IF claims[a] > 0 THEN "taken"
    ELSE IF Approved(LinkOf[a]) /\ link[LinkOf[a]].approval = a THEN "open" ELSE "replaced"]

Handshake == INSTANCE LinkHandshake WITH grant <- Grant, taken <- claims

\* However polls and approvals interleave, a grant is taken at most once and never after
\* it was replaced (claim-device-link.use-case.ts, the conditional updateMany).
GrantIsTakenOnce == Handshake!Spec

\* A link is approved a second time only by an approval that had read it before the
\* first was written.
OnlyOverlapApprovesTwice ==
    \A a, b \in Approvals :
        /\ a # b /\ LinkOf[a] = LinkOf[b]
        /\ approval[a].pc = "done" /\ approval[b].pc = "done"
        => a \in crossed[b] \/ b \in crossed[a]

\* A revoked device keeps a live session only when the session was created after the
\* revocation: the claim does not look at the device, but a session that exists is
\* found by the revocation, with its first token stored or not.
RevokedDeviceLosesSessions ==
    \A g \in Approvals :
        session[g].status = "LIVE" /\ SessionDevice(g) \notin activeDevices => g \in bornRevoked

\* ClaimDeviceLinkUseCase: a grant that was claimed is not forgotten and is answered once.
\* One poll has it in hand, or its one reply reached the television, or that reply was lost;
\* and a grant that was not claimed is in nobody's hands.
GrantIsAnsweredOnce ==
    \A g \in Approvals :
        LET serving  == {p \in Polls : poll[p].grant = g}
            answered == g \in received \cup lost
        IN  /\ claims[g] = 0 => serving = {} /\ ~answered
            /\ claims[g] > 0 => IF answered THEN serving = {} ELSE \E p \in serving : serving = {p}
            /\ g \notin received \cap lost

\* A television whose link is approved receives its tokens, unless the link expires
\* first, or the one reply with the tokens is lost: they are not sent a second time.
ApprovedTelevisionIsServed ==
    \A l \in Links :
        Approved(l) ~> \/ l \in expired
                       \/ \E a \in Approvals : LinkOf[a] = l /\ a \in received \cup lost

-----------------------------------------------------------------------------
(***************************************************************************)
(* What the documentation says and the code does not do.                   *)
(***************************************************************************)

\* "claim entrega tokens una unica vez": the tokens of a link are delivered once.
TokensAreDeliveredOnce ==
    \A l \in Links : Cardinality({a \in received : LinkOf[a] = l}) <= 1

=============================================================================
