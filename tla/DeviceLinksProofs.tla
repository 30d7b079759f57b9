------------------------- MODULE DeviceLinksProofs -------------------------
(***************************************************************************)
(* Proofs about DeviceLinks, for any links, approvals and polls: its       *)
(* safety, that it implements LinkHandshake, and what becomes of a grant.  *)
(***************************************************************************)
EXTENDS DeviceLinks, TLAPS

Done(a) == approval[a].pc = "done"

\* A call of approve that has found its link knows its person.
ApprovalsAreKnown ==
    \A a \in Approvals : approval[a].pc \in {"register", "approve", "done"} => approval[a].userId \in Users

\* The row of a link names an approval that was written, from its first approval on.
LinksAreKnown ==
    \A l \in Links :
        /\ link[l].status \in {"NONE", "PENDING"} =>
              \A a \in Approvals : LinkOf[a] = l => ~Done(a)
        /\ link[l].status \in {"APPROVED", "CLAIMED"} =>
              /\ link[l].approval \in Approvals
              /\ LinkOf[link[l].approval] = l
              /\ Done(link[l].approval)

\* What a poll has read, and whose grant it has claimed.
PollsAreKnown ==
    \A p \in Polls : poll[p].pc # "idle" =>
        /\ poll[p].link \in Links
        /\ link[poll[p].link].status \in {"APPROVED", "CLAIMED"}
        /\ poll[p].read \in Approvals /\ Done(poll[p].read)
        /\ poll[p].pc # "claim" => poll[p].grant \in Approvals

\* A grant that is open, or that is not given yet, was never claimed.
OpenIsUnclaimed ==
    /\ \A a \in Approvals : ~Done(a) => claims[a] = 0
    /\ \A l \in Links : Approved(l) => claims[link[l].approval] = 0

\* An approval under way knows the approvals of its link that were written since it read.
RereadsAreSeen ==
    \A a, b \in Approvals :
        /\ a # b /\ LinkOf[a] = LinkOf[b]
        /\ Done(a) /\ approval[b].pc \in {"register", "approve"}
        => a \in crossed[b]

\* A session is bound to the device of an approval that was written.
SessionsAreKnown ==
    \A g \in Approvals : session[g].status = "LIVE" =>
        session[g].approval \in Approvals /\ Done(session[g].approval)

IInv ==
    /\ TypeOK
    /\ ApprovalsAreKnown
    /\ LinksAreKnown
    /\ PollsAreKnown
    /\ OpenIsUnclaimed
    /\ RereadsAreSeen
    /\ OnlyOverlapApprovesTwice
    /\ SessionsAreKnown
    /\ RevokedDeviceLosesSessions

-----------------------------------------------------------------------------
LEMMA Initially == Init => IInv
  <1> SUFFICES ASSUME Init PROVE IInv
    OBVIOUS
  <1>1. TypeOK
    BY LinksAssumption
    DEF Init, TypeOK, Link, LinkStatus, Approval, ApprovalSteps, Poll, PollSteps, Session,
        SessionStatus, NoPoll
  <1>2. /\ \A a \in Approvals : approval[a].pc = "idle" /\ ~Done(a)
        /\ \A l \in Links : link[l].status = "NONE"
        /\ \A p \in Polls : poll[p].pc = "idle"
        /\ \A g \in Approvals : session[g].status = "NONE" /\ claims[g] = 0
    BY DEF Init, Done, NoPoll
  <1>3. ApprovalsAreKnown /\ LinksAreKnown /\ PollsAreKnown
    BY <1>2 DEF ApprovalsAreKnown, LinksAreKnown, PollsAreKnown
  <1>4. OpenIsUnclaimed /\ RereadsAreSeen /\ OnlyOverlapApprovesTwice
    BY <1>2 DEF OpenIsUnclaimed, Approved, RereadsAreSeen, OnlyOverlapApprovesTwice, Done
  <1>5. SessionsAreKnown /\ RevokedDeviceLosesSessions
    BY <1>2 DEF SessionsAreKnown, RevokedDeviceLosesSessions
  <1> QED
    BY <1>1, <1>3, <1>4, <1>5 DEF IInv

-----------------------------------------------------------------------------
(***************************************************************************)
(* Steps that write no approval and no row of a link.                      *)
(***************************************************************************)

\* The polls that go on have read what is still there; live sessions are known.
LEMMA AnswersKeep ==
  ASSUME IInv, TypeOK', UNCHANGED <<link, approval, claims, crossed>>,
         \A p \in Polls : \/ poll'[p].pc = "idle"
                          \/ /\ poll'[p].link \in Links
                             /\ link[poll'[p].link].status \in {"APPROVED", "CLAIMED"}
                             /\ poll'[p].read \in Approvals /\ Done(poll'[p].read)
                             /\ poll'[p].pc # "claim" => poll'[p].grant \in Approvals,
         \A g \in Approvals : session'[g].status = "LIVE" =>
             /\ session'[g].approval \in Approvals /\ Done(session'[g].approval)
             /\ DeviceOf(session'[g].approval) \notin activeDevices' => g \in bornRevoked'
  PROVE  IInv'
  <1>1. /\ \A a \in Approvals : (Done(a)' <=> Done(a)) /\ DeviceOf(a)' = DeviceOf(a)
        /\ \A l \in Links : Approved(l)' <=> Approved(l)
    BY DEF Done, DeviceOf, Approved
  <1>2. ApprovalsAreKnown' /\ LinksAreKnown' /\ OpenIsUnclaimed'
    BY DEF IInv, ApprovalsAreKnown, LinksAreKnown, OpenIsUnclaimed, Done, Approved
  <1>3. RereadsAreSeen' /\ OnlyOverlapApprovesTwice'
    BY DEF IInv, RereadsAreSeen, OnlyOverlapApprovesTwice, Done
  <1>4. PollsAreKnown'
    BY DEF PollsAreKnown, Done
  <1>5. SessionsAreKnown' /\ RevokedDeviceLosesSessions'
    BY DEF SessionsAreKnown, RevokedDeviceLosesSessions, SessionDevice, DeviceOf, Done
  <1> QED
    BY <1>2, <1>3, <1>4, <1>5 DEF IInv

\* The same, for the steps that leave the sessions and the devices alone.
LEMMA PollMoves ==
  ASSUME IInv, NEW p \in Polls, NEW new \in Poll, poll' = [poll EXCEPT ![p] = new],
         UNCHANGED <<link, approval, claims, crossed, expired, session, activeDevices, bornRevoked, crashes>>,
         received' \subseteq Approvals, lost' \subseteq Approvals,
         \/ new.pc = "idle"
         \/ /\ new.link \in Links
            /\ link[new.link].status \in {"APPROVED", "CLAIMED"}
            /\ new.read \in Approvals /\ Done(new.read)
            /\ new.pc # "claim" => new.grant \in Approvals
  PROVE  IInv'
  <1>1. \A q \in Polls : poll'[q] = IF q = p THEN new ELSE poll[q]
    BY DEF IInv, TypeOK
  <1>2. TypeOK'
    BY DEF IInv, TypeOK
  <1>3. \A q \in Polls : \/ poll'[q].pc = "idle"
                         \/ /\ poll'[q].link \in Links
                            /\ link[poll'[q].link].status \in {"APPROVED", "CLAIMED"}
                            /\ poll'[q].read \in Approvals /\ Done(poll'[q].read)
                            /\ poll'[q].pc # "claim" => poll'[q].grant \in Approvals
    BY <1>1 DEF IInv, PollsAreKnown
  <1>4. \A g \in Approvals : session'[g].status = "LIVE" =>
             /\ session'[g].approval \in Approvals /\ Done(session'[g].approval)
             /\ DeviceOf(session'[g].approval) \notin activeDevices' => g \in bornRevoked'
    BY DEF IInv, SessionsAreKnown, RevokedDeviceLosesSessions, SessionDevice
  <1> QED
    BY <1>2, <1>3, <1>4, AnswersKeep

LEMMA FindKeeps ==
  ASSUME IInv, NEW p \in Polls, NEW l \in Links, Find(p, l)
  PROVE  IInv'
  <1> DEFINE new == [pc |-> "claim", link |-> l, read |-> link[l].approval, grant |-> None]
  <1>1. link[l].status = "APPROVED" /\ link[l].approval \in Approvals /\ Done(link[l].approval)
    BY DEF Find, Approved, IInv, LinksAreKnown
  <1>2. /\ new \in Poll /\ new.pc = "claim" /\ new.link = l /\ new.read = link[l].approval
        /\ poll' = [poll EXCEPT ![p] = new]
    BY <1>1 DEF Find, Poll, PollSteps
  <1> HIDE DEF new
  <1>3. received' \subseteq Approvals /\ lost' \subseteq Approvals
    BY DEF Find, historyVars, IInv, TypeOK
  <1>4. UNCHANGED <<link, approval, claims, crossed, expired, session, activeDevices, bornRevoked, crashes>>
    BY DEF Find, historyVars
  <1> QED
    BY <1>1, <1>2, <1>3, <1>4, PollMoves

LEMMA StoreHashKeeps ==
  ASSUME IInv, NEW p \in Polls, StoreHash(p)
  PROVE  IInv'
  <1> DEFINE new == [poll[p] EXCEPT !.pc = "reply"]
  <1>1. poll[p] \in Poll /\ poll[p].pc = "store"
    BY DEF StoreHash, IInv, TypeOK
  <1>2. /\ new \in Poll /\ new.link = poll[p].link /\ new.read = poll[p].read
        /\ new.grant = poll[p].grant /\ poll' = [poll EXCEPT ![p] = new]
    BY <1>1 DEF StoreHash, AtPoll, Poll, PollSteps
  <1> HIDE DEF new
  <1>3. received' \subseteq Approvals /\ lost' \subseteq Approvals
    BY DEF StoreHash, historyVars, IInv, TypeOK
  <1>4. UNCHANGED <<link, approval, claims, crossed, expired, session, activeDevices, bornRevoked, crashes>>
    BY DEF StoreHash, historyVars
  <1> QED
    BY <1>1, <1>2, <1>3, <1>4, PollMoves DEF IInv, PollsAreKnown

LEMMA NoPollIsPoll == NoPoll \in Poll /\ NoPoll.pc = "idle" /\ NoPoll.grant = None
  BY DEF NoPoll, Poll, PollSteps

LEMMA ReplyKeeps ==
  ASSUME IInv, NEW p \in Polls, Reply(p)
  PROVE  IInv'
  <1>1. poll[p].grant \in Approvals
    BY DEF Reply, IInv, PollsAreKnown
  <1>2. received' \subseteq Approvals /\ lost' \subseteq Approvals
    BY <1>1 DEF Reply, IInv, TypeOK
  <1>3. /\ poll' = [poll EXCEPT ![p] = NoPoll]
        /\ UNCHANGED <<link, approval, claims, crossed, expired, session, activeDevices, bornRevoked, crashes>>
    BY DEF Reply
  <1> QED
    BY <1>2, <1>3, NoPollIsPoll, PollMoves

LEMMA CreateSessionKeeps ==
  ASSUME IInv, NEW p \in Polls, CreateSession(p)
  PROVE  IInv'
  <1> DEFINE new == [poll[p] EXCEPT !.pc = "store"]
             row == [status |-> "LIVE", approval |-> poll[p].read]
             g == poll[p].grant
  <1>1. /\ poll[p] \in Poll /\ g \in Approvals /\ poll[p].link \in Links
        /\ link[poll[p].link].status \in {"APPROVED", "CLAIMED"}
        /\ poll[p].read \in Approvals /\ Done(poll[p].read)
    BY DEF CreateSession, IInv, TypeOK, PollsAreKnown
  <1>2. /\ new \in Poll /\ new.pc = "store" /\ new.link = poll[p].link /\ new.read = poll[p].read
        /\ new.grant = g /\ poll' = [poll EXCEPT ![p] = new]
    BY <1>1 DEF CreateSession, AtPoll, Poll, PollSteps
  <1>3. /\ row \in Session /\ row.approval = poll[p].read /\ session' = [session EXCEPT ![g] = row]
    BY <1>1 DEF CreateSession, Session, SessionStatus
  <1>4. /\ bornRevoked' = IF DeviceOf(poll[p].read) \in activeDevices THEN bornRevoked
                          ELSE bornRevoked \cup {g}
        /\ UNCHANGED <<link, expired, activeDevices, approval, claims, received, lost, crossed, crashes>>
    BY DEF CreateSession
  <1> HIDE DEF new, row, g
  <1>5. /\ \A q \in Polls : poll'[q] = IF q = p THEN new ELSE poll[q]
        /\ \A h \in Approvals : session'[h] = IF h = g THEN row ELSE session[h]
    BY <1>1, <1>2, <1>3 DEF IInv, TypeOK
  <1>6. TypeOK'
    BY <1>1, <1>2, <1>3, <1>4 DEF IInv, TypeOK
  <1>7. \A q \in Polls : \/ poll'[q].pc = "idle"
                         \/ /\ poll'[q].link \in Links
                            /\ link[poll'[q].link].status \in {"APPROVED", "CLAIMED"}
                            /\ poll'[q].read \in Approvals /\ Done(poll'[q].read)
                            /\ poll'[q].pc # "claim" => poll'[q].grant \in Approvals
    BY <1>1, <1>2, <1>5 DEF IInv, PollsAreKnown
  <1>8. \A h \in Approvals : session'[h].status = "LIVE" =>
             /\ session'[h].approval \in Approvals /\ Done(session'[h].approval)
             /\ DeviceOf(session'[h].approval) \notin activeDevices' => h \in bornRevoked'
    BY <1>1, <1>3, <1>4, <1>5 DEF IInv, SessionsAreKnown, RevokedDeviceLosesSessions, SessionDevice
  <1> QED
    BY <1>4, <1>6, <1>7, <1>8, AnswersKeep

LEMMA RevokeDeviceKeeps ==
  ASSUME IInv, NEW d \in activeDevices, RevokeDevice(d)
  PROVE  IInv'
  <1>1. /\ activeDevices' = activeDevices \ {d}
        /\ UNCHANGED <<link, expired, approval, poll, claims, received, lost, crossed, bornRevoked, crashes>>
    BY DEF RevokeDevice, historyVars
  <1>2. ASSUME NEW g \in Approvals
        PROVE  /\ session'[g] \in Session
               /\ session'[g].status = "LIVE" => session'[g] = session[g] /\ SessionDevice(g) # d
    <2>1. /\ session[g] \in Session
          /\ session'[g] = IF session[g].status = "LIVE" /\ SessionDevice(g) = d
                           THEN [session[g] EXCEPT !.status = "REVOKED"] ELSE session[g]
      BY DEF RevokeDevice, IInv, TypeOK
    <2> QED
      BY <2>1 DEF Session, SessionStatus
  <1>3. TypeOK'
    BY <1>1, <1>2 DEF IInv, TypeOK, RevokeDevice
  <1>4. \A h \in Approvals : session'[h].status = "LIVE" =>
             /\ session'[h].approval \in Approvals /\ Done(session'[h].approval)
             /\ DeviceOf(session'[h].approval) \notin activeDevices' => h \in bornRevoked'
    BY <1>1, <1>2 DEF IInv, SessionsAreKnown, RevokedDeviceLosesSessions, SessionDevice
  <1>5. \A q \in Polls : \/ poll'[q].pc = "idle"
                         \/ /\ poll'[q].link \in Links
                            /\ link[poll'[q].link].status \in {"APPROVED", "CLAIMED"}
                            /\ poll'[q].read \in Approvals /\ Done(poll'[q].read)
                            /\ poll'[q].pc # "claim" => poll'[q].grant \in Approvals
    BY <1>1 DEF IInv, PollsAreKnown
  <1> QED
    BY <1>1, <1>3, <1>4, <1>5, AnswersKeep

LEMMA ExpireKeeps ==
  ASSUME IInv, NEW l \in Links, Expire(l)
  PROVE  IInv'
  <1>1. /\ expired' = expired \cup {l}
        /\ UNCHANGED <<link, activeDevices, approval, poll, session, claims, received, lost,
                       crossed, bornRevoked, crashes>>
    BY DEF Expire, historyVars
  <1>2. TypeOK'
    BY <1>1 DEF IInv, TypeOK
  <1>3. \A h \in Approvals : session'[h].status = "LIVE" =>
             /\ session'[h].approval \in Approvals /\ Done(session'[h].approval)
             /\ DeviceOf(session'[h].approval) \notin activeDevices' => h \in bornRevoked'
    BY <1>1 DEF IInv, SessionsAreKnown, RevokedDeviceLosesSessions, SessionDevice
  <1> QED
    BY <1>1, <1>2, <1>3, AnswersKeep DEF IInv, PollsAreKnown

-----------------------------------------------------------------------------
(***************************************************************************)
(* Steps of approve before it writes, and a crash.                         *)
(***************************************************************************)

\* What such a step makes of an approval: nothing is written, nothing written changes.
ApprovalsGoOn ==
    \A a \in Approvals :
        /\ Done(a) => approval'[a] = approval[a]
        /\ ~Done(a) => approval'[a].pc # "done"
        /\ approval'[a].pc \in {"register", "approve"} =>
              /\ approval'[a].userId \in Users
              /\ \/ approval[a].pc \in {"register", "approve"}
                 \/ \A b \in Approvals : LinkOf[b] = LinkOf[a] => ~Done(b)

LEMMA ApprovalsGoOnKeeps ==
  ASSUME IInv, TypeOK', ApprovalsGoOn,
         UNCHANGED <<link, session, claims, crossed, bornRevoked>>,
         activeDevices \subseteq activeDevices',
         poll' = poll \/ \A p \in Polls : poll'[p].pc = "idle"
  PROVE  IInv'
  <1>1. \A a \in Approvals : Done(a)' <=> Done(a)
    BY DEF ApprovalsGoOn, Done
  <1>2. ApprovalsAreKnown'
    BY DEF ApprovalsGoOn, IInv, ApprovalsAreKnown, Done
  <1>3. LinksAreKnown'
    BY <1>1 DEF IInv, LinksAreKnown, Done
  <1>4. OpenIsUnclaimed'
    BY <1>1 DEF IInv, OpenIsUnclaimed, Approved
  <1>5. PollsAreKnown'
    BY <1>1 DEF IInv, PollsAreKnown, Done
  <1>6. RereadsAreSeen'
    BY <1>1 DEF IInv, RereadsAreSeen, ApprovalsGoOn
  <1>7. OnlyOverlapApprovesTwice'
    BY <1>1 DEF IInv, OnlyOverlapApprovesTwice, Done
  <1>8. SessionsAreKnown'
    BY <1>1 DEF IInv, SessionsAreKnown, Done
  <1>9. RevokedDeviceLosesSessions'
    <2>1. \A g \in Approvals : session[g].status = "LIVE" => SessionDevice(g)' = SessionDevice(g)
      BY DEF IInv, SessionsAreKnown, SessionDevice, DeviceOf, ApprovalsGoOn
    <2> QED
      BY <2>1 DEF IInv, RevokedDeviceLosesSessions
  <1> QED
    BY <1>2, <1>3, <1>4, <1>5, <1>6, <1>7, <1>8, <1>9 DEF IInv

\* The next step of one approval.
LEMMA AtApprovalIs ==
  ASSUME IInv, NEW a \in Approvals, NEW pc \in {"approve", "failed"}, AtApproval(a, pc)
  PROVE  /\ approval' \in [Approvals -> Approval]
         /\ approval'[a].pc = pc /\ approval'[a].userId = approval[a].userId
         /\ \A b \in Approvals \ {a} : approval'[b] = approval[b]
  <1> DEFINE new == [approval[a] EXCEPT !.pc = pc]
  <1>1. approval[a] \in Approval /\ approval' = [approval EXCEPT ![a] = new]
    BY DEF IInv, TypeOK, AtApproval
  <1>2. new \in Approval /\ new.pc = pc /\ new.userId = approval[a].userId
    BY <1>1 DEF Approval, ApprovalSteps
  <1> HIDE DEF new
  <1> QED
    BY <1>1, <1>2 DEF IInv, TypeOK

LEMMA FindPendingKeeps ==
  ASSUME IInv, NEW a \in Approvals, NEW u \in Users, FindPending(a, u)
  PROVE  IInv'
  <1>1. /\ approval[a].pc = "idle"
        /\ UNCHANGED <<link, expired, activeDevices, poll, session, claims, received, lost,
                       crossed, bornRevoked, crashes>>
    BY DEF FindPending, historyVars
  <1>2. CASE AtApproval(a, "failed")
    <2>1. TypeOK' /\ ApprovalsGoOn
      BY <1>1, <1>2, AtApprovalIs DEF IInv, TypeOK, ApprovalsGoOn, ApprovalsAreKnown, Done
    <2> QED
      BY <1>1, <2>1, ApprovalsGoOnKeeps
  <1>3. CASE /\ Pending(LinkOf[a])
             /\ approval' = [approval EXCEPT ![a] = [pc |-> "register", userId |-> u]]
    <2>1. \A b \in Approvals : LinkOf[b] = LinkOf[a] => ~Done(b)
      BY <1>3, LinksAssumption DEF Pending, IInv, LinksAreKnown
    <2>2. [pc |-> "register", userId |-> u] \in Approval
      BY DEF Approval, ApprovalSteps
    <2>3. TypeOK'
      BY <1>1, <1>3, <2>2 DEF IInv, TypeOK
    <2>4. ApprovalsGoOn
      BY <1>1, <1>3, <2>1 DEF IInv, TypeOK, ApprovalsGoOn, ApprovalsAreKnown, Done
    <2> QED
      BY <1>1, <2>3, <2>4, ApprovalsGoOnKeeps
  <1> QED
    BY <1>2, <1>3 DEF FindPending

LEMMA RegisterKeeps ==
  ASSUME IInv, NEW a \in Approvals, Register(a)
  PROVE  IInv'
  <1>1. /\ approval[a].pc = "register" /\ approval[a].userId \in Users
        /\ UNCHANGED <<link, expired, poll, session, claims, received, lost,
                       crossed, bornRevoked, crashes>>
        /\ activeDevices' = activeDevices \/ activeDevices' = activeDevices \cup {DeviceOf(a)}
        /\ AtApproval(a, "approve") \/ AtApproval(a, "failed")
    BY DEF Register, historyVars, IInv, ApprovalsAreKnown
  <1>2. DeviceOf(a) \in Users \X Links
    BY <1>1, LinksAssumption DEF DeviceOf
  <1>3. TypeOK'
    BY <1>1, <1>2, AtApprovalIs DEF IInv, TypeOK
  <1>4. ApprovalsGoOn
    BY <1>1, AtApprovalIs DEF IInv, ApprovalsAreKnown, ApprovalsGoOn, Done
  <1> QED
    BY <1>1, <1>3, <1>4, ApprovalsGoOnKeeps

LEMMA CrashKeeps ==
  ASSUME IInv, Crash
  PROVE  IInv'
  <1>1. UNCHANGED <<link, expired, activeDevices, session, claims, received, crossed, bornRevoked>>
    BY DEF Crash
  <1>2. \A a \in Approvals :
           approval'[a] = IF approval[a].pc \in {"register", "approve"}
                          THEN [approval[a] EXCEPT !.pc = "failed"] ELSE approval[a]
    BY DEF Crash
  <1>3. \A a \in Approvals : /\ approval'[a] \in Approval
                             /\ approval'[a].pc \notin {"register", "approve"}
    BY <1>2 DEF IInv, TypeOK, Approval, ApprovalSteps
  <1>4. ApprovalsGoOn
    BY <1>2, <1>3 DEF ApprovalsGoOn, Done, IInv, TypeOK, Approval
  <1>5. /\ poll' \in [Polls -> Poll]
        /\ \A p \in Polls : poll'[p].pc = "idle"
    BY NoPollIsPoll DEF Crash
  <1>6. lost' \subseteq Approvals
    <2>1. \A p \in Polls : poll[p].grant \in Approvals \cup {None}
      BY DEF IInv, TypeOK, Poll
    <2> QED
      BY <2>1 DEF Crash, IInv, TypeOK
  <1>7. crashes' \in 0 .. MaxCrashes
    BY LinksAssumption DEF Crash, IInv, TypeOK
  <1>8. TypeOK'
    BY <1>1, <1>3, <1>5, <1>6, <1>7 DEF IInv, TypeOK, Crash
  <1> QED
    BY <1>1, <1>4, <1>5, <1>8, ApprovalsGoOnKeeps

-----------------------------------------------------------------------------
(***************************************************************************)
(* The steps that write a link.                                            *)
(***************************************************************************)
LEMMA RequestKeeps ==
  ASSUME IInv, NEW l \in Links, Request(l)
  PROVE  IInv'
  <1> DEFINE row == [link[l] EXCEPT !.status = "PENDING"]
  <1>1. /\ link[l].status = "NONE" /\ link[l] \in Link
        /\ UNCHANGED <<expired, activeDevices, approval, poll, session, claims, received, lost,
                       crossed, bornRevoked, crashes>>
        /\ link' = [link EXCEPT ![l] = row]
    BY DEF Request, historyVars, IInv, TypeOK
  <1>2. row \in Link /\ row.status = "PENDING"
    BY <1>1 DEF Link, LinkStatus
  <1> HIDE DEF row
  <1>3. link'[l] = row /\ \A k \in Links \ {l} : link'[k] = link[k]
    BY <1>1 DEF IInv, TypeOK
  <1>4. TypeOK'
    BY <1>1, <1>2 DEF IInv, TypeOK
  <1>5. \A a \in Approvals : Done(a)' <=> Done(a)
    BY <1>1 DEF Done
  <1>6. LinksAreKnown'
    <2>1. \A k \in Links : /\ link'[k].status \in {"NONE", "PENDING"} => link[k].status \in {"NONE", "PENDING"}
                           /\ link'[k].status \in {"APPROVED", "CLAIMED"} => link'[k] = link[k]
      BY <1>1, <1>2, <1>3
    <2>2. ASSUME NEW k \in Links
          PROVE  /\ link'[k].status \in {"NONE", "PENDING"} =>
                       \A a \in Approvals : LinkOf[a] = k => ~Done(a)
                 /\ link'[k].status \in {"APPROVED", "CLAIMED"} =>
                       /\ link'[k].approval \in Approvals
                       /\ LinkOf[link'[k].approval] = k
                       /\ Done(link'[k].approval)
      BY <2>1 DEF IInv, LinksAreKnown
    <2> QED
      BY <1>1, <2>2 DEF LinksAreKnown, Done
  <1>7. OpenIsUnclaimed'
    BY <1>1, <1>2, <1>3, <1>5 DEF IInv, OpenIsUnclaimed, Approved
  <1>8. PollsAreKnown'
    BY <1>1, <1>3, <1>5 DEF IInv, PollsAreKnown, Done
  <1>9. ApprovalsAreKnown' /\ RereadsAreSeen' /\ OnlyOverlapApprovesTwice' /\ SessionsAreKnown'
    BY <1>1 DEF IInv, ApprovalsAreKnown, RereadsAreSeen, OnlyOverlapApprovesTwice, SessionsAreKnown, Done
  <1>10. RevokedDeviceLosesSessions'
    BY <1>1 DEF IInv, RevokedDeviceLosesSessions, SessionDevice, DeviceOf
  <1> QED
    BY <1>4, <1>6, <1>7, <1>8, <1>9, <1>10 DEF IInv

\* A claim that finds its link APPROVED, and one that does not.
LEMMA ClaimIs ==
  ASSUME IInv, NEW p \in Polls, Claim(p)
  PROVE  /\ UNCHANGED <<expired, activeDevices, approval, session, received, lost, crossed,
                        bornRevoked, crashes>>
         /\ \/ /\ poll' = [poll EXCEPT ![p] = NoPoll]
               /\ UNCHANGED <<link, claims>>
            \/ \E l \in Links, g \in Approvals, row \in Link, new \in Poll :
                  /\ Approved(l) /\ g = link[l].approval /\ LinkOf[g] = l /\ Done(g)
                  /\ row.status = "CLAIMED" /\ row.approval = g
                  /\ link' = [link EXCEPT ![l] = row]
                  /\ claims' = [claims EXCEPT ![g] = claims[g] + 1]
                  /\ new.pc = "create" /\ new.link = l /\ new.read = poll[p].read /\ new.grant = g
                  /\ poll' = [poll EXCEPT ![p] = new]
                  /\ new.read \in Approvals /\ Done(new.read)
  <1>1. CASE ~Approved(poll[p].link) /\ poll' = [poll EXCEPT ![p] = NoPoll] /\ UNCHANGED <<link, claims>>
    BY <1>1 DEF Claim
  <1>2. CASE /\ Approved(poll[p].link)
             /\ link' = [link EXCEPT ![poll[p].link] = [@ EXCEPT !.status = "CLAIMED"]]
             /\ claims' = [claims EXCEPT ![link[poll[p].link].approval] = @ + 1]
             /\ poll' = [poll EXCEPT ![p] = [@ EXCEPT !.pc = "create", !.grant = link[poll[p].link].approval]]
    <2> DEFINE l == poll[p].link
               g == link[l].approval
               row == [link[l] EXCEPT !.status = "CLAIMED"]
               new == [poll[p] EXCEPT !.pc = "create", !.grant = g]
    <2>1. /\ l \in Links /\ poll[p].read \in Approvals /\ Done(poll[p].read) /\ poll[p] \in Poll
          /\ link[l] \in Link
      BY DEF Claim, IInv, PollsAreKnown, TypeOK
    <2>2. g \in Approvals /\ LinkOf[g] = l /\ Done(g) /\ Approved(l)
      BY <1>2, <2>1 DEF Approved, IInv, LinksAreKnown
    <2>3. /\ link' = [link EXCEPT ![l] = row] /\ poll' = [poll EXCEPT ![p] = new]
          /\ claims' = [claims EXCEPT ![g] = claims[g] + 1]
      BY <1>2
    <2> HIDE DEF l, g
    <2>4. /\ row \in Link /\ row.status = "CLAIMED" /\ row.approval = link[l].approval
          /\ new \in Poll /\ new.pc = "create" /\ new.link = poll[p].link
          /\ new.read = poll[p].read /\ new.grant = g
      BY <2>1, <2>2 DEF Link, LinkStatus, Poll, PollSteps
    <2> HIDE DEF row, new
    <2>5. g = link[l].approval /\ l = poll[p].link
      BY DEF g, l
    <2>6. /\ l \in Links /\ g \in Approvals /\ row \in Link /\ new \in Poll
          /\ Approved(l) /\ g = link[l].approval /\ LinkOf[g] = l /\ Done(g)
          /\ row.status = "CLAIMED" /\ row.approval = g
          /\ link' = [link EXCEPT ![l] = row]
          /\ claims' = [claims EXCEPT ![g] = claims[g] + 1]
          /\ new.pc = "create" /\ new.link = l /\ new.read = poll[p].read /\ new.grant = g
          /\ poll' = [poll EXCEPT ![p] = new]
          /\ new.read \in Approvals /\ Done(new.read)
      BY <2>1, <2>2, <2>3, <2>4, <2>5
    <2>7. UNCHANGED <<expired, activeDevices, approval, session, received, lost, crossed,
                      bornRevoked, crashes>>
      BY DEF Claim
    <2> QED
      BY <2>6, <2>7
  <1> QED
    BY <1>1, <1>2 DEF Claim

LEMMA ClaimKeeps ==
  ASSUME IInv, NEW p \in Polls, Claim(p)
  PROVE  IInv'
  <1>1. UNCHANGED <<expired, activeDevices, approval, session, received, lost, crossed,
                    bornRevoked, crashes>>
    BY ClaimIs
  <1>2. CASE poll' = [poll EXCEPT ![p] = NoPoll] /\ UNCHANGED <<link, claims>>
    <2>1. received' \subseteq Approvals /\ lost' \subseteq Approvals
      BY <1>1 DEF IInv, TypeOK
    <2> QED
      BY <1>1, <1>2, <2>1, NoPollIsPoll, PollMoves
  <1>3. ASSUME NEW l \in Links, NEW g \in Approvals, NEW row \in Link, NEW new \in Poll,
               Approved(l), g = link[l].approval, LinkOf[g] = l, Done(g),
               row.status = "CLAIMED", row.approval = g,
               link' = [link EXCEPT ![l] = row],
               claims' = [claims EXCEPT ![g] = claims[g] + 1],
               new.pc = "create", new.link = l, new.read = poll[p].read, new.grant = g,
               poll' = [poll EXCEPT ![p] = new],
               new.read \in Approvals, Done(new.read)
        PROVE  IInv'
    <2>1. /\ link'[l] = row /\ \A k \in Links \ {l} : link'[k] = link[k]
          /\ \A h \in Approvals : claims'[h] = IF h = g THEN claims[g] + 1 ELSE claims[h]
          /\ \A q \in Polls : poll'[q] = IF q = p THEN new ELSE poll[q]
      BY <1>3 DEF IInv, TypeOK
    <2>2. TypeOK'
      BY <1>1, <1>3 DEF IInv, TypeOK
    <2>3. \A a \in Approvals : Done(a)' <=> Done(a)
      BY <1>1 DEF Done
    <2>4. LinksAreKnown'
      <3>1. ASSUME NEW k \in Links
            PROVE  /\ link'[k].status \in {"NONE", "PENDING"} =>
                         \A a \in Approvals : LinkOf[a] = k => ~Done(a)
                   /\ link'[k].status \in {"APPROVED", "CLAIMED"} =>
                         /\ link'[k].approval \in Approvals
                         /\ LinkOf[link'[k].approval] = k
                         /\ Done(link'[k].approval)
        BY <1>3, <2>1 DEF IInv, LinksAreKnown
      <3> QED
        BY <1>1, <3>1 DEF LinksAreKnown, Done
    <2>5. OpenIsUnclaimed'
      <3>1. \A a \in Approvals : ~Done(a) => claims'[a] = 0
        BY <1>3, <2>1 DEF IInv, OpenIsUnclaimed
      <3>2. ASSUME NEW k \in Links, link'[k].status = "APPROVED"
            PROVE  claims'[link'[k].approval] = 0
        <4>1. k # l /\ link'[k] = link[k]
          BY <1>3, <2>1, <3>2
        <4>2. link[k].approval \in Approvals /\ link[k].approval # g
          BY <1>3, <3>2, <4>1 DEF IInv, LinksAreKnown
        <4> QED
          BY <2>1, <3>2, <4>1, <4>2 DEF IInv, OpenIsUnclaimed, Approved
      <3> QED
        BY <2>3, <3>1, <3>2 DEF OpenIsUnclaimed, Approved
    <2>6. PollsAreKnown'
      <3>1. \A k \in Links : link[k].status \in {"APPROVED", "CLAIMED"} =>
                                link'[k].status \in {"APPROVED", "CLAIMED"}
        BY <1>3, <2>1
      <3>2. link'[l].status \in {"APPROVED", "CLAIMED"}
        BY <1>3, <2>1
      <3>3. ASSUME NEW q \in Polls, poll'[q].pc # "idle"
            PROVE  /\ poll'[q].link \in Links
                   /\ link'[poll'[q].link].status \in {"APPROVED", "CLAIMED"}
                   /\ poll'[q].read \in Approvals /\ Done(poll'[q].read)
                   /\ poll'[q].pc # "claim" => poll'[q].grant \in Approvals
        BY <1>3, <2>1, <3>1, <3>2, <3>3 DEF IInv, PollsAreKnown
      <3> QED
        BY <1>1, <3>3 DEF PollsAreKnown, Done
    <2>7. ApprovalsAreKnown' /\ RereadsAreSeen' /\ OnlyOverlapApprovesTwice' /\ SessionsAreKnown'
      BY <1>1 DEF IInv, ApprovalsAreKnown, RereadsAreSeen, OnlyOverlapApprovesTwice, SessionsAreKnown, Done
    <2>8. RevokedDeviceLosesSessions'
      BY <1>1 DEF IInv, RevokedDeviceLosesSessions, SessionDevice, DeviceOf
    <2> QED
      BY <2>2, <2>4, <2>5, <2>6, <2>7, <2>8 DEF IInv
  <1> QED
    BY <1>2, <1>3, ClaimIs

\* What approve writes.
LEMMA ApproveIs ==
  ASSUME IInv, NEW a \in Approvals, Approve(a)
  PROVE  /\ approval[a].pc = "approve" /\ approval[a].userId \in Users
         /\ LinkOf[a] \in Links
         /\ link' \in [Links -> Link] /\ approval' \in [Approvals -> Approval]
         /\ link'[LinkOf[a]].status = "APPROVED" /\ link'[LinkOf[a]].approval = a
         /\ \A k \in Links \ {LinkOf[a]} : link'[k] = link[k]
         /\ approval'[a].pc = "done" /\ approval'[a].userId = approval[a].userId
         /\ \A b \in Approvals \ {a} : approval'[b] = approval[b]
         /\ \A b \in Approvals : crossed'[b] =
               IF b # a /\ LinkOf[b] = LinkOf[a] /\ approval[b].pc \in {"register", "approve"}
               THEN crossed[b] \cup {a} ELSE crossed[b]
         /\ crossed' \in [Approvals -> SUBSET Approvals]
         /\ UNCHANGED <<expired, activeDevices, poll, session, claims, received, lost,
                        bornRevoked, crashes>>
  <1> DEFINE row == [status |-> "APPROVED", approval |-> a]
             new == [approval[a] EXCEPT !.pc = "done"]
  <1>1. /\ approval[a].pc = "approve" /\ approval[a].userId \in Users
        /\ LinkOf[a] \in Links /\ approval[a] \in Approval
    BY LinksAssumption DEF Approve, IInv, TypeOK, ApprovalsAreKnown
  <1>2. /\ row \in Link /\ row.status = "APPROVED" /\ row.approval = a
        /\ new \in Approval /\ new.pc = "done" /\ new.userId = approval[a].userId
    BY <1>1 DEF Link, LinkStatus, Approval, ApprovalSteps
  <1>3. link' = [link EXCEPT ![LinkOf[a]] = row] /\ approval' = [approval EXCEPT ![a] = new]
    BY DEF Approve, AtApproval
  <1> HIDE DEF row, new
  <1>4. /\ link' \in [Links -> Link] /\ approval' \in [Approvals -> Approval]
        /\ link'[LinkOf[a]] = row /\ approval'[a] = new
        /\ \A k \in Links \ {LinkOf[a]} : link'[k] = link[k]
        /\ \A b \in Approvals \ {a} : approval'[b] = approval[b]
    BY <1>1, <1>2, <1>3 DEF IInv, TypeOK
  <1>5. crossed' \in [Approvals -> SUBSET Approvals]
    BY DEF Approve, IInv, TypeOK
  <1> QED
    BY <1>1, <1>2, <1>4, <1>5 DEF Approve

LEMMA ApproveKeeps ==
  ASSUME IInv, NEW a \in Approvals, Approve(a)
  PROVE  IInv'
  <1> DEFINE l == LinkOf[a]
  <1>1. /\ approval[a].pc = "approve" /\ approval[a].userId \in Users /\ l \in Links
        /\ link' \in [Links -> Link] /\ approval' \in [Approvals -> Approval]
        /\ link'[l].status = "APPROVED" /\ link'[l].approval = a
        /\ \A k \in Links \ {l} : link'[k] = link[k]
        /\ approval'[a].pc = "done" /\ approval'[a].userId = approval[a].userId
        /\ \A b \in Approvals \ {a} : approval'[b] = approval[b]
        /\ \A b \in Approvals : crossed'[b] =
              IF b # a /\ LinkOf[b] = l /\ approval[b].pc \in {"register", "approve"}
              THEN crossed[b] \cup {a} ELSE crossed[b]
        /\ crossed' \in [Approvals -> SUBSET Approvals]
        /\ UNCHANGED <<expired, activeDevices, poll, session, claims, received, lost,
                       bornRevoked, crashes>>
    BY ApproveIs
  <1>2. ~Done(a) /\ Done(a)' /\ \A b \in Approvals \ {a} : Done(b)' <=> Done(b)
    BY <1>1 DEF Done
  <1>3. TypeOK'
    BY <1>1 DEF IInv, TypeOK
  <1>4. ApprovalsAreKnown'
    BY <1>1 DEF IInv, ApprovalsAreKnown
  <1>5. LinksAreKnown'
    <2>1. ASSUME NEW k \in Links
          PROVE  /\ link'[k].status \in {"NONE", "PENDING"} =>
                       \A b \in Approvals : LinkOf[b] = k => approval'[b].pc # "done"
                 /\ link'[k].status \in {"APPROVED", "CLAIMED"} =>
                       /\ link'[k].approval \in Approvals
                       /\ LinkOf[link'[k].approval] = k
                       /\ approval'[link'[k].approval].pc = "done"
      <3>1. CASE k = l
        BY <1>1, <3>1
      <3>2. CASE k # l
        BY <1>1, <3>2 DEF IInv, LinksAreKnown, Done
      <3> QED
        BY <3>1, <3>2
    <2> QED
      BY <2>1 DEF LinksAreKnown, Done
  <1>6. OpenIsUnclaimed'
    <2>1. claims[a] = 0
      BY <1>2 DEF IInv, OpenIsUnclaimed
    <2>2. ASSUME NEW k \in Links, link'[k].status = "APPROVED"
          PROVE  claims[link'[k].approval] = 0
      BY <1>1, <2>1, <2>2 DEF IInv, OpenIsUnclaimed, Approved
    <2> QED
      BY <1>1, <1>2, <2>2 DEF IInv, OpenIsUnclaimed, Approved
  <1>7. PollsAreKnown'
    <2>1. \A k \in Links : link[k].status \in {"APPROVED", "CLAIMED"} =>
                              link'[k].status \in {"APPROVED", "CLAIMED"}
      BY <1>1
    <2>2. \A b \in Approvals : Done(b) => approval'[b].pc = "done"
      BY <1>2 DEF Done
    <2> QED
      BY <1>1, <2>1, <2>2 DEF IInv, PollsAreKnown, Done
  <1>8. RereadsAreSeen'
    <2> SUFFICES ASSUME NEW b \in Approvals, NEW c \in Approvals, b # c, LinkOf[b] = LinkOf[c],
                        Done(b)', approval'[c].pc \in {"register", "approve"}
                 PROVE  b \in crossed'[c]
      BY DEF RereadsAreSeen
    <2>1. c # a /\ approval[c].pc \in {"register", "approve"}
      BY <1>1
    <2>2. CASE b = a
      BY <1>1, <2>1, <2>2
    <2>3. CASE b # a
      BY <1>1, <1>2, <2>1, <2>3 DEF IInv, RereadsAreSeen
    <2> QED
      BY <2>2, <2>3
  <1>9. OnlyOverlapApprovesTwice'
    <2> SUFFICES ASSUME NEW b \in Approvals, NEW c \in Approvals, b # c, LinkOf[b] = LinkOf[c],
                        Done(b)', Done(c)'
                 PROVE  b \in crossed'[c] \/ c \in crossed'[b]
      BY DEF OnlyOverlapApprovesTwice, Done
    <2>1. \A d \in Approvals : crossed[d] \subseteq crossed'[d]
      BY <1>1
    <2>2. CASE b = a
      BY <1>1, <1>2, <2>1, <2>2 DEF IInv, RereadsAreSeen
    <2>3. CASE c = a
      BY <1>1, <1>2, <2>1, <2>3 DEF IInv, RereadsAreSeen
    <2>4. CASE b # a /\ c # a
      BY <1>2, <2>1, <2>4 DEF IInv, OnlyOverlapApprovesTwice, Done
    <2> QED
      BY <2>2, <2>3, <2>4
  <1>10. SessionsAreKnown'
    BY <1>1, <1>2 DEF IInv, SessionsAreKnown, Done
  <1>11. RevokedDeviceLosesSessions'
    <2>1. \A b \in Approvals : DeviceOf(b)' = DeviceOf(b)
      BY <1>1 DEF DeviceOf
    <2>2. \A g \in Approvals : session[g].status = "LIVE" => SessionDevice(g)' = SessionDevice(g)
      BY <1>1, <2>1 DEF IInv, SessionsAreKnown, SessionDevice, DeviceOf
    <2> QED
      BY <1>1, <2>2 DEF IInv, RevokedDeviceLosesSessions
  <1> QED
    BY <1>3, <1>4, <1>5, <1>6, <1>7, <1>8, <1>9, <1>10, <1>11 DEF IInv

-----------------------------------------------------------------------------
LEMMA StepKeeps == IInv /\ [Next]_vars => IInv'
  <1> SUFFICES ASSUME IInv, [Next]_vars PROVE IInv'
    OBVIOUS
  <1>1. ASSUME NEW l \in Links, Request(l) \/ Expire(l)
        PROVE  IInv'
    BY <1>1, RequestKeeps, ExpireKeeps
  <1>2. ASSUME NEW a \in Approvals, (\E u \in Users : FindPending(a, u)) \/ Register(a) \/ Approve(a)
        PROVE  IInv'
    BY <1>2, FindPendingKeeps, RegisterKeeps, ApproveKeeps
  <1>3. ASSUME NEW p \in Polls, (\E l \in Links : Find(p, l)) \/ PollStep(p)
        PROVE  IInv'
    BY <1>3, FindKeeps, ClaimKeeps, CreateSessionKeeps, StoreHashKeeps, ReplyKeeps DEF PollStep
  <1>4. ASSUME NEW d \in activeDevices, RevokeDevice(d)
        PROVE  IInv'
    BY <1>4, RevokeDeviceKeeps
  <1>5. CASE Crash
    BY <1>5, CrashKeeps
  <1>6. CASE UNCHANGED vars
    <2>1. UNCHANGED <<link, expired, activeDevices, approval, poll, session,
                      claims, received, lost, crossed, bornRevoked, crashes>>
      BY <1>6 DEF vars
    <2>2. TypeOK'
      BY <2>1 DEF IInv, TypeOK
    <2>3. \A h \in Approvals : session'[h].status = "LIVE" =>
               /\ session'[h].approval \in Approvals /\ Done(session'[h].approval)
               /\ DeviceOf(session'[h].approval) \notin activeDevices' => h \in bornRevoked'
      BY <2>1 DEF IInv, SessionsAreKnown, RevokedDeviceLosesSessions, SessionDevice
    <2> QED
      BY <2>1, <2>2, <2>3, AnswersKeep DEF IInv, PollsAreKnown
  <1> QED
    BY <1>1, <1>2, <1>3, <1>4, <1>5, <1>6 DEF Next

LEMMA InductiveInvariant == Spec => []IInv
  BY Initially, StepKeeps, PTL DEF Spec

-----------------------------------------------------------------------------
\* Every state of the links, of the calls that approve them and of the polls is type-correct.
THEOREM TypeCorrect == Spec => []TypeOK
<1>1. IInv => TypeOK
  BY DEF IInv
<1> QED
  BY InductiveInvariant, <1>1, PTL

\* ApproveDeviceLinkUseCase, whose update does not look at the status again: two approvals of
\* one link were written only when one had read the link before the other was written.
THEOREM LinksAreApprovedTwiceOnlyByOverlap == Spec => []OnlyOverlapApprovesTwice
<1>1. IInv => OnlyOverlapApprovesTwice
  BY DEF IInv
<1> QED
  BY InductiveInvariant, <1>1, PTL

\* RevokeDeviceUseCase: a session of a revoked device that is live was created after the
\* revocation, by a claim that does not look at the device.
THEOREM SessionsEndWithTheirDevice == Spec => []RevokedDeviceLosesSessions
<1>1. IInv => RevokedDeviceLosesSessions
  BY DEF IInv
<1> QED
  BY InductiveInvariant, <1>1, PTL

-----------------------------------------------------------------------------
(***************************************************************************)
(* DeviceLinks implements LinkHandshake.                                   *)
(***************************************************************************)

\* The grant of one approval, as the refinement sees it.
GrantOf(a) ==
    IF ~Done(a) THEN "none"
    ELSE IF claims[a] > 0 THEN "taken"
    ELSE IF Approved(LinkOf[a]) /\ link[LinkOf[a]].approval = a THEN "open" ELSE "replaced"

LEMMA GrantIs == Grant = [a \in Approvals |-> GrantOf(a)]
  BY DEF Grant, GrantOf, Done

\* Two states with the same grants and claims are one state of the handshake.
LEMMA SameGrants ==
  ASSUME claims' = claims, \A a \in Approvals : GrantOf(a)' = GrantOf(a)
  PROVE  UNCHANGED Handshake!vars
  <1>1. Grant = [a \in Approvals |-> GrantOf(a)] /\ Grant' = [a \in Approvals |-> GrantOf(a)']
    BY DEF Grant, GrantOf, Done
  <1>2. Grant' = Grant
    BY <1>1
  <1> QED
    BY <1>2 DEF Handshake!vars

LEMMA HandshakeBegins == Init => Handshake!Init
  <1> SUFFICES ASSUME Init PROVE Handshake!Init
    OBVIOUS
  <1>1. \A a \in Approvals : approval[a].pc # "done"
    BY DEF Init
  <1>2. Grant = [a \in Approvals |-> "none"]
    BY <1>1 DEF Grant
  <1> QED
    BY <1>2 DEF Init, Handshake!Init

\* An approval that is written opens its grant, and closes the one that was open.
LEMMA ApproveOpens ==
  ASSUME IInv, NEW a \in Approvals, Approve(a)
  PROVE  Handshake!Open(a)
  <1> DEFINE l == LinkOf[a]
  <1>1. /\ approval[a].pc = "approve" /\ l \in Links
        /\ link'[l].status = "APPROVED" /\ link'[l].approval = a
        /\ \A k \in Links \ {l} : link'[k] = link[k]
        /\ approval'[a].pc = "done"
        /\ \A b \in Approvals \ {a} : approval'[b] = approval[b]
        /\ claims' = claims /\ claims[a] = 0 /\ claims \in [Approvals -> Nat]
    BY ApproveIs DEF IInv, OpenIsUnclaimed, Done, TypeOK
  <1>2. GrantOf(a) = "none" /\ GrantOf(a)' = "open"
    BY <1>1 DEF GrantOf, Done, Approved
  <1>3. ASSUME NEW b \in Approvals \ {a}
        PROVE  GrantOf(b)' = IF LinkOf[b] = l /\ GrantOf(b) = "open" THEN "replaced" ELSE GrantOf(b)
    <2>1. LinkOf[b] \in Links /\ (Done(b)' <=> Done(b)) /\ claims'[b] = claims[b]
      BY <1>1, LinksAssumption DEF Done
    <2>2. CASE LinkOf[b] = l
      <3>1. link'[LinkOf[b]].approval # b
        BY <1>1, <2>2
      <3> QED
        BY <2>1, <2>2, <3>1 DEF GrantOf
    <2>3. CASE LinkOf[b] # l
      <3>1. link'[LinkOf[b]] = link[LinkOf[b]]
        BY <1>1, <2>1, <2>3
      <3> QED
        BY <2>1, <2>3, <3>1 DEF GrantOf, Approved
    <2> QED
      BY <2>2, <2>3
  <1>4. Grant = [b \in Approvals |-> GrantOf(b)] /\ Grant' = [b \in Approvals |-> GrantOf(b)']
    BY DEF Grant, GrantOf, Done
  <1>5. Grant' = [b \in Approvals |->
          IF b = a THEN "open"
          ELSE IF LinkOf[b] = LinkOf[a] /\ Grant[b] = "open" THEN "replaced" ELSE Grant[b]]
    BY <1>2, <1>3, <1>4
  <1>6. Grant[a] = "none"
    BY <1>2, <1>4
  <1> QED
    BY <1>1, <1>5, <1>6 DEF Handshake!Open

\* A claim takes the grant that is open, or changes nothing.
LEMMA ClaimTakes ==
  ASSUME IInv, NEW p \in Polls, Claim(p)
  PROVE  \/ \E a \in Approvals : Handshake!Take(a)
         \/ UNCHANGED Handshake!vars
  <1>1. UNCHANGED approval
    BY ClaimIs
  <1>2. CASE UNCHANGED <<link, claims>>
    BY <1>1, <1>2, SameGrants DEF GrantOf, Done, Approved
  <1>3. ASSUME NEW l \in Links, NEW g \in Approvals, NEW row \in Link,
               Approved(l), g = link[l].approval, LinkOf[g] = l, Done(g),
               row.status = "CLAIMED", row.approval = g,
               link' = [link EXCEPT ![l] = row],
               claims' = [claims EXCEPT ![g] = claims[g] + 1]
        PROVE  Handshake!Take(g)
    <2>1. /\ link'[l] = row /\ \A k \in Links \ {l} : link'[k] = link[k]
          /\ \A h \in Approvals : claims'[h] = IF h = g THEN claims[g] + 1 ELSE claims[h]
          /\ claims[g] = 0
      BY <1>3 DEF IInv, TypeOK, OpenIsUnclaimed
    <2>2. GrantOf(g) = "open" /\ GrantOf(g)' = "taken"
      <3>1. claims'[g] = 1
        BY <2>1
      <3> QED
        BY <1>1, <1>3, <2>1, <3>1 DEF GrantOf, Done, Approved
    <2>3. ASSUME NEW b \in Approvals \ {g}
          PROVE  GrantOf(b)' = GrantOf(b)
      <3>1. LinkOf[b] \in Links /\ (Done(b)' <=> Done(b)) /\ claims'[b] = claims[b]
        BY <1>1, <2>1, LinksAssumption DEF Done
      <3>2. CASE LinkOf[b] = l
        <4>1. link[LinkOf[b]].approval # b /\ link'[LinkOf[b]].approval # b
          BY <1>3, <2>1, <3>2
        <4> QED
          BY <3>1, <4>1 DEF GrantOf
      <3>3. CASE LinkOf[b] # l
        <4>1. link'[LinkOf[b]] = link[LinkOf[b]]
          BY <2>1, <3>1, <3>3
        <4> QED
          BY <3>1, <4>1 DEF GrantOf, Approved
      <3> QED
        BY <3>2, <3>3
    <2>4. Grant = [b \in Approvals |-> GrantOf(b)] /\ Grant' = [b \in Approvals |-> GrantOf(b)']
      BY DEF Grant, GrantOf, Done
    <2>5. Grant' = [Grant EXCEPT ![g] = "taken"] /\ Grant[g] = "open"
      BY <2>2, <2>3, <2>4
    <2> QED
      BY <1>3, <2>5 DEF Handshake!Take
  <1> QED
    BY <1>2, <1>3, ClaimIs

\* Every other step leaves the grants alone.
LEMMA OthersStutter ==
  ASSUME IInv, [Next]_vars,
         \A a \in Approvals : ~Approve(a),
         \A p \in Polls : ~Claim(p)
  PROVE  UNCHANGED Handshake!vars
  <1>1. ASSUME UNCHANGED <<link, approval, claims>>
        PROVE  UNCHANGED Handshake!vars
    BY <1>1, SameGrants DEF GrantOf, Done, Approved
  <1>2. ASSUME UNCHANGED <<link, claims>>, \A a \in Approvals : Done(a)' <=> Done(a)
        PROVE  UNCHANGED Handshake!vars
    BY <1>2, SameGrants DEF GrantOf, Approved
  <1>3. ASSUME NEW l \in Links, Request(l)
        PROVE  UNCHANGED Handshake!vars
    <2>1. /\ link[l].status = "NONE" /\ link[l] \in Link
          /\ link' = [link EXCEPT ![l] = [link[l] EXCEPT !.status = "PENDING"]]
          /\ UNCHANGED <<approval, claims>>
      BY <1>3 DEF Request, historyVars, IInv, TypeOK
    <2>2. /\ link'[l].status = "PENDING"
          /\ \A k \in Links \ {l} : link'[k] = link[k]
      BY <2>1 DEF IInv, TypeOK, Link
    <2>3. ASSUME NEW a \in Approvals
          PROVE  GrantOf(a)' = GrantOf(a)
      <3>1. LinkOf[a] \in Links
        BY LinksAssumption
      <3>2. CASE LinkOf[a] = l
        BY <2>1, <2>2, <3>2 DEF GrantOf, Done, Approved
      <3>3. CASE LinkOf[a] # l
        BY <2>1, <2>2, <3>1, <3>3 DEF GrantOf, Done, Approved
      <3> QED
        BY <3>2, <3>3
    <2> QED
      BY <2>1, <2>3, SameGrants
  <1>4. ASSUME NEW l \in Links, Expire(l)
        PROVE  UNCHANGED Handshake!vars
    BY <1>1, <1>4 DEF Expire, historyVars
  <1>5. ASSUME NEW a \in Approvals, NEW u \in Users, FindPending(a, u)
        PROVE  UNCHANGED Handshake!vars
    <2>1. \A b \in Approvals : Done(b)' <=> Done(b)
      BY <1>5, AtApprovalIs DEF FindPending, Done, IInv, TypeOK
    <2> QED
      BY <1>2, <1>5, <2>1 DEF FindPending, historyVars
  <1>6. ASSUME NEW a \in Approvals, Register(a)
        PROVE  UNCHANGED Handshake!vars
    <2>1. \A b \in Approvals : Done(b)' <=> Done(b)
      BY <1>6, AtApprovalIs DEF Register, Done
    <2> QED
      BY <1>2, <1>6, <2>1 DEF Register, historyVars
  <1>7. ASSUME NEW p \in Polls, (\E l \in Links : Find(p, l)) \/ CreateSession(p) \/ StoreHash(p) \/ Reply(p)
        PROVE  UNCHANGED Handshake!vars
    BY <1>1, <1>7 DEF Find, CreateSession, StoreHash, Reply, historyVars
  <1>8. ASSUME NEW d \in activeDevices, RevokeDevice(d)
        PROVE  UNCHANGED Handshake!vars
    BY <1>1, <1>8 DEF RevokeDevice, historyVars
  <1>9. ASSUME Crash
        PROVE  UNCHANGED Handshake!vars
    <2>1. \A b \in Approvals :
             approval'[b] = IF approval[b].pc \in {"register", "approve"}
                            THEN [approval[b] EXCEPT !.pc = "failed"] ELSE approval[b]
      BY <1>9 DEF Crash
    <2>2. \A b \in Approvals : Done(b)' <=> Done(b)
      BY <2>1 DEF Done, IInv, TypeOK, Approval
    <2> QED
      BY <1>2, <1>9, <2>2 DEF Crash
  <1>10. UNCHANGED vars => UNCHANGED Handshake!vars
    BY <1>1 DEF vars
  <1> QED
    BY <1>3, <1>4, <1>5, <1>6, <1>7, <1>8, <1>9, <1>10 DEF Next, PollStep

\* ClaimDeviceLinkUseCase, the conditional updateMany: DeviceLinks implements LinkHandshake,
\* so however approvals and polls interleave a grant is taken at most once, and never after
\* it was replaced.
THEOREM GrantsAreTakenOnce == Spec => GrantIsTakenOnce
<1>1. ASSUME IInv, [Next]_vars
      PROVE  [Handshake!Next]_(Handshake!vars)
  <2>1. ASSUME NEW a \in Approvals, Approve(a)
        PROVE  Handshake!Next
    BY <1>1, <2>1, ApproveOpens DEF Handshake!Next
  <2>2. ASSUME NEW p \in Polls, Claim(p)
        PROVE  Handshake!Next \/ UNCHANGED Handshake!vars
    BY <1>1, <2>2, ClaimTakes DEF Handshake!Next
  <2> QED
    BY <1>1, <2>1, <2>2, OthersStutter
<1>2. IInv /\ [Next]_vars => [Handshake!Next]_(Handshake!vars)
  BY <1>1
<1> QED
  BY InductiveInvariant, HandshakeBegins, <1>2, PTL DEF Spec, GrantIsTakenOnce, Handshake!Spec

-----------------------------------------------------------------------------
(***************************************************************************)
(* What becomes of a claimed grant.                                        *)
(***************************************************************************)
Serving(g) == {p \in Polls : poll[p].grant = g}

Answered(g) == g \in received \cup lost

AnswerFits(g) ==
    /\ claims[g] = 0 => Serving(g) = {} /\ ~Answered(g)
    /\ claims[g] > 0 => IF Answered(g) THEN Serving(g) = {} ELSE \E p \in Serving(g) : Serving(g) = {p}
    /\ g \notin received \cap lost

\* A poll has a grant only from its claim on.
AnswersIInv ==
    /\ \A p \in Polls : poll[p].pc \in {"idle", "claim"} => poll[p].grant = None
    /\ \A g \in Approvals : AnswerFits(g)

\* A step that leaves the grants the polls have in hand.
LEMMA SameGrantsInHand ==
  ASSUME AnswersIInv, UNCHANGED <<claims, received, lost>>,
         \A p \in Polls : /\ poll'[p].grant = poll[p].grant
                          /\ poll'[p].pc \in {"idle", "claim"} => poll'[p].grant = None
  PROVE  AnswersIInv'
  <1>1. \A g \in Approvals : Serving(g)' = Serving(g) /\ (Answered(g)' <=> Answered(g))
    BY DEF Serving, Answered
  <1>2. ASSUME NEW g \in Approvals
        PROVE  AnswerFits(g)'
    <2>1. AnswerFits(g)
      BY DEF AnswersIInv
    <2> QED
      BY <1>1, <2>1 DEF AnswerFits
  <1> QED
    BY <1>2 DEF AnswersIInv

LEMMA FindKeepsAnswers ==
  ASSUME IInv, AnswersIInv, NEW p \in Polls, NEW l \in Links, Find(p, l)
  PROVE  AnswersIInv'
  <1>1. /\ poll[p].pc = "idle" /\ UNCHANGED <<claims, received, lost>>
        /\ poll' = [poll EXCEPT ![p] = [pc |-> "claim", link |-> l,
                                        read |-> link[l].approval, grant |-> None]]
    BY DEF Find, historyVars
  <1>2. poll[p].grant = None
    BY <1>1 DEF AnswersIInv
  <1>3. poll'[p].grant = None /\ \A q \in Polls \ {p} : poll'[q] = poll[q]
    BY <1>1 DEF IInv, TypeOK
  <1> QED
    BY <1>1, <1>2, <1>3, SameGrantsInHand DEF AnswersIInv

\* CreateAuthSessionUseCase: the poll keeps its grant.
LEMMA SessionKeepsAnswers ==
  ASSUME IInv, AnswersIInv, NEW p \in Polls, CreateSession(p) \/ StoreHash(p)
  PROVE  AnswersIInv'
  <1>1. PICK pc \in {"store", "reply"} : poll' = [poll EXCEPT ![p] = [poll[p] EXCEPT !.pc = pc]]
    BY DEF CreateSession, StoreHash, AtPoll
  <1>2. UNCHANGED <<claims, received, lost>>
    BY DEF CreateSession, StoreHash, historyVars
  <1>3. poll[p] \in Poll
    BY DEF IInv, TypeOK
  <1>4. [poll[p] EXCEPT !.pc = pc].grant = poll[p].grant /\ [poll[p] EXCEPT !.pc = pc].pc = pc
    BY <1>3 DEF Poll
  <1>5. /\ poll'[p].grant = poll[p].grant /\ poll'[p].pc = pc
        /\ \A q \in Polls \ {p} : poll'[q] = poll[q]
    BY <1>1, <1>4 DEF IInv, TypeOK
  <1> QED
    BY <1>2, <1>5, SameGrantsInHand DEF AnswersIInv

\* updateMany where id and status APPROVED: the poll that claims is the only one that has
\* the grant, for an open grant was never claimed.
LEMMA ClaimKeepsAnswers ==
  ASSUME IInv, AnswersIInv, NEW p \in Polls, Claim(p)
  PROVE  AnswersIInv'
  <1>1. poll[p].pc = "claim" /\ UNCHANGED <<received, lost>> /\ poll[p].grant = None
    BY DEF Claim, AnswersIInv
  <1>2. CASE poll' = [poll EXCEPT ![p] = NoPoll] /\ UNCHANGED <<link, claims>>
    <2>1. poll'[p] = NoPoll /\ \A q \in Polls \ {p} : poll'[q] = poll[q]
      BY <1>2 DEF IInv, TypeOK
    <2> QED
      BY <1>1, <1>2, <2>1, NoPollIsPoll, SameGrantsInHand DEF AnswersIInv
  <1>3. ASSUME NEW g \in Approvals, NEW new \in Poll, claims[g] = 0,
               claims' = [claims EXCEPT ![g] = claims[g] + 1],
               new.pc = "create", new.grant = g, poll' = [poll EXCEPT ![p] = new]
        PROVE  AnswersIInv'
    <2>1. poll'[p] = new /\ \A q \in Polls \ {p} : poll'[q] = poll[q]
      BY <1>3 DEF IInv, TypeOK
    <2>2. claims'[g] = 1 /\ \A h \in Approvals \ {g} : claims'[h] = claims[h]
      BY <1>3 DEF IInv, TypeOK
    <2>3. Serving(g) = {} /\ ~Answered(g) /\ g \notin received \cap lost
      BY <1>3 DEF AnswersIInv, AnswerFits
    <2>4. \A h \in Approvals : Answered(h)' <=> Answered(h)
      BY <1>1 DEF Answered
    <2>5. Serving(g)' = {p}
      BY <1>3, <2>1, <2>3 DEF Serving
    <2>6. g \in Approvals /\ None \notin Approvals
      BY <1>3, LinksAssumption
    <2>7. \A h \in Approvals \ {g} : Serving(h)' = Serving(h)
      BY <1>1, <1>3, <2>1, <2>6 DEF Serving
    <2>8. ASSUME NEW h \in Approvals
          PROVE  AnswerFits(h)'
      <3>1. CASE h = g
        BY <1>1, <2>2, <2>3, <2>4, <2>5, <3>1 DEF AnswerFits
      <3>2. CASE h # g
        <4>1. AnswerFits(h)
          BY DEF AnswersIInv
        <4>2. Serving(h)' = Serving(h) /\ claims'[h] = claims[h] /\ (Answered(h)' <=> Answered(h))
          BY <2>2, <2>4, <2>7, <3>2
        <4> QED
          BY <1>1, <4>1, <4>2 DEF AnswerFits
      <3> QED
        BY <3>1, <3>2
    <2>9. \A q \in Polls : poll'[q].pc \in {"idle", "claim"} => poll'[q].grant = None
      BY <1>3, <2>1 DEF AnswersIInv
    <2> QED
      BY <2>8, <2>9 DEF AnswersIInv
  <1>4. \/ poll' = [poll EXCEPT ![p] = NoPoll] /\ UNCHANGED <<link, claims>>
        \/ \E g \in Approvals, new \in Poll :
              /\ claims[g] = 0 /\ claims' = [claims EXCEPT ![g] = claims[g] + 1]
              /\ new.pc = "create" /\ new.grant = g /\ poll' = [poll EXCEPT ![p] = new]
    BY ClaimIs DEF IInv, OpenIsUnclaimed
  <1> QED
    BY <1>2, <1>3, <1>4

\* The poll answers, and has the grant in hand no more.
LEMMA ReplyKeepsAnswers ==
  ASSUME IInv, AnswersIInv, NEW p \in Polls, Reply(p)
  PROVE  AnswersIInv'
  <1>1. PICK g \in Approvals : g = poll[p].grant /\ g # None
    BY LinksAssumption DEF Reply, IInv, PollsAreKnown
  <1>2. /\ poll' = [poll EXCEPT ![p] = NoPoll] /\ UNCHANGED claims
        /\ \/ received' = received \cup {g} /\ lost' = lost
           \/ received' = received /\ lost' = lost \cup {g}
    BY <1>1 DEF Reply
  <1>3. p \in Serving(g)
    BY <1>1 DEF Serving
  <1>4. claims[g] > 0 /\ ~Answered(g) /\ Serving(g) = {p}
    <2>1. AnswerFits(g) /\ claims[g] \in Nat
      BY <1>1 DEF AnswersIInv, IInv, TypeOK
    <2> QED
      BY <1>3, <2>1 DEF AnswerFits
  <1>5. poll'[p] = NoPoll /\ \A q \in Polls \ {p} : poll'[q] = poll[q]
    BY <1>2 DEF IInv, TypeOK
  <1>6. Serving(g)' = {} /\ Answered(g)' /\ g \notin received' \cap lost'
    BY <1>1, <1>2, <1>4, <1>5, NoPollIsPoll DEF Serving, Answered
  <1>7. ASSUME NEW h \in Approvals, h # g
        PROVE  /\ Serving(h)' = Serving(h) /\ (Answered(h)' <=> Answered(h))
               /\ h \in received' \cap lost' <=> h \in received \cap lost
    <2>1. poll[p].grant # h /\ poll'[p].grant # h
      BY <1>1, <1>5, <1>7, NoPollIsPoll, LinksAssumption
    <2> QED
      BY <1>2, <1>5, <1>7, <2>1 DEF Serving, Answered
  <1>8. ASSUME NEW h \in Approvals
        PROVE  AnswerFits(h)'
    <2>1. CASE h = g
      BY <1>2, <1>4, <1>6, <2>1 DEF AnswerFits
    <2>2. CASE h # g
      <3>1. AnswerFits(h)
        BY DEF AnswersIInv
      <3> QED
        BY <1>2, <1>7, <2>2, <3>1 DEF AnswerFits
    <2> QED
      BY <2>1, <2>2
  <1>9. \A q \in Polls : poll'[q].pc \in {"idle", "claim"} => poll'[q].grant = None
    BY <1>5, NoPollIsPoll DEF AnswersIInv
  <1> QED
    BY <1>8, <1>9 DEF AnswersIInv

\* The process stops: what the polls had in hand is lost.
LEMMA CrashKeepsAnswers ==
  ASSUME IInv, AnswersIInv, Crash
  PROVE  AnswersIInv'
  <1>1. /\ UNCHANGED <<claims, received>> /\ poll' = [p \in Polls |-> NoPoll]
        /\ lost' = lost \cup {poll[p].grant : p \in {q \in Polls : poll[q].grant # None}}
    BY DEF Crash
  <1>2. \A p \in Polls : poll'[p] = NoPoll
    BY <1>1
  <1>3. ASSUME NEW g \in Approvals
        PROVE  AnswerFits(g)'
    <2>1. AnswerFits(g) /\ claims[g] \in Nat /\ g # None
      BY LinksAssumption DEF AnswersIInv, IInv, TypeOK
    <2>2. Serving(g)' = {}
      BY <1>2, <2>1, NoPollIsPoll DEF Serving
    <2>3. g \in lost' <=> g \in lost \/ Serving(g) # {}
      BY <1>1, <2>1 DEF Serving
    <2>4. CASE claims[g] = 0
      BY <1>1, <2>1, <2>2, <2>3, <2>4 DEF AnswerFits, Answered
    <2>5. CASE claims[g] > 0
      BY <1>1, <2>1, <2>2, <2>3, <2>5 DEF AnswerFits, Answered
    <2> QED
      BY <2>1, <2>4, <2>5
  <1>4. \A q \in Polls : poll'[q].grant = None
    BY <1>2, NoPollIsPoll
  <1> QED
    BY <1>3, <1>4 DEF AnswersIInv

LEMMA AnswersInitially == Init => AnswersIInv
  <1> SUFFICES ASSUME Init
               PROVE  AnswersIInv
    OBVIOUS
  <1>1. \A p \in Polls : poll[p].grant = None
    BY NoPollIsPoll DEF Init
  <1>2. ASSUME NEW g \in Approvals
        PROVE  AnswerFits(g)
    <2>1. g # None /\ claims[g] = 0 /\ ~Answered(g) /\ g \notin received \cap lost
      BY LinksAssumption DEF Init, Answered
    <2>2. Serving(g) = {}
      BY <1>1, <2>1 DEF Serving
    <2> QED
      BY <2>1, <2>2 DEF AnswerFits
  <1> QED
    BY <1>1, <1>2 DEF AnswersIInv

LEMMA StepKeepsAnswers == IInv /\ AnswersIInv /\ [Next]_vars => AnswersIInv'
  <1> SUFFICES ASSUME IInv, AnswersIInv, [Next]_vars
               PROVE  AnswersIInv'
    OBVIOUS
  <1>1. CASE UNCHANGED <<poll, claims, received, lost>>
    BY <1>1, SameGrantsInHand DEF AnswersIInv
  <1>2. ASSUME NEW l \in Links, Request(l) \/ Expire(l)
        PROVE  AnswersIInv'
    BY <1>1, <1>2 DEF Request, Expire, historyVars
  <1>3. ASSUME NEW a \in Approvals, (\E u \in Users : FindPending(a, u)) \/ Register(a) \/ Approve(a)
        PROVE  AnswersIInv'
    BY <1>1, <1>3 DEF FindPending, Register, Approve, historyVars
  <1>4. ASSUME NEW p \in Polls, (\E l \in Links : Find(p, l)) \/ PollStep(p)
        PROVE  AnswersIInv'
    BY <1>4, FindKeepsAnswers, ClaimKeepsAnswers, SessionKeepsAnswers, ReplyKeepsAnswers DEF PollStep
  <1>5. ASSUME NEW d \in activeDevices, RevokeDevice(d)
        PROVE  AnswersIInv'
    BY <1>1, <1>5 DEF RevokeDevice, historyVars
  <1>6. CASE UNCHANGED vars
    BY <1>1, <1>6 DEF vars
  <1> QED
    BY <1>2, <1>3, <1>4, <1>5, <1>6, CrashKeepsAnswers DEF Next

\* ClaimDeviceLinkUseCase: for any polls and approvals, a claimed grant is in the hands of
\* one poll until its one answer is sent or lost; none is forgotten and none is answered twice.
THEOREM GrantsAreAnsweredOnce == Spec => []GrantIsAnsweredOnce
<1>1. AnswersIInv => GrantIsAnsweredOnce
  BY DEF AnswersIInv, AnswerFits, GrantIsAnsweredOnce, Serving, Answered
<1> QED
  BY Initially, StepKeeps, AnswersInitially, StepKeepsAnswers, <1>1, PTL DEF Spec
=============================================================================
