------------------------ MODULE SubscriptionsProofs ------------------------
(***************************************************************************)
(* Proofs about Subscriptions, for any codes, plans and lengths, any number *)
(* of grants, of calls of resolve and of edits.                            *)
(***************************************************************************)
EXTENDS Subscriptions, FiniteSetTheorems, TLAPS

Granted(s) == subscription[s].status # "NONE"
Holds(g) == grant[g].pc \in {"read", "commit"}
Excused == revived \cup edited

\* The rows are numbered in the order of their creation, without a gap.
RowsAreNumbered ==
    /\ \A s \in Grants :
          IF Granted(s) THEN At(s, "done") /\ subscription[s].createdAt \in 1 .. created
                        ELSE subscription[s].createdAt = 0
    /\ \A s, t \in Grants :
          Granted(s) /\ subscription[s].createdAt = subscription[t].createdAt => s = t
    /\ \A n \in 1 .. created : \E s \in Grants : subscription[s].createdAt = n

\* What a call has read is a row that exists.
ReadsAreKnown ==
    /\ \A g \in Grants : grant[g].current # None => At(g, "commit") /\ Granted(grant[g].current)
    /\ \A g \in Grants : At(g, "idle") => grant[g].code = None
    /\ \A r \in Readers : reader[r].pc # "idle" => reader[r].row \in Grants /\ Granted(reader[r].row)
    /\ \A e \in Edits : edit[e].pc = "write" =>
          edit[e].row \in Grants /\ Granted(edit[e].row) /\ edit[e].end \in Nat

\* A transaction that holds a code holds it alone, and nobody has redeemed it before.
CodesAreHeld ==
    \A g \in Grants : grant[g].code \in Codes =>
        /\ Holds(g) => /\ grant[g].code \notin redeemed
                       /\ \A h \in Grants : Holds(h) /\ grant[h].code = grant[g].code => h = g
        /\ At(g, "done") => grant[g].code \in redeemed

\* A redemption that looked for an earlier trial knows the trials granted since.
TrialsAreSeen ==
    \A g, h \in Grants :
        /\ At(g, "done") /\ IsTrial(g)
        /\ IsTrial(h) /\ grant[h].pc \in {"lock", "read", "commit"}
        => g \in sinceTrial[h]

\* What resolve finds in a row that no administrator wrote.
RowsAreShaped ==
    \A s \in Grants \ edited :
        LET row == subscription[s]
        IN  /\ row.status = "TRIALING" => row.trialEndsAt = row.currentPeriodEnd
            /\ row.status \in {"ACTIVE", "PAST_DUE"} => row.trialEndsAt = None

\* The time has come for a row to be EXPIRED, or PAST_DUE.
DueToExpire(s) ==
    IF subscription[s].trialEndsAt # None THEN now >= subscription[s].trialEndsAt
    ELSE /\ subscription[s].currentPeriodEnd # None
         /\ now >= subscription[s].currentPeriodEnd + Grace
DueToPay(s) ==
    /\ subscription[s].trialEndsAt = None
    /\ subscription[s].currentPeriodEnd # None
    /\ now >= subscription[s].currentPeriodEnd

\* A mark that is written, or about to be, is due.
MarksAreDue ==
    /\ \A s \in Grants \ edited :
          /\ subscription[s].status = "EXPIRED" => DueToExpire(s)
          /\ subscription[s].status = "PAST_DUE" => DueToPay(s)
    /\ \A r \in Readers : reader[r].row \notin edited =>
          /\ reader[r].pc = "expire" => DueToExpire(reader[r].row)
          /\ reader[r].pc = "pastdue" => DueToPay(reader[r].row)

\* A grant has added its length to the end of the row it read.
EndsAreAdded ==
    \A g \in Grants, s \in Grants \ edited :
        (/\ At(g, "commit") /\ grant[g].current = s
         /\ LengthOfGrant(g) # None
         /\ subscription[s].planId = grant[g].planId
         /\ subscription[s].currentPeriodEnd # None
         /\ subscription[s].currentPeriodEnd > now)
        => grant[g].end = subscription[s].currentPeriodEnd + LengthOfGrant(g)

\* While nobody else commits, a grant holds the newest row, if that row is live,
NewestIsRead ==
    \A g \in Grants, s \in Grants \ Excused :
        (/\ At(g, "commit") /\ sinceRead[g] = {}
         /\ Live(s) /\ subscription[s].createdAt = created)
        => grant[g].current = s

\* and so the row that follows a live one comes from a grant that was overtaken.
LiveRowsAreFollowed ==
    \A s \in LiveRows \ Excused, t \in Grants :
        subscription[t].createdAt = subscription[s].createdAt + 1 => sinceRead[t] # {}

IInv ==
    /\ TypeOK
    /\ RowsAreNumbered
    /\ ReadsAreKnown
    /\ CodesAreHeld
    /\ CodeIsRedeemedOnce
    /\ TrialsAreSeen
    /\ SecondTrialOverlapped
    /\ RowsAreShaped
    /\ MarksAreDue
    /\ EndsAreAdded
    /\ NewestIsRead
    /\ LiveRowsAreFollowed

-----------------------------------------------------------------------------
LEMMA Initially == Init => IInv
  <1> SUFFICES ASSUME Init PROVE IInv
    OBVIOUS
  <1>1. TypeOK
    BY SubscriptionsAssumption
    DEF Init, TypeOK, NoSubscription, NoGrant, NoReader, Subscription, Status, Time, Grant, Reader, Edit
  <1>2. /\ \A s \in Grants : ~Granted(s) /\ ~Live(s) /\ subscription[s].createdAt = 0
                             /\ subscription[s].status = "NONE"
        /\ \A g \in Grants : At(g, "idle") /\ grant[g].current = None /\ grant[g].code = None
        /\ \A r \in Readers : reader[r].pc = "idle"
        /\ \A e \in Edits : edit[e].pc = "idle"
    BY DEF Init, NoSubscription, NoGrant, NoReader, Granted, Live, At, LiveStatus
  <1>3. RowsAreNumbered /\ ReadsAreKnown
    BY <1>2 DEF Init, RowsAreNumbered, ReadsAreKnown, At
  <1>4. CodesAreHeld /\ CodeIsRedeemedOnce
    BY <1>2 DEF CodesAreHeld, CodeIsRedeemedOnce, At, Holds
  <1>5. TrialsAreSeen /\ SecondTrialOverlapped
    BY <1>2 DEF TrialsAreSeen, SecondTrialOverlapped, At
  <1>6. RowsAreShaped /\ MarksAreDue
    BY <1>2 DEF RowsAreShaped, MarksAreDue
  <1>7. EndsAreAdded /\ NewestIsRead /\ LiveRowsAreFollowed
    BY <1>2 DEF EndsAreAdded, NewestIsRead, LiveRowsAreFollowed, LiveRows, At
  <1> QED
    BY <1>1, <1>3, <1>4, <1>5, <1>6, <1>7 DEF IInv

\* The end a grant computes is a time.
LEMMA EndIsTime ==
  ASSUME TypeOK, NEW g \in Grants
  PROVE  /\ LengthOfGrant(g) \in Time
         /\ \A start \in Nat : EndDate(start, LengthOfGrant(g)) \in Time
         /\ \A s \in Grants : StartDate(s, grant[g].planId) \in Nat
  <1>1. LengthOfGrant(g) \in Time
    BY SubscriptionsAssumption DEF TypeOK, LengthOfGrant, Grant, Time
  <1>2. \A start \in Nat : EndDate(start, LengthOfGrant(g)) \in Time
    BY <1>1 DEF EndDate, Time
  <1>3. \A s \in Grants : StartDate(s, grant[g].planId) \in Nat
    BY DEF TypeOK, StartDate, Subscription, Time
  <1> QED
    BY <1>1, <1>2, <1>3

-----------------------------------------------------------------------------
(***************************************************************************)
(* The steps of a grant before its commit write its own record only.       *)
(***************************************************************************)
LEMMA GrantMoves ==
  ASSUME IInv, NEW g \in Grants, NEW new \in Grant,
         grant' = [grant EXCEPT ![g] = new], GrantReads,
         ~At(g, "commit"), ~At(g, "done"), new.pc # "done",
         new.pc # "idle",
         new.current # None => new.pc = "commit" /\ new.current \in Grants /\ Granted(new.current),
         new.pc \in {"read", "commit"} /\ new.code \in Codes =>
             /\ new.code \notin redeemed
             /\ \A h \in Grants \ {g} : Holds(h) => grant[h].code # new.code,
         IsTrial(g)' /\ new.pc \in {"lock", "read", "commit"} =>
             \A h \in Grants : At(h, "done") /\ IsTrial(h) => h \in sinceTrial[g],
         \A s \in Grants \ edited :
             (/\ new.pc = "commit" /\ new.current = s
              /\ LengthOfGrant(g)' # None
              /\ subscription[s].planId = new.planId
              /\ subscription[s].currentPeriodEnd # None
              /\ subscription[s].currentPeriodEnd > now)
             => new.end = subscription[s].currentPeriodEnd + LengthOfGrant(g)',
         \A s \in Grants \ Excused :
             new.pc = "commit" /\ Live(s) /\ subscription[s].createdAt = created => new.current = s
  PROVE  IInv'
  <1>1. /\ grant'[g] = new
        /\ \A h \in Grants \ {g} : grant'[h] = grant[h]
    BY DEF IInv, TypeOK
  <1>2. /\ \A s \in Grants : Granted(s)' = Granted(s) /\ Live(s)' = Live(s)
        /\ LiveRows' = LiveRows /\ Excused' = Excused
    BY DEF GrantReads, Granted, Live, LiveRows, Excused, historyVars
  <1>3. \A h \in Grants \ {g} :
           /\ \A pc : At(h, pc)' = At(h, pc)
           /\ Holds(h)' = Holds(h) /\ IsTrial(h)' = IsTrial(h)
           /\ LengthOfGrant(h)' = LengthOfGrant(h)
    BY <1>1 DEF At, Holds, IsTrial, LengthOfGrant
  <1>4. \A pc : At(g, pc)' <=> new.pc = pc
    BY <1>1 DEF At
  <1>5. TypeOK'
    BY <1>1 DEF IInv, TypeOK, GrantReads, historyVars
  <1>6. RowsAreNumbered'
    <2>1. ~Granted(g)
      BY DEF IInv, RowsAreNumbered
    <2> QED
      BY <1>2, <1>3, <2>1 DEF IInv, RowsAreNumbered, GrantReads
  <1>7. ReadsAreKnown'
    <2>1. ASSUME NEW h \in Grants
          PROVE  /\ grant'[h].current # None =>
                       At(h, "commit")' /\ subscription[grant'[h].current].status # "NONE"
                 /\ At(h, "idle")' => grant'[h].code = None
      <3>1. CASE h = g
        BY <1>1, <1>4, <3>1 DEF Granted
      <3>2. CASE h # g
        BY <1>1, <1>3, <3>2 DEF IInv, ReadsAreKnown, Granted
      <3> QED
        BY <3>1, <3>2
    <2>2. subscription' = subscription /\ reader' = reader /\ edit' = edit
      BY DEF GrantReads
    <2> QED
      BY <2>1, <2>2 DEF IInv, ReadsAreKnown, Granted
  <1>8. CodesAreHeld'
    <2>1. ASSUME NEW f \in Grants, NEW h \in Grants, grant'[f].code \in Codes, Holds(f)', Holds(h)',
                 grant'[h].code = grant'[f].code
          PROVE  h = f /\ grant'[f].code \notin redeemed
      <3>1. CASE f = g
        BY <1>1, <1>3, <2>1, <3>1 DEF Holds
      <3>2. CASE f # g /\ h = g
        BY <1>1, <1>3, <2>1, <3>2 DEF Holds
      <3>3. CASE f # g /\ h # g
        BY <1>1, <1>3, <2>1, <3>3 DEF IInv, CodesAreHeld
      <3> QED
        BY <3>1, <3>2, <3>3
    <2>2. ASSUME NEW f \in Grants, grant'[f].code \in Codes, At(f, "done")'
          PROVE  grant'[f].code \in redeemed
      BY <1>1, <1>3, <1>4, <2>2 DEF IInv, CodesAreHeld
    <2> QED
      BY <2>1, <2>2 DEF CodesAreHeld, GrantReads
  <1>9. CodeIsRedeemedOnce'
    BY <1>1, <1>3, <1>4 DEF IInv, CodeIsRedeemedOnce
  <1>10. TrialsAreSeen'
    <2> SUFFICES ASSUME NEW f \in Grants, NEW h \in Grants, At(f, "done")', IsTrial(f)', IsTrial(h)',
                        grant'[h].pc \in {"lock", "read", "commit"}
                 PROVE  f \in sinceTrial[h]
      BY DEF TrialsAreSeen, GrantReads, historyVars
    <2>1. f # g /\ At(f, "done") /\ IsTrial(f)
      BY <1>3, <1>4
    <2>2. CASE h = g
      BY <1>1, <2>1, <2>2
    <2>3. CASE h # g
      BY <1>1, <1>3, <2>1, <2>3 DEF IInv, TrialsAreSeen
    <2> QED
      BY <2>2, <2>3
  <1>11. SecondTrialOverlapped'
    BY <1>3, <1>4 DEF IInv, SecondTrialOverlapped, GrantReads, historyVars
  <1>12. RowsAreShaped' /\ MarksAreDue'
    BY DEF IInv, RowsAreShaped, MarksAreDue, DueToExpire, DueToPay, GrantReads, historyVars
  <1>13. EndsAreAdded'
    <2> SUFFICES ASSUME NEW f \in Grants, NEW s \in Grants \ edited,
                        At(f, "commit")', grant'[f].current = s, LengthOfGrant(f)' # None,
                        subscription[s].planId = grant'[f].planId,
                        subscription[s].currentPeriodEnd # None,
                        subscription[s].currentPeriodEnd > now
                 PROVE  grant'[f].end = subscription[s].currentPeriodEnd + LengthOfGrant(f)'
      BY DEF EndsAreAdded, GrantReads, historyVars
    <2>1. CASE f = g
      BY <1>1, <1>4, <2>1
    <2>2. CASE f # g
      BY <1>1, <1>3, <2>2 DEF IInv, EndsAreAdded
    <2> QED
      BY <2>1, <2>2
  <1>14. NewestIsRead'
    <2> SUFFICES ASSUME NEW f \in Grants, NEW s \in Grants \ Excused,
                        At(f, "commit")', sinceRead[f] = {}, Live(s),
                        subscription[s].createdAt = created
                 PROVE  grant'[f].current = s
      BY <1>2 DEF NewestIsRead, GrantReads, historyVars
    <2>1. CASE f = g
      BY <1>1, <1>4, <2>1
    <2>2. CASE f # g
      BY <1>1, <1>3, <2>2 DEF IInv, NewestIsRead
    <2> QED
      BY <2>1, <2>2
  <1>15. LiveRowsAreFollowed'
    BY <1>2 DEF IInv, LiveRowsAreFollowed, GrantReads, historyVars
  <1> QED
    BY <1>5, <1>6, <1>7, <1>8, <1>9, <1>10, <1>11, <1>12, <1>13, <1>14, <1>15 DEF IInv

LEMMA FailKeeps ==
  ASSUME IInv, NEW g \in Grants, Fail(g), GrantReads, ~At(g, "commit"), ~At(g, "done")
  PROVE  IInv'
  <1> DEFINE new == NoGrant("failed")
  <1>1. /\ new \in Grant /\ new.pc = "failed" /\ new.current = None
        /\ grant' = [grant EXCEPT ![g] = new]
    BY SubscriptionsAssumption DEF NoGrant, Grant, Time, Fail
  <1> HIDE DEF new
  <1> QED
    BY <1>1, GrantMoves

LEMMA OnlyPc ==
  ASSUME IInv, NEW g \in Grants, NEW pc \in {"lock", "read"}, Goto(g, pc)
  PROVE  \E new \in Grant :
            /\ grant' = [grant EXCEPT ![g] = new] /\ grant'[g] = new
            /\ new.pc = pc /\ new.code = grant[g].code /\ new.current = grant[g].current
  <1> DEFINE n == [grant[g] EXCEPT !.pc = pc]
  <1>1. grant' = [grant EXCEPT ![g] = n] /\ grant'[g] = n /\ grant[g] \in Grant
    BY DEF IInv, TypeOK, Goto
  <1>2. n \in Grant /\ n.pc = pc /\ n.code = grant[g].code /\ n.current = grant[g].current
    BY <1>1 DEF Grant
  <1> QED
    BY <1>1, <1>2

LEMMA FindCodeKeeps ==
  ASSUME IInv, NEW g \in Grants, NEW c \in Codes, FindCode(g, c)
  PROVE  IInv'
  <1>1. At(g, "idle") /\ ~At(g, "commit") /\ ~At(g, "done") /\ GrantReads
    BY DEF FindCode, At
  <1>2. CASE Fail(g)
    BY <1>1, <1>2, FailKeeps
  <1>3. CASE grant' = [grant EXCEPT ![g] =
                [@ EXCEPT !.pc = IF KindOf[c] = "TRIAL" THEN "trial" ELSE "lock",
                          !.code = c, !.planId = PlanOf[c]]]
    <2>1. PICK new \in Grant :
             /\ grant' = [grant EXCEPT ![g] = new] /\ grant'[g] = new
             /\ new.pc = IF KindOf[c] = "TRIAL" THEN "trial" ELSE "lock"
             /\ new.code = c /\ new.planId = PlanOf[c] /\ new.current = grant[g].current
      <3> DEFINE pc == IF KindOf[c] = "TRIAL" THEN "trial" ELSE "lock"
                 n == [grant[g] EXCEPT !.pc = pc, !.code = c, !.planId = PlanOf[c]]
      <3>1. pc \in {"trial", "lock"} /\ PlanOf[c] \in Plans /\ grant[g] \in Grant
        BY SubscriptionsAssumption DEF IInv, TypeOK
      <3>2. grant' = [grant EXCEPT ![g] = n] /\ grant'[g] = n
        BY <1>3 DEF IInv, TypeOK
      <3> HIDE DEF pc
      <3>3. /\ n \in Grant /\ n.pc = pc
            /\ n.code = c /\ n.planId = PlanOf[c] /\ n.current = grant[g].current
        BY <3>1 DEF Grant
      <3> QED
        BY <3>2, <3>3 DEF pc
    <2>2. new.current = None
      BY <1>1, <2>1 DEF IInv, ReadsAreKnown
    <2>3. IsTrial(g)' => new.pc = "trial"
      BY <2>1 DEF IsTrial
    <2>4. new.pc \notin {"read", "commit", "done"}
      BY <2>1
    <2> QED
      BY <1>1, <2>1, <2>2, <2>3, <2>4, GrantMoves
  <1> QED
    BY <1>2, <1>3 DEF FindCode

LEMMA FindPlanKeeps ==
  ASSUME IInv, NEW g \in Grants, NEW plan \in Plans, FindPlan(g, plan)
  PROVE  IInv'
  <1>1. At(g, "idle") /\ ~At(g, "commit") /\ ~At(g, "done") /\ GrantReads
    BY DEF FindPlan, At
  <1>2. PICK new \in Grant :
           /\ grant' = [grant EXCEPT ![g] = new] /\ grant'[g] = new
           /\ new.pc = "read" /\ new.code = None /\ new.current = grant[g].current
    <2> DEFINE n == [grant[g] EXCEPT !.pc = "read", !.planId = plan]
    <2>1. grant' = [grant EXCEPT ![g] = n] /\ grant'[g] = n /\ grant[g] \in Grant
      BY DEF IInv, TypeOK, FindPlan
    <2>2. n \in Grant /\ n.pc = "read" /\ n.code = grant[g].code /\ n.current = grant[g].current
      BY <2>1 DEF Grant
    <2>3. grant[g].code = None
      BY DEF IInv, ReadsAreKnown, FindPlan, At
    <2> QED
      BY <2>1, <2>2, <2>3
  <1>3. new.current = None
    BY <1>1, <1>2 DEF IInv, ReadsAreKnown
  <1>4. ~IsTrial(g)' /\ new.code \notin Codes
    BY <1>2, SubscriptionsAssumption DEF IsTrial
  <1> QED
    BY <1>1, <1>2, <1>3, <1>4, GrantMoves

LEMMA CheckTrialKeeps ==
  ASSUME IInv, NEW g \in Grants, CheckTrial(g)
  PROVE  IInv'
  <1>1. At(g, "trial") /\ ~At(g, "commit") /\ ~At(g, "done") /\ GrantReads
    BY DEF CheckTrial, At
  <1>2. CASE Fail(g)
    BY <1>1, <1>2, FailKeeps
  <1>3. CASE (\A c \in redeemed : KindOf[c] # "TRIAL") /\ Goto(g, "lock")
    <2>1. PICK new \in Grant :
             /\ grant' = [grant EXCEPT ![g] = new] /\ grant'[g] = new
             /\ new.pc = "lock" /\ new.code = grant[g].code /\ new.current = grant[g].current
      BY <1>3, OnlyPc
    <2>2. new.current = None
      BY <1>1, <2>1 DEF IInv, ReadsAreKnown
    <2>3. \A h \in Grants : ~(At(h, "done") /\ IsTrial(h))
      BY <1>3, SubscriptionsAssumption DEF IInv, CodesAreHeld, IsTrial, TypeOK, Grant
    <2> QED
      BY <1>1, <2>1, <2>2, <2>3, GrantMoves
  <1> QED
    BY <1>2, <1>3 DEF CheckTrial

LEMMA LockCodeKeeps ==
  ASSUME IInv, NEW g \in Grants, LockCode(g)
  PROVE  IInv'
  <1>1. At(g, "lock") /\ ~At(g, "commit") /\ ~At(g, "done") /\ GrantReads
    BY DEF LockCode, At
  <1>2. CASE Fail(g)
    BY <1>1, <1>2, FailKeeps
  <1>3. CASE grant[g].code \notin redeemed /\ Goto(g, "read")
    <2>1. PICK new \in Grant :
             /\ grant' = [grant EXCEPT ![g] = new] /\ grant'[g] = new
             /\ new.pc = "read" /\ new.code = grant[g].code /\ new.current = grant[g].current
      BY <1>3, OnlyPc
    <2>2. new.current = None
      BY <1>1, <2>1 DEF IInv, ReadsAreKnown
    <2>3. \A h \in Grants \ {g} : Holds(h) => grant[h].code # new.code
      BY <2>1 DEF LockCode, LockedByAnother, Holds
    <2>4. IsTrial(g)' => \A h \in Grants : At(h, "done") /\ IsTrial(h) => h \in sinceTrial[g]
      BY <1>1, <2>1 DEF IInv, TrialsAreSeen, IsTrial, At
    <2> QED
      BY <1>1, <1>3, <2>1, <2>2, <2>3, <2>4, GrantMoves
  <1> QED
    BY <1>2, <1>3 DEF LockCode

LEMMA ReadCurrentKeeps ==
  ASSUME IInv, NEW g \in Grants, ReadCurrent(g)
  PROVE  IInv'
  <1>1. At(g, "read") /\ ~At(g, "commit") /\ ~At(g, "done") /\ GrantReads
    BY DEF ReadCurrent, At
  <1>2. /\ now \in Nat /\ created \in Nat /\ grant[g] \in Grant
        /\ None \notin Grants /\ None \notin Nat
        /\ \A s \in Grants : subscription[s] \in Subscription
    BY SubscriptionsAssumption DEF IInv, TypeOK
  \* What the call has read, and the end it has computed.
  <1>3. PICK row \in Grants \cup {None}, end \in Time :
           /\ grant' = [grant EXCEPT ![g] = [@ EXCEPT !.pc = "commit", !.current = row, !.end = end]]
           /\ IF row = None THEN Current = {}
              ELSE row \in Current /\ end = EndDate(StartDate(row, grant[g].planId), LengthOfGrant(g))
    <2>1. CASE /\ Current = {}
               /\ grant' = [grant EXCEPT ![g] =
                     [@ EXCEPT !.pc = "commit", !.end = EndDate(now, LengthOfGrant(g))]]
      <3>1. EndDate(now, LengthOfGrant(g)) \in Time /\ grant[g].current = None
        BY <1>1, <1>2, EndIsTime DEF IInv, ReadsAreKnown
      <3>2. [grant[g] EXCEPT !.pc = "commit", !.end = EndDate(now, LengthOfGrant(g))]
             = [grant[g] EXCEPT !.pc = "commit", !.current = None, !.end = EndDate(now, LengthOfGrant(g))]
        BY <1>2, <3>1 DEF Grant
      <3> QED
        BY <2>1, <3>1, <3>2
    <2>2. CASE \E s \in Current :
                  grant' = [grant EXCEPT ![g] =
                     [@ EXCEPT !.pc = "commit", !.current = s,
                               !.end = EndDate(StartDate(s, grant[g].planId), LengthOfGrant(g))]]
      <3>1. PICK s \in Current :
                  grant' = [grant EXCEPT ![g] =
                     [@ EXCEPT !.pc = "commit", !.current = s,
                               !.end = EndDate(StartDate(s, grant[g].planId), LengthOfGrant(g))]]
        BY <2>2
      <3>2. s \in Grants /\ EndDate(StartDate(s, grant[g].planId), LengthOfGrant(g)) \in Time
        BY <3>1, EndIsTime DEF Current, LiveRows, IInv
      <3> QED
        BY <1>2, <3>1, <3>2
    <2> QED
      BY <2>1, <2>2 DEF ReadCurrent
  <1>4. PICK new \in Grant :
           /\ grant' = [grant EXCEPT ![g] = new] /\ grant'[g] = new
           /\ new.pc = "commit" /\ new.code = grant[g].code /\ new.planId = grant[g].planId
           /\ new.current = row /\ new.end = end
    <2> DEFINE n == [grant[g] EXCEPT !.pc = "commit", !.current = row, !.end = end]
    <2>1. grant' = [grant EXCEPT ![g] = n] /\ grant'[g] = n
      BY <1>3 DEF IInv, TypeOK
    <2>2. /\ n \in Grant /\ n.pc = "commit" /\ n.code = grant[g].code
          /\ n.planId = grant[g].planId /\ n.current = row /\ n.end = end
      BY <1>2 DEF Grant
    <2> QED
      BY <2>1, <2>2
  <1>5. \A s \in LiveRows : s \in Grants /\ Granted(s)
    BY DEF LiveRows, Live, Granted, LiveStatus
  <1>6. new.current # None => new.current \in Grants /\ Granted(new.current)
    BY <1>3, <1>4, <1>5 DEF Current
  <1>7. new.code \in Codes =>
             /\ new.code \notin redeemed
             /\ \A h \in Grants \ {g} : Holds(h) => grant[h].code # new.code
    BY <1>1, <1>4 DEF IInv, CodesAreHeld, Holds, At
  <1>8. IsTrial(g)' => \A h \in Grants : At(h, "done") /\ IsTrial(h) => h \in sinceTrial[g]
    BY <1>1, <1>4 DEF IInv, TrialsAreSeen, IsTrial, At
  <1>9. LengthOfGrant(g)' = LengthOfGrant(g)
    BY <1>4 DEF LengthOfGrant
  <1>10. ASSUME NEW s \in Grants \ edited, new.current = s, LengthOfGrant(g) # None,
                subscription[s].planId = new.planId,
                subscription[s].currentPeriodEnd # None,
                subscription[s].currentPeriodEnd > now
         PROVE  new.end = subscription[s].currentPeriodEnd + LengthOfGrant(g)
    BY <1>2, <1>3, <1>4, <1>10 DEF EndDate, StartDate
  <1>11. ASSUME NEW s \in Grants \ Excused, Live(s), subscription[s].createdAt = created
         PROVE  new.current = s
    <2>1. s \in LiveRows /\ Granted(s)
      BY <1>5, <1>11 DEF LiveRows
    <2>2. \A t \in LiveRows : subscription[t].createdAt \in Nat /\ subscription[t].createdAt <= created
      BY <1>2, <1>5 DEF IInv, RowsAreNumbered
    <2>3. s \in Current
      BY <1>11, <2>1, <2>2 DEF Current
    <2>4. row \in Current
      BY <1>3, <2>3
    <2>5. subscription[row].createdAt >= created /\ row \in LiveRows
      BY <1>11, <2>1, <2>4 DEF Current
    <2>6. subscription[row].createdAt = subscription[s].createdAt
      BY <1>2, <1>11, <2>2, <2>5
    <2> QED
      BY <1>4, <1>5, <2>1, <2>5, <2>6 DEF IInv, RowsAreNumbered
  <1> QED
    BY <1>1, <1>4, <1>6, <1>7, <1>8, <1>9, <1>10, <1>11, GrantMoves

-----------------------------------------------------------------------------
(***************************************************************************)
(* The commit of a grant.                                                  *)
(***************************************************************************)

\* What it writes, row by row and call by call.
CommitWrites(g, row, new) ==
    /\ row.status = IF IsTrial(g) THEN "TRIALING" ELSE "ACTIVE"
    /\ row.planId = grant[g].planId
    /\ row.currentPeriodEnd = grant[g].end
    /\ row.trialEndsAt = IF IsTrial(g) THEN grant[g].end ELSE None
    /\ row.createdAt = created + 1
    /\ new.pc = "done" /\ new.code = grant[g].code /\ new.current = None
    /\ subscription'[g] = row
    /\ \A s \in Grants \ {g} :
          /\ subscription'[s] \in Subscription
          /\ subscription'[s].status = IF s = grant[g].current THEN "CANCELLED"
                                       ELSE subscription[s].status
          /\ subscription'[s].planId = subscription[s].planId
          /\ subscription'[s].currentPeriodEnd = subscription[s].currentPeriodEnd
          /\ subscription'[s].trialEndsAt = subscription[s].trialEndsAt
          /\ subscription'[s].createdAt = subscription[s].createdAt
    /\ grant'[g] = new
    /\ \A h \in Grants \ {g} :
          /\ grant'[h] = grant[h]
          /\ sinceTrial'[h] = IF IsTrial(g) /\ IsTrial(h) /\ grant[h].pc \in {"lock", "read", "commit"}
                              THEN sinceTrial[h] \cup {g} ELSE sinceTrial[h]
          /\ sinceRead'[h] = IF At(h, "commit") THEN sinceRead[h] \cup {g} ELSE sinceRead[h]
    /\ sinceTrial'[g] = sinceTrial[g] /\ sinceRead'[g] = sinceRead[g]

LEMMA CommitWritesThis ==
  ASSUME IInv, NEW g \in Grants, CommitGrant(g)
  PROVE  /\ subscription' \in [Grants -> Subscription]
         /\ grant' \in [Grants -> Grant]
         /\ \E row \in Subscription, new \in Grant : CommitWrites(g, row, new)
  <1> DEFINE cur == grant[g].current
             row == NewSubscription(g)
             new == [grant[g] EXCEPT !.pc = "done", !.current = None, !.end = None]
             base == IF cur = None THEN subscription ELSE Cancelled(cur)
  <1>1. /\ grant[g] \in Grant /\ created \in Nat /\ None \notin Grants /\ None \notin Nat
        /\ \A s \in Grants : subscription[s] \in Subscription
        /\ subscription \in [Grants -> Subscription]
        /\ grant \in [Grants -> Grant]
    BY SubscriptionsAssumption DEF IInv, TypeOK
  <1>2. /\ row \in Subscription
        /\ row.status = IF IsTrial(g) THEN "TRIALING" ELSE "ACTIVE"
        /\ row.planId = grant[g].planId
        /\ row.currentPeriodEnd = grant[g].end
        /\ row.trialEndsAt = IF IsTrial(g) THEN grant[g].end ELSE None
        /\ row.createdAt = created + 1
    <2>1. IsPermanent(g) \in BOOLEAN
      <3>1. /\ (grant[g].planId \in LifetimePlans) \in BOOLEAN
            /\ (KindOf[grant[g].code] = "LIFETIME") \in BOOLEAN
        OBVIOUS
      <3> QED
        BY <3>1, Zenon DEF IsPermanent
    <2> QED
      BY <1>1, <2>1 DEF NewSubscription, Subscription, Status, LiveStatus, Time, Grant
  <1>3. /\ new \in Grant /\ new.pc = "done" /\ new.code = grant[g].code /\ new.current = None
        /\ grant' = [grant EXCEPT ![g] = new]
    BY <1>1 DEF Grant, Time, CommitGrant
  <1>4. base \in [Grants -> Subscription] /\ subscription' = [base EXCEPT ![g] = row]
    BY <1>1 DEF Cancelled, CommitGrant, Subscription, Status
  <1>5. \A s \in Grants :
           /\ base[s].status = IF s = cur THEN "CANCELLED" ELSE subscription[s].status
           /\ base[s].planId = subscription[s].planId
           /\ base[s].currentPeriodEnd = subscription[s].currentPeriodEnd
           /\ base[s].trialEndsAt = subscription[s].trialEndsAt
           /\ base[s].createdAt = subscription[s].createdAt
    <2>1. CASE cur = None
      BY <1>1, <2>1
    <2>2. CASE cur # None
      <3>1. \A s \in Grants :
               base[s] = IF s = cur THEN [subscription[s] EXCEPT !.status = "CANCELLED"] ELSE subscription[s]
        BY <1>1, <2>2 DEF Cancelled
      <3> HIDE DEF base
      <3> QED
        BY <1>1, <3>1 DEF Subscription
    <2> QED
      BY <2>1, <2>2
  <1>6. /\ sinceTrial'[g] = sinceTrial[g] /\ sinceRead'[g] = sinceRead[g]
        /\ \A h \in Grants \ {g} :
          /\ sinceTrial'[h] = IF IsTrial(g) /\ IsTrial(h) /\ grant[h].pc \in {"lock", "read", "commit"}
                              THEN sinceTrial[h] \cup {g} ELSE sinceTrial[h]
          /\ sinceRead'[h] = IF At(h, "commit") THEN sinceRead[h] \cup {g} ELSE sinceRead[h]
    BY DEF CommitGrant
  <1> HIDE DEF row, new, base, cur
  <1>7. /\ subscription'[g] = row /\ grant'[g] = new
        /\ \A s \in Grants \ {g} : subscription'[s] = base[s] /\ base[s] \in Subscription
        /\ \A h \in Grants \ {g} : grant'[h] = grant[h]
        /\ subscription' \in [Grants -> Subscription] /\ grant' \in [Grants -> Grant]
    BY <1>1, <1>2, <1>3, <1>4
  <1>8. \A s \in Grants \ {g} :
          /\ subscription'[s] \in Subscription
          /\ subscription'[s].status = IF s = cur THEN "CANCELLED" ELSE subscription[s].status
          /\ subscription'[s].planId = subscription[s].planId
          /\ subscription'[s].currentPeriodEnd = subscription[s].currentPeriodEnd
          /\ subscription'[s].trialEndsAt = subscription[s].trialEndsAt
          /\ subscription'[s].createdAt = subscription[s].createdAt
    BY <1>5, <1>7
  <1>9. CommitWrites(g, row, new)
    BY <1>2, <1>3, <1>6, <1>7, <1>8, Zenon DEF CommitWrites, cur
  <1> QED
    BY <1>2, <1>3, <1>7, <1>9

LEMMA CommitKeeps ==
  ASSUME IInv, NEW g \in Grants, CommitGrant(g)
  PROVE  IInv'
  <1>1. PICK row \in Subscription, new \in Grant : CommitWrites(g, row, new)
    BY CommitWritesThis
  <1>2. /\ At(g, "commit") /\ ~Granted(g) /\ subscription[g].createdAt = 0
        /\ subscription[g].status = "NONE"
        /\ created' = created + 1 /\ created \in Nat /\ now \in Nat
        /\ redeemed' = redeemed \cup ({grant[g].code} \cap Codes)
        /\ UNCHANGED <<now, reader, edit, revived, edited>>
    BY DEF CommitGrant, Redeemed, IInv, TypeOK, RowsAreNumbered, At, Granted
  <1>3. /\ grant[g].current # g
        /\ grant[g].current # None => Granted(grant[g].current)
    BY <1>2, SubscriptionsAssumption DEF IInv, ReadsAreKnown
  <1>4. /\ Granted(g)' /\ ~Live(g)
        /\ \A s \in Grants \ {g} : /\ Granted(s)' <=> Granted(s)
                                   /\ Live(s)' <=> (Live(s) /\ s # grant[g].current)
    <2>1. Granted(g)' /\ ~Live(g)
      BY <1>1, <1>2 DEF CommitWrites, Granted, Live, LiveStatus
    <2>2. ASSUME NEW s \in Grants \ {g}
          PROVE  /\ Granted(s)' <=> Granted(s)
                 /\ Live(s)' <=> (Live(s) /\ s # grant[g].current)
      <3>1. CASE s = grant[g].current
        <4>1. Granted(s) /\ subscription'[s].status = "CANCELLED"
          BY <1>1, <1>3, <3>1, SubscriptionsAssumption DEF CommitWrites
        <4> QED
          BY <3>1, <4>1 DEF Granted, Live, LiveStatus
      <3>2. CASE s # grant[g].current
        <4>1. subscription'[s].status = subscription[s].status
          BY <1>1, <3>2 DEF CommitWrites
        <4> QED
          BY <3>2, <4>1 DEF Granted, Live, LiveStatus
      <3> QED
        BY <3>1, <3>2
    <2> QED
      BY <2>1, <2>2
  <1>5. /\ \A pc : At(g, pc)' <=> pc = "done"
        /\ ~Holds(g)' /\ (IsTrial(g)' <=> IsTrial(g))
        /\ \A h \in Grants \ {g} :
              /\ \A pc : At(h, pc)' <=> At(h, pc)
              /\ (Holds(h)' <=> Holds(h)) /\ (IsTrial(h)' <=> IsTrial(h))
              /\ LengthOfGrant(h)' = LengthOfGrant(h)
    BY <1>1 DEF CommitWrites, At, Holds, IsTrial, LengthOfGrant
  <1>6. Excused' = Excused
    BY <1>2 DEF Excused
  <1>7. TypeOK'
    <2>1. sinceTrial' \in [Grants -> SUBSET Grants] /\ sinceRead' \in [Grants -> SUBSET Grants]
      BY DEF CommitGrant, IInv, TypeOK
    <2> QED
      BY <1>2, <2>1, CommitWritesThis DEF IInv, TypeOK
  <1>8. RowsAreNumbered'
    <2>1. ASSUME NEW s \in Grants
          PROVE  /\ IF Granted(s)' THEN At(s, "done")' /\ subscription'[s].createdAt \in 1 .. created'
                                   ELSE subscription'[s].createdAt = 0
                 /\ s # g => subscription'[s].createdAt # subscription'[g].createdAt
      <3>1. CASE s = g
        BY <1>1, <1>2, <1>4, <1>5, <3>1 DEF CommitWrites
      <3>2. CASE s # g
        BY <1>1, <1>2, <1>4, <1>5, <3>2 DEF IInv, RowsAreNumbered, CommitWrites
      <3> QED
        BY <3>1, <3>2
    <2>2. ASSUME NEW s \in Grants, NEW t \in Grants,
                 Granted(s)', subscription'[s].createdAt = subscription'[t].createdAt
          PROVE  s = t
      BY <1>1, <1>4, <2>1, <2>2 DEF IInv, RowsAreNumbered, CommitWrites
    <2>3. ASSUME NEW n \in 1 .. created'
          PROVE  \E s \in Grants : subscription'[s].createdAt = n
      <3>1. CASE n = created + 1
        BY <1>1, <3>1 DEF CommitWrites
      <3>2. CASE n # created + 1
        <4>1. n \in 1 .. created
          BY <1>2, <3>2
        <4>2. PICK s \in Grants : subscription[s].createdAt = n
          BY <4>1 DEF IInv, RowsAreNumbered
        <4>3. s # g
          BY <1>2, <4>1, <4>2
        <4> QED
          BY <1>1, <4>2, <4>3 DEF CommitWrites
      <3> QED
        BY <3>1, <3>2
    <2> QED
      BY <2>1, <2>2, <2>3 DEF RowsAreNumbered
  <1>9. ReadsAreKnown'
    <2>1. \A s \in Grants : Granted(s) => subscription'[s].status # "NONE"
      BY <1>4 DEF Granted
    <2>2. ASSUME NEW h \in Grants
          PROVE  /\ grant'[h].current # None =>
                       At(h, "commit")' /\ subscription'[grant'[h].current].status # "NONE"
                 /\ At(h, "idle")' => grant'[h].code = None
      <3>1. CASE h = g
        BY <1>1, <1>5, <3>1 DEF CommitWrites
      <3>2. CASE h # g
        <4>1. grant'[h] = grant[h] /\ (grant[h].current = None \/ grant[h].current \in Grants)
          BY <1>1, <3>2 DEF CommitWrites, IInv, TypeOK, Grant
        <4> QED
          BY <1>5, <2>1, <3>2, <4>1 DEF IInv, ReadsAreKnown
      <3> QED
        BY <3>1, <3>2
    <2> QED
      BY <1>2, <2>1, <2>2 DEF IInv, ReadsAreKnown, Granted
  <1>10. CodesAreHeld'
    <2>1. ASSUME NEW f \in Grants, grant'[f].code \in Codes, Holds(f)'
          PROVE  /\ grant'[f].code \notin redeemed'
                 /\ \A h \in Grants : Holds(h)' /\ grant'[h].code = grant'[f].code => h = f
      <3>1. f # g /\ Holds(f) /\ grant'[f].code = grant[f].code
        BY <1>1, <1>5, <2>1 DEF CommitWrites
      <3>2. grant[f].code # grant[g].code
        BY <1>2, <2>1, <3>1 DEF IInv, CodesAreHeld, Holds, At
      <3>3. \A h \in Grants : Holds(h)' => h # g /\ Holds(h) /\ grant'[h].code = grant[h].code
        BY <1>1, <1>5 DEF CommitWrites
      <3> QED
        BY <1>2, <2>1, <3>1, <3>2, <3>3 DEF IInv, CodesAreHeld
    <2>2. ASSUME NEW f \in Grants, grant'[f].code \in Codes, At(f, "done")'
          PROVE  grant'[f].code \in redeemed'
      <3>1. CASE f = g
        BY <1>1, <1>2, <2>2, <3>1 DEF CommitWrites
      <3>2. CASE f # g
        BY <1>1, <1>2, <1>5, <2>2, <3>2 DEF CommitWrites, IInv, CodesAreHeld
      <3> QED
        BY <3>1, <3>2
    <2> QED
      BY <2>1, <2>2 DEF CodesAreHeld
  <1>11. CodeIsRedeemedOnce'
    <2>1. \A h \in Grants \ {g} : At(h, "done") /\ grant[h].code \in Codes => grant[h].code # grant[g].code
      BY <1>2 DEF IInv, CodesAreHeld, Holds, At
    <2>2. \A h \in Grants : grant'[h].code = grant[h].code
      BY <1>1 DEF CommitWrites
    <2> QED
      BY <1>5, <2>1, <2>2 DEF IInv, CodeIsRedeemedOnce
  <1>12. TrialsAreSeen'
    <2> SUFFICES ASSUME NEW f \in Grants, NEW h \in Grants, At(f, "done")', IsTrial(f)', IsTrial(h)',
                        grant'[h].pc \in {"lock", "read", "commit"}
                 PROVE  f \in sinceTrial'[h]
      BY DEF TrialsAreSeen
    <2>1. h # g /\ grant'[h] = grant[h] /\ IsTrial(h) /\ IsTrial(f)
      BY <1>1, <1>5 DEF CommitWrites
    <2>2. CASE f = g
      BY <1>1, <2>1, <2>2 DEF CommitWrites
    <2>3. CASE f # g
      BY <1>1, <1>5, <2>1, <2>3 DEF CommitWrites, IInv, TrialsAreSeen
    <2> QED
      BY <2>2, <2>3
  <1>13. SecondTrialOverlapped'
    <2> SUFFICES ASSUME NEW f \in Grants, NEW h \in Grants, f # h,
                        At(f, "done")', At(h, "done")', IsTrial(f)', IsTrial(h)'
                 PROVE  f \in sinceTrial'[h] \/ h \in sinceTrial'[f]
      BY DEF SecondTrialOverlapped
    <2>1. IsTrial(f) /\ IsTrial(h)
      BY <1>5
    <2>2. CASE f = g
      BY <1>1, <1>2, <1>5, <2>1, <2>2 DEF CommitWrites, IInv, TrialsAreSeen, At
    <2>3. CASE h = g
      BY <1>1, <1>2, <1>5, <2>1, <2>3 DEF CommitWrites, IInv, TrialsAreSeen, At
    <2>4. CASE f # g /\ h # g
      BY <1>1, <1>5, <2>1, <2>4 DEF CommitWrites, IInv, SecondTrialOverlapped
    <2> QED
      BY <2>2, <2>3, <2>4
  <1>14. RowsAreShaped'
    <2>1. ASSUME NEW s \in Grants \ edited
          PROVE  /\ subscription'[s].status = "TRIALING" =>
                       subscription'[s].trialEndsAt = subscription'[s].currentPeriodEnd
                 /\ subscription'[s].status \in {"ACTIVE", "PAST_DUE"} => subscription'[s].trialEndsAt = None
      <3>1. CASE s = g
        BY <1>1, <3>1 DEF CommitWrites
      <3>2. CASE s # g
        BY <1>1, <3>2 DEF CommitWrites, IInv, RowsAreShaped
      <3> QED
        BY <3>1, <3>2
    <2> QED
      BY <1>2, <2>1 DEF RowsAreShaped
  <1>15. MarksAreDue'
    <2>1. \A s \in Grants \ {g} : (DueToExpire(s)' <=> DueToExpire(s)) /\ (DueToPay(s)' <=> DueToPay(s))
      BY <1>1, <1>2 DEF CommitWrites, DueToExpire, DueToPay
    <2>2. ASSUME NEW s \in Grants \ edited
          PROVE  /\ subscription'[s].status = "EXPIRED" => DueToExpire(s)'
                 /\ subscription'[s].status = "PAST_DUE" => DueToPay(s)'
      <3>1. CASE s = g
        BY <1>1, <3>1 DEF CommitWrites
      <3>2. CASE s # g
        BY <1>1, <2>1, <3>2 DEF CommitWrites, IInv, MarksAreDue
      <3> QED
        BY <3>1, <3>2
    <2>3. ASSUME NEW r \in Readers, reader[r].row \notin edited
          PROVE  /\ reader[r].pc = "expire" => DueToExpire(reader[r].row)'
                 /\ reader[r].pc = "pastdue" => DueToPay(reader[r].row)'
      <3>1. CASE reader[r].pc \notin {"expire", "pastdue"}
        BY <3>1
      <3>2. CASE reader[r].pc \in {"expire", "pastdue"}
        <4>1. reader[r].row \in Grants \ {g}
          BY <1>2, <3>2 DEF IInv, ReadsAreKnown
        <4> QED
          BY <1>2, <2>1, <2>3, <4>1 DEF IInv, MarksAreDue, DueToExpire, DueToPay
      <3> QED
        BY <3>1, <3>2
    <2> QED
      BY <1>2, <2>2, <2>3 DEF MarksAreDue, DueToExpire, DueToPay
  <1>16. EndsAreAdded'
    <2> SUFFICES ASSUME NEW f \in Grants, NEW s \in Grants \ edited,
                        At(f, "commit")', grant'[f].current = s, LengthOfGrant(f)' # None,
                        subscription'[s].planId = grant'[f].planId,
                        subscription'[s].currentPeriodEnd # None,
                        subscription'[s].currentPeriodEnd > now
                 PROVE  grant'[f].end = subscription'[s].currentPeriodEnd + LengthOfGrant(f)'
      BY <1>2 DEF EndsAreAdded
    <2>1. f # g /\ grant'[f] = grant[f] /\ At(f, "commit") /\ LengthOfGrant(f)' = LengthOfGrant(f)
      BY <1>1, <1>5 DEF CommitWrites
    <2>2. s # g
      BY <1>2, <2>1, SubscriptionsAssumption DEF IInv, ReadsAreKnown
    <2> QED
      BY <1>1, <2>1, <2>2 DEF CommitWrites, IInv, EndsAreAdded
  <1>17. NewestIsRead'
    <2> SUFFICES ASSUME NEW f \in Grants, At(f, "commit")', sinceRead'[f] = {}
                 PROVE  FALSE
      BY DEF NewestIsRead
    <2> QED
      BY <1>1, <1>5 DEF CommitWrites
  <1>18. LiveRowsAreFollowed'
    <2> SUFFICES ASSUME NEW s \in Grants \ Excused, Live(s)', NEW t \in Grants,
                        subscription'[t].createdAt = subscription'[s].createdAt + 1
                 PROVE  sinceRead'[t] # {}
      BY <1>6 DEF LiveRowsAreFollowed, LiveRows
    <2>1. CASE s = g
      <3>1. subscription'[t].createdAt = created + 2
        BY <1>1, <1>2, <2>1 DEF CommitWrites
      <3>2. subscription'[t].createdAt \in 0 .. created + 1
        BY <1>2, <1>8 DEF RowsAreNumbered
      <3> QED
        BY <1>2, <3>1, <3>2
    <2>2. CASE s # g /\ t = g
      <3>1. Live(s) /\ subscription[s].createdAt = created /\ s # grant[g].current
        <4>1. Live(s) /\ s # grant[g].current /\ subscription'[s].createdAt = subscription[s].createdAt
          BY <1>1, <1>4, <2>2 DEF CommitWrites
        <4>2. subscription[s].createdAt \in Nat
          BY DEF IInv, TypeOK, Subscription
        <4> QED
          BY <1>1, <1>2, <2>2, <4>1, <4>2 DEF CommitWrites
      <3>2. sinceRead[g] # {}
        BY <1>2, <3>1 DEF IInv, NewestIsRead
      <3> QED
        BY <1>1, <2>2, <3>2 DEF CommitWrites
    <2>3. CASE s # g /\ t # g
      <3>1. s \in LiveRows \ Excused /\ subscription[t].createdAt = subscription[s].createdAt + 1
        BY <1>1, <1>4, <2>3 DEF CommitWrites, LiveRows
      <3>2. sinceRead[t] # {}
        BY <3>1 DEF IInv, LiveRowsAreFollowed
      <3> QED
        BY <1>1, <2>3, <3>2 DEF CommitWrites
    <2> QED
      BY <2>1, <2>2, <2>3
  <1> QED
    BY <1>7, <1>8, <1>9, <1>10, <1>11, <1>12, <1>13, <1>14, <1>15, <1>16, <1>17, <1>18 DEF IInv

-----------------------------------------------------------------------------
(***************************************************************************)
(* The other steps create no row and write no grant: resolve, the edits,   *)
(* the time, and a crash.                                                  *)
(***************************************************************************)
RowsKeep ==
    /\ UNCHANGED <<created, redeemed, sinceTrial, sinceRead>>
    /\ now <= now' /\ edited \subseteq edited' /\ revived \subseteq revived'
    /\ \A s \in Grants :
          /\ subscription'[s].createdAt = subscription[s].createdAt
          /\ subscription'[s].status = "NONE" <=> subscription[s].status = "NONE"
          /\ s \notin edited' =>
                /\ subscription'[s].planId = subscription[s].planId
                /\ subscription'[s].currentPeriodEnd = subscription[s].currentPeriodEnd
                /\ subscription'[s].trialEndsAt = subscription[s].trialEndsAt
          /\ s \notin edited' \cup revived' /\ Live(s)' => Live(s)

\* A grant goes on from where it is, or has failed.
GrantsKeep ==
    \A g \in Grants :
        \/ grant'[g] = grant[g]
        \/ grant'[g] = NoGrant("failed") /\ grant[g].pc \notin {"done", "idle"}

\* Everything but the marks of resolve is kept by such a step.
LEMMA RowsKeepRest ==
  ASSUME IInv, TypeOK', RowsKeep, GrantsKeep,
         \A r \in Readers : reader'[r].pc # "idle" =>
             reader'[r].row \in Grants /\ Granted(reader'[r].row),
         \A e \in Edits : edit'[e].pc = "write" =>
             edit'[e].row \in Grants /\ Granted(edit'[e].row) /\ edit'[e].end \in Nat
  PROVE  /\ RowsAreNumbered' /\ ReadsAreKnown' /\ CodesAreHeld' /\ CodeIsRedeemedOnce'
         /\ TrialsAreSeen' /\ SecondTrialOverlapped'
         /\ EndsAreAdded' /\ NewestIsRead' /\ LiveRowsAreFollowed'
  <1>1. /\ created' = created /\ redeemed' = redeemed
        /\ sinceTrial' = sinceTrial /\ sinceRead' = sinceRead
        /\ now \in Nat /\ now' \in Nat /\ now <= now' /\ Excused \subseteq Excused'
        /\ edited \subseteq edited'
    BY DEF RowsKeep, IInv, TypeOK, Excused
  <1>2. \A s \in Grants : Granted(s)' <=> Granted(s)
    BY DEF RowsKeep, Granted
  <1>3. \A g \in Grants :
           \/ /\ grant'[g] = grant[g]
              /\ \A pc : At(g, pc)' <=> At(g, pc)
              /\ Holds(g)' <=> Holds(g)
              /\ IsTrial(g)' <=> IsTrial(g)
              /\ LengthOfGrant(g)' = LengthOfGrant(g)
           \/ /\ grant'[g].pc = "failed" /\ grant'[g].current = None /\ grant'[g].code = None
              /\ ~At(g, "done")
    BY DEF GrantsKeep, NoGrant, At, Holds, IsTrial, LengthOfGrant
  <1>4. RowsAreNumbered'
    <2>1. \A s \in Grants : subscription'[s].createdAt = subscription[s].createdAt
      BY DEF RowsKeep
    <2>2. \A s \in Grants : At(s, "done") => At(s, "done")'
      BY <1>3
    <2>3. ASSUME NEW n \in 1 .. created'
          PROVE  \E s \in Grants : subscription'[s].createdAt = n
      BY <1>1, <2>1 DEF IInv, RowsAreNumbered
    <2> QED
      BY <1>1, <1>2, <2>1, <2>2, <2>3 DEF IInv, RowsAreNumbered
  <1>5. ReadsAreKnown'
    <2>1. \A s \in Grants : Granted(s) => subscription'[s].status # "NONE"
      BY <1>2 DEF Granted
    <2>2. ASSUME NEW h \in Grants
          PROVE  /\ grant'[h].current # None =>
                       At(h, "commit")' /\ subscription'[grant'[h].current].status # "NONE"
                 /\ At(h, "idle")' => grant'[h].code = None
      <3>1. CASE grant'[h] = grant[h]
        <4>1. grant[h].current = None \/ grant[h].current \in Grants
          BY DEF IInv, TypeOK, Grant
        <4>2. \A pc : At(h, pc)' <=> At(h, pc)
          BY <3>1 DEF At
        <4> QED
          BY <2>1, <3>1, <4>1, <4>2 DEF IInv, ReadsAreKnown
      <3>2. CASE grant'[h] = NoGrant("failed")
        BY <3>2 DEF NoGrant, At
      <3> QED
        BY <3>1, <3>2 DEF GrantsKeep
    <2> QED
      BY <2>1, <2>2 DEF ReadsAreKnown, Granted
  <1>6. CodesAreHeld'
    <2>1. ASSUME NEW f \in Grants, grant'[f].code \in Codes
          PROVE  /\ grant'[f].code = grant[f].code
                 /\ (Holds(f)' <=> Holds(f)) /\ (At(f, "done")' <=> At(f, "done"))
      BY <1>3, <2>1, SubscriptionsAssumption
    <2> QED
      BY <1>1, <2>1 DEF IInv, CodesAreHeld
  <1>7. CodeIsRedeemedOnce'
    <2>1. \A g \in Grants : At(g, "done")' => At(g, "done") /\ grant'[g].code = grant[g].code
      BY <1>3 DEF At
    <2> QED
      BY <2>1 DEF IInv, CodeIsRedeemedOnce
  <1>8. TrialsAreSeen' /\ SecondTrialOverlapped'
    <2>1. \A g \in Grants : IsTrial(g)' => grant'[g] = grant[g] /\ IsTrial(g)
      BY <1>3 DEF IsTrial
    <2>2. \A g \in Grants : IsTrial(g)' => (At(g, "done")' <=> At(g, "done"))
      BY <2>1 DEF At
    <2> QED
      BY <1>1, <2>1, <2>2 DEF IInv, TrialsAreSeen, SecondTrialOverlapped
  <1>9. EndsAreAdded'
    <2> SUFFICES ASSUME NEW f \in Grants, NEW s \in Grants \ edited',
                        At(f, "commit")', grant'[f].current = s, LengthOfGrant(f)' # None,
                        subscription'[s].planId = grant'[f].planId,
                        subscription'[s].currentPeriodEnd # None,
                        subscription'[s].currentPeriodEnd > now'
                 PROVE  grant'[f].end = subscription'[s].currentPeriodEnd + LengthOfGrant(f)'
      BY DEF EndsAreAdded
    <2>1. grant'[f] = grant[f] /\ At(f, "commit") /\ LengthOfGrant(f)' = LengthOfGrant(f)
      BY <1>3 DEF At
    <2>2. /\ s \notin edited /\ subscription'[s].planId = subscription[s].planId
          /\ subscription'[s].currentPeriodEnd = subscription[s].currentPeriodEnd
          /\ subscription[s].currentPeriodEnd \in Nat
      BY <1>1 DEF RowsKeep, IInv, TypeOK, Subscription, Time
    <2>3. subscription[s].currentPeriodEnd > now
      BY <1>1, <2>2
    <2> QED
      BY <2>1, <2>2, <2>3 DEF IInv, EndsAreAdded
  <1>10. NewestIsRead'
    <2> SUFFICES ASSUME NEW f \in Grants, NEW s \in Grants \ Excused',
                        At(f, "commit")', sinceRead'[f] = {}, Live(s)',
                        subscription'[s].createdAt = created'
                 PROVE  grant'[f].current = s
      BY DEF NewestIsRead
    <2>1. grant'[f] = grant[f] /\ At(f, "commit")
      BY <1>3 DEF At
    <2>2. s \notin Excused /\ Live(s) /\ subscription[s].createdAt = created
      BY <1>1 DEF RowsKeep, Excused
    <2> QED
      BY <1>1, <2>1, <2>2 DEF IInv, NewestIsRead
  <1>11. LiveRowsAreFollowed'
    <2> SUFFICES ASSUME NEW s \in Grants \ Excused', Live(s)', NEW t \in Grants,
                        subscription'[t].createdAt = subscription'[s].createdAt + 1
                 PROVE  sinceRead[t] # {}
      BY <1>1 DEF LiveRowsAreFollowed, LiveRows
    <2>1. s \in LiveRows \ Excused /\ subscription[t].createdAt = subscription[s].createdAt + 1
      BY <1>1 DEF RowsKeep, Excused, LiveRows
    <2> QED
      BY <2>1 DEF IInv, LiveRowsAreFollowed
  <1> QED
    BY <1>4, <1>5, <1>6, <1>7, <1>8, <1>9, <1>10, <1>11

\* Such a step keeps the marks that are due; a mark that is new has to be shown to be due.
LEMMA MarksStayDue ==
  ASSUME IInv, TypeOK', RowsKeep
  PROVE  \A s \in Grants \ edited' :
            (DueToExpire(s) => DueToExpire(s)') /\ (DueToPay(s) => DueToPay(s)')
  <1> SUFFICES ASSUME NEW s \in Grants \ edited'
               PROVE  (DueToExpire(s) => DueToExpire(s)') /\ (DueToPay(s) => DueToPay(s)')
    OBVIOUS
  <1>1. /\ subscription'[s].trialEndsAt = subscription[s].trialEndsAt
        /\ subscription'[s].currentPeriodEnd = subscription[s].currentPeriodEnd
        /\ subscription[s].trialEndsAt \in Nat \cup {None}
        /\ subscription[s].currentPeriodEnd \in Nat \cup {None}
        /\ now \in Nat /\ now' \in Nat /\ now <= now' /\ Grace \in Nat
    BY SubscriptionsAssumption DEF RowsKeep, IInv, TypeOK, Subscription, Time
  <1> QED
    BY <1>1 DEF DueToExpire, DueToPay

LEMMA QuietKeeps ==
  ASSUME IInv, TypeOK', RowsKeep, GrantsKeep, UNCHANGED subscription,
         \A r \in Readers : reader'[r].pc # "idle" =>
             reader'[r].row \in Grants /\ Granted(reader'[r].row),
         \A e \in Edits : edit'[e].pc = "write" =>
             edit'[e].row \in Grants /\ Granted(edit'[e].row) /\ edit'[e].end \in Nat,
         edited' = edited,
         \A r \in Readers : reader'[r].row \in Grants \ edited =>
             /\ reader'[r].pc = "expire" => DueToExpire(reader'[r].row)
             /\ reader'[r].pc = "pastdue" => DueToPay(reader'[r].row)
  PROVE  IInv'
  <1>1. RowsAreShaped'
    BY DEF IInv, RowsAreShaped
  <1>2. MarksAreDue'
    <2>1. \A s \in Grants \ edited : /\ subscription'[s].status = "EXPIRED" => DueToExpire(s)'
                                     /\ subscription'[s].status = "PAST_DUE" => DueToPay(s)'
      BY MarksStayDue DEF IInv, MarksAreDue
    <2>2. ASSUME NEW r \in Readers, reader'[r].row \notin edited
          PROVE  /\ reader'[r].pc = "expire" => DueToExpire(reader[r].row)'
                 /\ reader'[r].pc = "pastdue" => DueToPay(reader[r].row)'
      <3>1. CASE reader'[r].pc \notin {"expire", "pastdue"}
        BY <3>1
      <3>2. CASE reader'[r].pc \in {"expire", "pastdue"}
        <4> DEFINE s == reader'[r].row
        <4>1. s \in Grants \ edited'
          BY <2>2, <3>2
        <4>2. /\ reader'[r].pc = "expire" => DueToExpire(s)
              /\ reader'[r].pc = "pastdue" => DueToPay(s)
          BY <4>1
        <4>3. (DueToExpire(s) => DueToExpire(reader[r].row)') /\ (DueToPay(s) => DueToPay(reader[r].row)')
          BY <4>1, MarksStayDue DEF DueToExpire, DueToPay
        <4> QED
          BY <4>2, <4>3
      <3> QED
        BY <3>1, <3>2
    <2> QED
      BY <2>1, <2>2 DEF MarksAreDue
  <1> QED
    BY <1>1, <1>2, RowsKeepRest DEF IInv

LEMMA ResolveKeeps ==
  ASSUME IInv, NEW r \in Readers, Resolve(r)
  PROVE  IInv'
  <1>1. PICK s \in Current, pc \in {"expire", "pastdue"} :
           /\ reader' = [reader EXCEPT ![r] = [pc |-> pc, row |-> s]]
           /\ pc = "expire" => Lapsed(s)
           /\ pc = "pastdue" => Overdue(s)
    BY DEF Resolve
  <1>2. /\ s \in Grants /\ Live(s) /\ Granted(s) /\ subscription[s] \in Subscription
        /\ now \in Nat /\ Grace \in Nat /\ None \notin Nat
    BY SubscriptionsAssumption DEF Current, LiveRows, Live, LiveStatus, Granted, IInv, TypeOK
  <1>3. UNCHANGED <<subscription, created, redeemed, now, grant, edit,
                    sinceTrial, sinceRead, revived, edited>>
    BY DEF Resolve, historyVars
  <1>4. \A q \in Readers : reader'[q] = IF q = r THEN [pc |-> pc, row |-> s] ELSE reader[q]
    BY <1>1 DEF IInv, TypeOK
  <1>5. TypeOK'
    BY <1>1, <1>2, <1>3 DEF IInv, TypeOK, Reader
  <1>6. RowsKeep /\ GrantsKeep
    BY <1>3 DEF RowsKeep, GrantsKeep, Live, IInv, TypeOK
  <1>7. \A q \in Readers : reader'[q].pc # "idle" =>
             reader'[q].row \in Grants /\ Granted(reader'[q].row)
    BY <1>2, <1>4 DEF IInv, ReadsAreKnown
  <1>8. \A e \in Edits : edit'[e].pc = "write" =>
             edit'[e].row \in Grants /\ Granted(edit'[e].row) /\ edit'[e].end \in Nat
    BY <1>3 DEF IInv, ReadsAreKnown
  <1>9. s \notin edited => (pc = "expire" => DueToExpire(s)) /\ (pc = "pastdue" => DueToPay(s))
    <2> SUFFICES ASSUME s \notin edited
                 PROVE  (pc = "expire" => DueToExpire(s)) /\ (pc = "pastdue" => DueToPay(s))
      OBVIOUS
    <2>1. /\ subscription[s].status = "TRIALING" =>
                subscription[s].trialEndsAt = subscription[s].currentPeriodEnd
          /\ subscription[s].status # "TRIALING" => subscription[s].trialEndsAt = None
      BY <1>2 DEF IInv, RowsAreShaped, Live, LiveStatus
    <2>2. subscription[s].currentPeriodEnd \in Nat \cup {None}
      BY <1>2 DEF Subscription, Time
    <2>3. Lapsed(s) => DueToExpire(s)
      BY <1>2, <2>1, <2>2 DEF Lapsed, BaseEnd, ValidUntil, DueToExpire
    <2>4. Overdue(s) => DueToPay(s)
      BY <1>2, <2>1, <2>2 DEF Overdue, BaseEnd, ValidUntil, DueToPay
    <2> QED
      BY <1>1, <2>3, <2>4
  <1>10. \A q \in Readers : reader'[q].row \in Grants \ edited =>
             /\ reader'[q].pc = "expire" => DueToExpire(reader'[q].row)
             /\ reader'[q].pc = "pastdue" => DueToPay(reader'[q].row)
    BY <1>4, <1>9 DEF IInv, MarksAreDue
  <1> QED
    BY <1>3, <1>5, <1>6, <1>7, <1>8, <1>10, QuietKeeps

LEMMA FindSubscriptionKeeps ==
  ASSUME IInv, NEW e \in Edits, NEW s \in Grants, FindSubscription(e, s)
  PROVE  IInv'
  <1>1. PICK end \in Nat : edit' = [edit EXCEPT ![e] = [pc |-> "write", row |-> s, end |-> end]]
    <2> DEFINE end == IF subscription[s].currentPeriodEnd = None THEN now
                      ELSE subscription[s].currentPeriodEnd
    <2>1. end \in Nat
      BY DEF IInv, TypeOK, Subscription, Time
    <2> QED
      BY <2>1 DEF FindSubscription
  <1>2. Granted(s) /\ UNCHANGED <<subscription, created, redeemed, now, grant, reader,
                                  sinceTrial, sinceRead, revived, edited>>
    BY DEF FindSubscription, Granted, historyVars
  <1>3. \A f \in Edits : edit'[f] = IF f = e THEN [pc |-> "write", row |-> s, end |-> end] ELSE edit[f]
    BY <1>1 DEF IInv, TypeOK
  <1>4. TypeOK'
    BY <1>1, <1>2 DEF IInv, TypeOK, Edit, Time
  <1>5. RowsKeep /\ GrantsKeep
    BY <1>2 DEF RowsKeep, GrantsKeep, Live, IInv, TypeOK
  <1>6. \A q \in Readers : reader'[q].pc # "idle" =>
             reader'[q].row \in Grants /\ Granted(reader'[q].row)
    BY <1>2 DEF IInv, ReadsAreKnown
  <1>7. \A f \in Edits : edit'[f].pc = "write" =>
             edit'[f].row \in Grants /\ Granted(edit'[f].row) /\ edit'[f].end \in Nat
    BY <1>2, <1>3 DEF IInv, ReadsAreKnown
  <1>8. \A q \in Readers : reader'[q].row \in Grants \ edited =>
             /\ reader'[q].pc = "expire" => DueToExpire(reader'[q].row)
             /\ reader'[q].pc = "pastdue" => DueToPay(reader'[q].row)
    BY <1>2 DEF IInv, MarksAreDue
  <1> QED
    BY <1>2, <1>4, <1>5, <1>6, <1>7, <1>8, QuietKeeps

LEMMA TickKeeps ==
  ASSUME IInv, Tick
  PROVE  IInv'
  <1>1. /\ now' = now + 1 /\ now < MaxTime /\ now \in Nat /\ MaxTime \in Nat
        /\ UNCHANGED <<subscription, created, redeemed, grant, reader, edit,
                       sinceTrial, sinceRead, revived, edited>>
    BY SubscriptionsAssumption DEF Tick, calls, historyVars, IInv, TypeOK
  <1>2. TypeOK'
    BY <1>1 DEF IInv, TypeOK
  <1>3. RowsKeep /\ GrantsKeep
    BY <1>1 DEF RowsKeep, GrantsKeep, Live
  <1>4. /\ \A q \in Readers : reader'[q].pc # "idle" =>
             reader'[q].row \in Grants /\ Granted(reader'[q].row)
        /\ \A f \in Edits : edit'[f].pc = "write" =>
             edit'[f].row \in Grants /\ Granted(edit'[f].row) /\ edit'[f].end \in Nat
        /\ \A q \in Readers : reader'[q].row \in Grants \ edited =>
             /\ reader'[q].pc = "expire" => DueToExpire(reader'[q].row)
             /\ reader'[q].pc = "pastdue" => DueToPay(reader'[q].row)
    BY <1>1 DEF IInv, ReadsAreKnown, MarksAreDue
  <1> QED
    BY <1>1, <1>2, <1>3, <1>4, QuietKeeps

LEMMA CrashKeeps ==
  ASSUME IInv, Crash
  PROVE  IInv'
  <1>1. UNCHANGED <<subscription, created, redeemed, now, sinceTrial, sinceRead, revived, edited>>
    BY DEF Crash, historyVars
  <1>2. GrantsKeep /\ grant' \in [Grants -> Grant]
    <2>1. NoGrant("failed") \in Grant
      BY SubscriptionsAssumption DEF NoGrant, Grant, Time
    <2> QED
      BY <2>1 DEF Crash, GrantsKeep, IInv, TypeOK
  <1>3. /\ reader' \in [Readers -> Reader]
        /\ \A q \in Readers : reader'[q].pc = "idle"
    BY DEF Crash, NoReader, Reader
  <1>4. /\ edit' \in [Edits -> Edit]
        /\ \A f \in Edits : edit'[f].pc # "write"
    <2>1. ASSUME NEW f \in Edits
          PROVE  edit'[f] \in Edit /\ edit'[f].pc # "write"
      <3>1. edit[f] \in Edit
        BY DEF IInv, TypeOK
      <3>2. edit'[f] = IF edit[f].pc = "write" THEN [edit[f] EXCEPT !.pc = "done"] ELSE edit[f]
        BY DEF Crash
      <3> QED
        BY <3>1, <3>2 DEF Edit
    <2> QED
      BY <2>1 DEF Crash
  <1>5. TypeOK'
    BY <1>1, <1>2, <1>3, <1>4 DEF IInv, TypeOK
  <1>6. RowsKeep
    BY <1>1 DEF RowsKeep, Live, IInv, TypeOK
  <1> QED
    BY <1>1, <1>2, <1>3, <1>4, <1>5, <1>6, QuietKeeps

-----------------------------------------------------------------------------
\* The mark of resolve writes the status of one row.
MarkWrites(status, x) ==
    \A s \in Grants :
        /\ subscription'[s].status = IF s = x THEN status ELSE subscription[s].status
        /\ subscription'[s].planId = subscription[s].planId
        /\ subscription'[s].currentPeriodEnd = subscription[s].currentPeriodEnd
        /\ subscription'[s].trialEndsAt = subscription[s].trialEndsAt
        /\ subscription'[s].createdAt = subscription[s].createdAt

LEMMA MarkWritesThis ==
  ASSUME IInv, NEW status \in {"EXPIRED", "PAST_DUE"}, NEW x \in Grants, NEW r \in Readers,
         subscription' = [subscription EXCEPT ![x] = [@ EXCEPT !.status = status]],
         reader' = [reader EXCEPT ![r] = NoReader],
         UNCHANGED <<created, redeemed, now, grant, edit, sinceTrial, sinceRead, edited>>,
         revived' \subseteq revived \cup {x}
  PROVE  MarkWrites(status, x) /\ TypeOK'
  <1>1. \A s \in Grants : subscription[s] \in Subscription
    BY DEF IInv, TypeOK
  <1>2. \A s \in Grants :
           subscription'[s] = IF s = x THEN [subscription[s] EXCEPT !.status = status] ELSE subscription[s]
    BY DEF IInv, TypeOK
  <1>3. MarkWrites(status, x)
    BY <1>1, <1>2 DEF MarkWrites, Subscription
  <1>4. [subscription[x] EXCEPT !.status = status] \in Subscription
    BY <1>1 DEF Subscription, Status, LiveStatus
  <1>5. NoReader \in Reader
    BY DEF NoReader, Reader
  <1> QED
    BY <1>3, <1>4, <1>5 DEF IInv, TypeOK

\* The marks that the other calls of resolve are about to write stay due.
LEMMA ReadersStayDue ==
  ASSUME IInv, TypeOK', RowsKeep,
         \/ reader' = reader
         \/ \E r \in Readers : reader' = [reader EXCEPT ![r] = NoReader],
         \A s \in Grants \ edited' : /\ subscription'[s].status = "EXPIRED" => DueToExpire(s)'
                                     /\ subscription'[s].status = "PAST_DUE" => DueToPay(s)'
  PROVE  MarksAreDue'
  <1>1. \A q \in Readers : reader'[q] = reader[q] \/ reader'[q].pc = "idle"
    BY DEF IInv, TypeOK, NoReader
  <1>2. ASSUME NEW q \in Readers, reader'[q].row \notin edited'
        PROVE  /\ reader'[q].pc = "expire" => DueToExpire(reader[q].row)'
               /\ reader'[q].pc = "pastdue" => DueToPay(reader[q].row)'
    <2>1. CASE reader'[q].pc \notin {"expire", "pastdue"}
      BY <2>1
    <2>2. CASE reader'[q].pc \in {"expire", "pastdue"}
      <3> DEFINE s == reader[q].row
      <3>1. reader'[q] = reader[q] /\ s \in Grants \ edited' /\ s \notin edited
        BY <1>1, <1>2, <2>2 DEF IInv, ReadsAreKnown, RowsKeep
      <3>2. /\ reader'[q].pc = "expire" => DueToExpire(s)
            /\ reader'[q].pc = "pastdue" => DueToPay(s)
        BY <3>1 DEF IInv, MarksAreDue
      <3>3. (DueToExpire(s) => DueToExpire(reader[q].row)') /\ (DueToPay(s) => DueToPay(reader[q].row)')
        BY <3>1, MarksStayDue DEF DueToExpire, DueToPay
      <3> QED
        BY <3>2, <3>3
    <2> QED
      BY <2>1, <2>2
  <1> QED
    BY <1>2 DEF MarksAreDue

LEMMA MarkExpiredKeeps ==
  ASSUME IInv, NEW r \in Readers, MarkExpired(r)
  PROVE  IInv'
  <1> DEFINE x == reader[r].row
  <1>1. /\ x \in Grants /\ Granted(x) /\ subscription[x] \in Subscription
        /\ x \notin edited => DueToExpire(x)
    BY DEF MarkExpired, IInv, ReadsAreKnown, MarksAreDue, TypeOK
  <1>2. /\ UNCHANGED <<created, redeemed, now, grant, edit, sinceTrial, sinceRead, revived, edited>>
        /\ subscription' = [subscription EXCEPT ![x] = [@ EXCEPT !.status = "EXPIRED"]]
        /\ reader' = [reader EXCEPT ![r] = NoReader]
    BY DEF MarkExpired, historyVars
  <1> HIDE DEF x
  <1>3. MarkWrites("EXPIRED", x) /\ TypeOK'
    BY <1>1, <1>2, MarkWritesThis
  <1>4. RowsKeep /\ GrantsKeep
    BY <1>1, <1>2, <1>3 DEF MarkWrites, RowsKeep, GrantsKeep, Live, LiveStatus, IInv, TypeOK, Granted
  <1>5. RowsAreShaped'
    BY <1>2, <1>3 DEF MarkWrites, IInv, RowsAreShaped
  <1>6. MarksAreDue'
    <2>1. \A s \in Grants \ edited : /\ subscription'[s].status = "EXPIRED" => DueToExpire(s)'
                                     /\ subscription'[s].status = "PAST_DUE" => DueToPay(s)'
      BY <1>1, <1>2, <1>3, <1>4, MarksStayDue DEF MarkWrites, IInv, MarksAreDue
    <2> QED
      BY <1>2, <1>3, <1>4, <2>1, ReadersStayDue
  <1>7. /\ \A q \in Readers : reader'[q].pc # "idle" =>
             reader'[q].row \in Grants /\ Granted(reader'[q].row)
        /\ \A f \in Edits : edit'[f].pc = "write" =>
             edit'[f].row \in Grants /\ Granted(edit'[f].row) /\ edit'[f].end \in Nat
    BY <1>2 DEF NoReader, IInv, TypeOK, ReadsAreKnown
  <1> QED
    BY <1>3, <1>4, <1>5, <1>6, <1>7, RowsKeepRest DEF IInv

LEMMA MarkPastDueKeeps ==
  ASSUME IInv, NEW r \in Readers, MarkPastDue(r)
  PROVE  IInv'
  <1> DEFINE x == reader[r].row
  <1>1. /\ x \in Grants /\ Granted(x) /\ subscription[x] \in Subscription
        /\ x \notin edited => DueToPay(x)
    BY DEF MarkPastDue, IInv, ReadsAreKnown, MarksAreDue, TypeOK
  <1>2. /\ UNCHANGED <<created, redeemed, now, grant, edit, sinceTrial, sinceRead, edited>>
        /\ subscription' = [subscription EXCEPT ![x] = [@ EXCEPT !.status = "PAST_DUE"]]
        /\ reader' = [reader EXCEPT ![r] = NoReader]
        /\ revived' = IF Live(x) THEN revived ELSE revived \cup {x}
    BY DEF MarkPastDue, historyVars
  <1> HIDE DEF x
  <1>3. MarkWrites("PAST_DUE", x) /\ TypeOK'
    BY <1>1, <1>2, MarkWritesThis
  <1>4. RowsKeep /\ GrantsKeep
    <2>1. \A s \in Grants : s \notin edited' \cup revived' /\ Live(s)' => Live(s)
      BY <1>1, <1>2, <1>3 DEF MarkWrites, Live
    <2> QED
      BY <1>1, <1>2, <1>3, <2>1 DEF MarkWrites, RowsKeep, GrantsKeep, IInv, TypeOK, Granted
  <1>5. RowsAreShaped'
    BY <1>1, <1>2, <1>3 DEF MarkWrites, IInv, RowsAreShaped, DueToPay
  <1>6. MarksAreDue'
    <2>1. \A s \in Grants \ edited : /\ subscription'[s].status = "EXPIRED" => DueToExpire(s)'
                                     /\ subscription'[s].status = "PAST_DUE" => DueToPay(s)'
      BY <1>1, <1>2, <1>3, <1>4, MarksStayDue DEF MarkWrites, IInv, MarksAreDue
    <2> QED
      BY <1>2, <1>3, <1>4, <2>1, ReadersStayDue
  <1>7. /\ \A q \in Readers : reader'[q].pc # "idle" =>
             reader'[q].row \in Grants /\ Granted(reader'[q].row)
        /\ \A f \in Edits : edit'[f].pc = "write" =>
             edit'[f].row \in Grants /\ Granted(edit'[f].row) /\ edit'[f].end \in Nat
    BY <1>2 DEF NoReader, IInv, TypeOK, ReadsAreKnown
  <1> QED
    BY <1>3, <1>4, <1>5, <1>6, <1>7, RowsKeepRest DEF IInv

LEMMA WriteSubscriptionKeeps ==
  ASSUME IInv, NEW e \in Edits, NEW status \in {None, "ACTIVE", "CANCELLED"},
         NEW plan \in Plans \cup {None}, NEW extend \in BOOLEAN,
         WriteSubscription(e, status, plan, extend)
  PROVE  IInv'
  <1> DEFINE x == edit[e].row
  <1>1. /\ x \in Grants /\ Granted(x) /\ edit[e].end \in Nat /\ edit[e] \in Edit
        /\ subscription[x] \in Subscription
    BY DEF WriteSubscription, IInv, ReadsAreKnown, TypeOK
  <1>2. /\ UNCHANGED <<created, redeemed, now, grant, reader, sinceTrial, sinceRead, revived>>
        /\ edited' = edited \cup {x}
        /\ edit' = [edit EXCEPT ![e] = [@ EXCEPT !.pc = "done"]]
    BY DEF WriteSubscription
  <1>3. PICK row \in Subscription :
           /\ subscription' = [subscription EXCEPT ![x] = row]
           /\ row.createdAt = subscription[x].createdAt /\ row.status # "NONE"
    <2> DEFINE st == IF status = None THEN subscription[x].status ELSE status
               pl == IF plan = None THEN subscription[x].planId ELSE plan
               cp == IF extend THEN edit[e].end + 1 ELSE subscription[x].currentPeriodEnd
               row == [subscription[x] EXCEPT !.status = st, !.planId = pl, !.currentPeriodEnd = cp]
    <2>1. /\ st \in Status /\ st # "NONE" /\ pl \in Plans \cup {None} /\ cp \in Time
      BY <1>1 DEF Status, LiveStatus, Time, Subscription, Granted
    <2>2. subscription' = [subscription EXCEPT ![x] = row]
      BY DEF WriteSubscription
    <2> HIDE DEF st, pl, cp, x
    <2>3. /\ row \in Subscription /\ row.status = st
          /\ row.createdAt = subscription[x].createdAt
      BY <1>1, <2>1 DEF Subscription
    <2> QED
      BY <2>1, <2>2, <2>3
  <1> HIDE DEF x
  <1>4. \A s \in Grants : subscription'[s] = IF s = x THEN row ELSE subscription[s]
    BY <1>1, <1>3 DEF IInv, TypeOK
  <1>5. \A f \in Edits : f # e => edit'[f] = edit[f]
    BY <1>2 DEF IInv, TypeOK
  <1>6. edit'[e].pc = "done" /\ edit' \in [Edits -> Edit]
    <2>1. [edit[e] EXCEPT !.pc = "done"] \in Edit
      BY <1>1 DEF Edit
    <2> QED
      BY <1>1, <1>2, <2>1 DEF IInv, TypeOK, Edit
  <1>7. TypeOK'
    BY <1>1, <1>2, <1>3, <1>6 DEF IInv, TypeOK
  <1>8. RowsKeep /\ GrantsKeep
    BY <1>1, <1>2, <1>3, <1>4 DEF RowsKeep, GrantsKeep, Live, IInv, TypeOK, Granted
  <1>9. RowsAreShaped'
    BY <1>2, <1>4 DEF IInv, RowsAreShaped
  <1>10. MarksAreDue'
    <2>1. \A s \in Grants \ edited' : /\ subscription'[s].status = "EXPIRED" => DueToExpire(s)'
                                      /\ subscription'[s].status = "PAST_DUE" => DueToPay(s)'
      BY <1>2, <1>4, <1>7, <1>8, MarksStayDue DEF IInv, MarksAreDue
    <2> QED
      BY <1>2, <1>7, <1>8, <2>1, ReadersStayDue
  <1>11. /\ \A q \in Readers : reader'[q].pc # "idle" =>
             reader'[q].row \in Grants /\ Granted(reader'[q].row)
         /\ \A f \in Edits : edit'[f].pc = "write" =>
             edit'[f].row \in Grants /\ Granted(edit'[f].row) /\ edit'[f].end \in Nat
    BY <1>2, <1>5, <1>6 DEF IInv, ReadsAreKnown
  <1> QED
    BY <1>7, <1>8, <1>9, <1>10, <1>11, RowsKeepRest DEF IInv

-----------------------------------------------------------------------------
LEMMA StepKeeps == IInv /\ [Next]_vars => IInv'
  <1> SUFFICES ASSUME IInv, [Next]_vars PROVE IInv'
    OBVIOUS
  <1>1. ASSUME NEW g \in Grants, \/ \E c \in Codes : FindCode(g, c)
                                 \/ \E plan \in Plans : FindPlan(g, plan)
                                 \/ GrantStep(g)
        PROVE  IInv'
    BY <1>1, FindCodeKeeps, FindPlanKeeps, CheckTrialKeeps, LockCodeKeeps, ReadCurrentKeeps,
       CommitKeeps DEF GrantStep
  <1>2. ASSUME NEW r \in Readers, ReaderStep(r)
        PROVE  IInv'
    BY <1>2, ResolveKeeps, MarkExpiredKeeps, MarkPastDueKeeps DEF ReaderStep
  <1>3. ASSUME NEW e \in Edits, NEW s \in Grants, FindSubscription(e, s)
        PROVE  IInv'
    BY <1>3, FindSubscriptionKeeps
  <1>4. ASSUME NEW e \in Edits, NEW status \in {None, "ACTIVE", "CANCELLED"},
               NEW plan \in Plans \cup {None}, NEW extend \in BOOLEAN,
               WriteSubscription(e, status, plan, extend)
        PROVE  IInv'
    BY <1>4, WriteSubscriptionKeeps
  <1>5. CASE Tick
    BY <1>5, TickKeeps
  <1>6. CASE Crash
    BY <1>6, CrashKeeps
  <1>7. CASE UNCHANGED vars
    <2>1. UNCHANGED <<subscription, created, redeemed, now, grant, reader, edit,
                      sinceTrial, sinceRead, revived, edited>>
      BY <1>7 DEF vars
    <2>2. TypeOK' /\ RowsKeep /\ GrantsKeep
      BY <2>1 DEF IInv, TypeOK, RowsKeep, GrantsKeep, Live
    <2>3. /\ \A q \in Readers : reader'[q].pc # "idle" =>
               reader'[q].row \in Grants /\ Granted(reader'[q].row)
          /\ \A f \in Edits : edit'[f].pc = "write" =>
               edit'[f].row \in Grants /\ Granted(edit'[f].row) /\ edit'[f].end \in Nat
          /\ \A q \in Readers : reader'[q].row \in Grants \ edited =>
               /\ reader'[q].pc = "expire" => DueToExpire(reader'[q].row)
               /\ reader'[q].pc = "pastdue" => DueToPay(reader'[q].row)
      BY <2>1 DEF IInv, ReadsAreKnown, MarksAreDue
    <2> QED
      BY <2>1, <2>2, <2>3, QuietKeeps
  <1> QED
    BY <1>1, <1>2, <1>3, <1>4, <1>5, <1>6, <1>7 DEF Next

LEMMA InductiveInvariant == Spec => []IInv
  BY Initially, StepKeeps, PTL DEF Spec

-----------------------------------------------------------------------------
\* Every state of the grants, of resolve and of the edits is type-correct.
THEOREM TypeCorrect == Spec => []TypeOK
<1>1. IInv => TypeOK
  BY DEF IInv
<1> QED
  BY InductiveInvariant, <1>1, PTL

\* RedeemActivationCodeUseCase: the UPDATE that takes a code AVAILABLE takes it once, so a
\* code gives one subscription however many calls redeem it at a time.
THEOREM CodesAreRedeemedOnce == Spec => []CodeIsRedeemedOnce
<1>1. IInv => CodeIsRedeemedOnce
  BY DEF IInv
<1> QED
  BY InductiveInvariant, <1>1, PTL

\* RedeemActivationCodeUseCase, TRIAL_ALREADY_USED: two trials of an account were redeemed
\* by calls that overlapped.
THEOREM TrialsRepeatOnlyByOverlap == Spec => []SecondTrialOverlapped
<1>1. IInv => SecondTrialOverlapped
  BY DEF IInv
<1> QED
  BY InductiveInvariant, <1>1, PTL

\* SubscriptionPolicyService.resolve: the late writes of PAST_DUE and EXPIRED never end
\* access before the time that was paid for is over.
THEOREM AccessDoesNotEndEarly == Spec => []NotMarkedEarly
<1>1. IInv => NotMarkedEarly
  BY DEF IInv, MarksAreDue, DueToExpire, DueToPay, NotMarkedEarly
<1> QED
  BY InductiveInvariant, <1>1, PTL

-----------------------------------------------------------------------------
\* Each live row but the newest is followed by a grant that was overtaken, or is excused.
LEMMA LiveRowsAreCounted ==
  ASSUME IInv
  PROVE  OneLiveSubscription
  <1> DEFINE L == LiveRows \ Excused
             O == {g \in Grants : sinceRead[g] # {}}
             Newest == {s \in L : subscription[s].createdAt = created}
             Next1(s) == CHOOSE t \in Grants : subscription[t].createdAt = subscription[s].createdAt + 1
             f == [s \in L \ Newest |-> Next1(s)]
  <1>1. /\ IsFiniteSet(Grants) /\ created \in Nat
        /\ L \in SUBSET Grants /\ O \in SUBSET Grants /\ Newest \in SUBSET Grants
        /\ L \ Newest \in SUBSET Grants /\ Excused \in SUBSET Grants /\ LiveRows \in SUBSET Grants
    BY SubscriptionsAssumption DEF IInv, TypeOK, LiveRows, Excused
  <1>2. \A s \in L : Granted(s) /\ subscription[s].createdAt \in 1 .. created
    BY DEF IInv, RowsAreNumbered, LiveRows, Live, LiveStatus, Granted
  <1>3. ASSUME NEW s \in L \ Newest
        PROVE  /\ f[s] \in O /\ f[s] \in Grants
               /\ subscription[f[s]].createdAt = subscription[s].createdAt + 1
    <2>1. subscription[s].createdAt + 1 \in 1 .. created
      BY <1>1, <1>2
    <2>2. \E t \in Grants : subscription[t].createdAt = subscription[s].createdAt + 1
      BY <2>1 DEF IInv, RowsAreNumbered
    <2>3. f[s] \in Grants /\ subscription[f[s]].createdAt = subscription[s].createdAt + 1
      BY <2>2
    <2> QED
      BY <2>3 DEF IInv, LiveRowsAreFollowed
  <1>4. f \in Injection(L \ Newest, O)
    <2>1. f \in [L \ Newest -> O]
      BY <1>3
    <2>2. ASSUME NEW s \in L \ Newest, NEW t \in L \ Newest, f[s] = f[t]
          PROVE  s = t
      <3>1. /\ subscription[s].createdAt + 1 = subscription[t].createdAt + 1
            /\ subscription[s].createdAt \in Nat /\ subscription[t].createdAt \in Nat
        BY <1>2, <1>3, <2>2
      <3>2. subscription[s].createdAt = subscription[t].createdAt /\ s \in Grants /\ t \in Grants
        BY <1>1, <3>1
      <3>3. Granted(s)
        BY <1>2
      <3> QED
        BY <3>2, <3>3 DEF IInv, RowsAreNumbered
    <2> HIDE DEF f
    <2> QED
      BY <2>1, <2>2 DEF Injection, IsInjective
  <1>5. \A s, t \in Newest : s = t
    BY <1>1, <1>2 DEF IInv, RowsAreNumbered
  <1> HIDE DEF f, L, O, Newest
  <1>6. Cardinality(Newest) \in Nat /\ Cardinality(Newest) <= 1
    <2>1. CASE Newest = {}
      BY <2>1, FS_EmptySet
    <2>2. CASE Newest # {}
      <3>1. PICK s \in Newest : TRUE
        BY <2>2
      <3>2. Newest = {s}
        BY <1>5, <3>1
      <3>3. Cardinality({s}) = 1
        BY FS_Singleton
      <3> QED
        BY <3>2, <3>3
    <2> QED
      BY <2>1, <2>2
  <1>7. \A S \in SUBSET Grants : IsFiniteSet(S) /\ Cardinality(S) \in Nat
    BY <1>1, FS_Subset, FS_CardinalityType
  <1>8. Cardinality(L \ Newest) <= Cardinality(O)
    BY <1>1, <1>4, <1>7, FS_Injection
  <1>9. \A S, T \in SUBSET Grants : Cardinality(S \cup T) <= Cardinality(S) + Cardinality(T)
    <2> SUFFICES ASSUME NEW S \in SUBSET Grants, NEW T \in SUBSET Grants
                 PROVE  Cardinality(S \cup T) <= Cardinality(S) + Cardinality(T)
      OBVIOUS
    <2>1. Cardinality(S \cup T) = Cardinality(S) + Cardinality(T) - Cardinality(S \cap T)
      BY <1>7, FS_Union
    <2>2. S \cap T \in SUBSET Grants /\ S \cup T \in SUBSET Grants
      OBVIOUS
    <2> QED
      BY <1>7, <2>1, <2>2
  <1>10. /\ LiveRows \subseteq ((L \ Newest) \cup Newest) \cup Excused
         /\ (L \ Newest) \cup Newest \in SUBSET Grants
         /\ ((L \ Newest) \cup Newest) \cup Excused \in SUBSET Grants
    BY <1>1 DEF L
  <1>11. /\ Cardinality(LiveRows) <= Cardinality(((L \ Newest) \cup Newest) \cup Excused)
         /\ Cardinality(((L \ Newest) \cup Newest) \cup Excused)
              <= Cardinality((L \ Newest) \cup Newest) + Cardinality(Excused)
         /\ Cardinality((L \ Newest) \cup Newest) <= Cardinality(L \ Newest) + Cardinality(Newest)
    BY <1>1, <1>7, <1>9, <1>10, FS_Subset
  <1>12. /\ Cardinality(LiveRows) \in Nat /\ Cardinality(L \ Newest) \in Nat
         /\ Cardinality(Excused) \in Nat /\ Cardinality(O) \in Nat
         /\ Cardinality((L \ Newest) \cup Newest) \in Nat
         /\ Cardinality(((L \ Newest) \cup Newest) \cup Excused) \in Nat
    BY <1>1, <1>7, <1>10
  <1>13. Cardinality(LiveRows) <= 1 + Cardinality(O) + Cardinality(Excused)
    BY <1>6, <1>8, <1>11, <1>12
  <1> QED
    BY <1>13 DEF OneLiveSubscription, O, Excused

\* SubscriptionGrantService and resolve: an account has one live subscription, and one more
\* for each grant that was overtaken, each row that was revived and each row that was edited.
THEOREM LiveSubscriptionsAreExcused == Spec => []OneLiveSubscription
  BY InductiveInvariant, LiveRowsAreCounted, PTL

-----------------------------------------------------------------------------
\* Only the commit of a grant ends it as done.
LEMMA OnlyCommitEnds ==
  ASSUME IInv, [Next]_vars, NEW g \in Grants, At(g, "commit"), grant'[g].pc = "done"
  PROVE  CommitGrant(g)
  <1>1. ASSUME NEW h \in Grants, \/ \E c \in Codes : FindCode(h, c)
                                 \/ \E plan \in Plans : FindPlan(h, plan)
                                 \/ CheckTrial(h) \/ LockCode(h) \/ ReadCurrent(h)
        PROVE  FALSE
    <2>1. h # g
      BY <1>1 DEF FindCode, FindPlan, CheckTrial, LockCode, ReadCurrent, At
    <2>2. grant'[g] = grant[g]
      BY <1>1, <2>1 DEF FindCode, FindPlan, CheckTrial, LockCode, ReadCurrent, Fail, Goto, IInv, TypeOK
    <2> QED
      BY <2>2 DEF At
  <1>2. ASSUME NEW h \in Grants, CommitGrant(h), h # g
        PROVE  FALSE
    <2>1. grant'[g] = grant[g]
      BY <1>2, CommitWritesThis DEF CommitWrites
    <2> QED
      BY <2>1 DEF At
  <1>3. ASSUME UNCHANGED grant
        PROVE  FALSE
    BY <1>3 DEF At
  <1>4. ASSUME Crash
        PROVE  FALSE
    BY <1>4 DEF Crash, At, NoGrant
  <1>5. ASSUME NEW r \in Readers, ReaderStep(r)
        PROVE  UNCHANGED grant
    BY <1>5 DEF ReaderStep, Resolve, MarkExpired, MarkPastDue
  <1>6. ASSUME NEW e \in Edits, \/ \E s \in Grants : FindSubscription(e, s)
                                \/ \E status \in {None, "ACTIVE", "CANCELLED"}, plan \in Plans \cup {None},
                                      extend \in BOOLEAN : WriteSubscription(e, status, plan, extend)
        PROVE  UNCHANGED grant
    BY <1>6 DEF FindSubscription, WriteSubscription
  <1>7. Tick \/ UNCHANGED vars => UNCHANGED grant
    BY DEF Tick, calls, vars
  <1> QED
    BY <1>1, <1>2, <1>3, <1>4, <1>5, <1>6, <1>7 DEF Next, GrantStep

\* SubscriptionGrantService.execute: a grant that continues the current subscription adds its
\* whole length to the time that is left, unless grants have overlapped.
THEOREM PaidTimeIsAdded == Spec => PaidTimeIsKept
<1>1. ASSUME IInv, [Next]_vars, NEW g \in Grants, NEW s \in Current \ (revived \cup edited),
             At(g, "commit"), grant'[g].pc = "done",
             \A h \in Grants : sinceRead[h] = {},
             LengthOfGrant(g) # None,
             subscription[s].planId = grant[g].planId,
             subscription[s].currentPeriodEnd # None,
             subscription[s].currentPeriodEnd > now
      PROVE  subscription'[g].currentPeriodEnd
               >= subscription[s].currentPeriodEnd + LengthOfGrant(g)
  <2>1. CommitGrant(g)
    BY <1>1, OnlyCommitEnds
  <2>2. /\ s \in LiveRows \ Excused /\ s \in Grants \ Excused /\ Live(s) /\ s \in Grants \ edited
    BY <1>1 DEF Current, LiveRows, Excused
  <2>3. subscription[s].createdAt \in 1 .. created /\ created \in Nat
    BY <1>1, <2>2 DEF IInv, TypeOK, RowsAreNumbered, Live, LiveStatus, Granted
  <2>4. subscription[s].createdAt = created
    <3> SUFFICES ASSUME subscription[s].createdAt # created PROVE FALSE
      OBVIOUS
    <3>1. subscription[s].createdAt + 1 \in 1 .. created
      BY <2>3
    <3>2. PICK t \in Grants : subscription[t].createdAt = subscription[s].createdAt + 1
      BY <1>1, <3>1 DEF IInv, RowsAreNumbered
    <3> QED
      BY <1>1, <2>2, <3>2 DEF IInv, LiveRowsAreFollowed
  <2>5. grant[g].current = s
    BY <1>1, <2>2, <2>4 DEF IInv, NewestIsRead
  <2>6. grant[g].end = subscription[s].currentPeriodEnd + LengthOfGrant(g)
    BY <1>1, <2>2, <2>5 DEF IInv, EndsAreAdded
  <2>7. subscription'[g].currentPeriodEnd = grant[g].end
    BY <1>1, <2>1, CommitWritesThis DEF CommitWrites
  <2>8. subscription[s].currentPeriodEnd \in Nat /\ LengthOfGrant(g) \in Nat
    BY <1>1, <2>2, EndIsTime DEF IInv, TypeOK, Subscription, Time
  <2> QED
    BY <2>6, <2>7, <2>8
<1>2. IInv /\ [Next]_vars =>
        [\A g \in Grants, s \in Current \ (revived \cup edited) :
          (/\ At(g, "commit") /\ grant'[g].pc = "done"
           /\ \A h \in Grants : sinceRead[h] = {}
           /\ LengthOfGrant(g) # None
           /\ subscription[s].planId = grant[g].planId
           /\ subscription[s].currentPeriodEnd # None
           /\ subscription[s].currentPeriodEnd > now)
          => subscription'[g].currentPeriodEnd
               >= subscription[s].currentPeriodEnd + LengthOfGrant(g)]_vars
  BY <1>1
<1> QED
  BY InductiveInvariant, <1>2, PTL DEF Spec, PaidTimeIsKept

=============================================================================
