------------------------ MODULE UsageSessionsProofs ------------------------
(***************************************************************************)
(* Proofs about UsageSessions, for every set of users, devices, accounts   *)
(* and calls.  The invariants TLC checks are not inductive: they speak of  *)
(* the committed rows, and a commit writes what the call remembers.  The   *)
(* conjuncts below say what a call may remember at each of its steps.      *)
(***************************************************************************)
EXTENDS UsageSessions, TLAPS

HasRow(r) == acquire[r].pc \in {"emit", "done"}

\* A call names a device of its person from the first read on, and a row exists
\* exactly when the call has committed.
CallsAreTyped ==
    \A r \in Requests :
        /\ InFlight(r) \/ HasRow(r) =>
              UserOf(r) \in Users /\ DeviceOf(r) \in Devices /\ OwnerOf[DeviceOf(r)] = UserOf(r)
        /\ HasRow(r) <=> usage[r] # "NONE"

\* While a transaction is open, an ACTIVE row of the person was seen by its UPDATE or
\* has been committed since.
SnapshotIsComplete ==
    \A r, s \in Requests :
        acquire[r].pc = "commit" /\ Active(s) /\ UserOf(s) = UserOf(r)
            => s \in acquire[r].snapshot \cup missed[r]

\* The rows a transaction is about to revoke are the person's own.
SnapshotIsPersonal ==
    \A r, s \in Requests :
        acquire[r].pc = "commit" /\ s \in acquire[r].snapshot
            => HasRow(s) /\ UserOf(s) = UserOf(r)

\* A call on a device or an account that is no longer ACTIVE has been overtaken.
CallsAreOvertaken ==
    \A r \in Requests :
        /\ InFlight(r) /\ DeviceOf(r) \notin activeDevices => r \in deviceLost
        /\ PolicyPassed(r) /\ accountStatus[AccountOf[DeviceOf(r)]] # "ACTIVE" => r \in accountLost

\* What a call remembers of the rows it will tell about.
PreviousAreLosers ==
    \A r, s \in Requests :
        s \in acquire[r].previous =>
            /\ acquire[r].pc \in {"update", "commit", "emit"}
            /\ HasRow(s)
            /\ UserOf(s) = UserOf(r)
            /\ DeviceOf(s) # DeviceOf(r)
            /\ acquire[r].pc = "commit" /\ Active(s) => s \in acquire[r].snapshot
            /\ acquire[r].pc = "emit" => ~Active(s)

\* Both ends of an event are rows, and rows keep their person and device.
ToldAreRows == \A p \in notified : HasRow(p[1]) /\ HasRow(p[2])

IInv ==
    /\ TypeOK
    /\ CallsAreTyped
    /\ SnapshotIsComplete
    /\ CallsAreOvertaken
    /\ PreviousAreLosers
    /\ ToldAreRows
    /\ OnlyOverlapSharesTurn
    /\ RevokedDeviceWasOvertaken
    /\ SuspendedAccountIsSwept
    /\ OnlyReplacedDevicesAreTold
    /\ SnapshotIsPersonal

-----------------------------------------------------------------------------
\* Types.

LEMMA CallType ==
  ASSUME NEW pc \in Steps, NEW u \in Users \cup {None}, NEW d \in Devices \cup {None}
  PROVE  CallOf(u, d, pc) \in Call /\ NoCall(pc) \in Call
  BY DEF CallOf, NoCall, Call

LEMMA StepType ==
  ASSUME NEW c \in Call, NEW pc \in Steps, NEW rows \in SUBSET Requests
  PROVE  /\ [c EXCEPT !.pc = pc] \in Call
         /\ [c EXCEPT !.pc = pc, !.previous = rows] \in Call
         /\ [c EXCEPT !.pc = pc, !.snapshot = rows] \in Call
  BY DEF Call

\* A call is replaced by another one.
LEMMA UpdateType ==
  ASSUME TypeOK, NEW r \in Requests, NEW c \in Call
  PROVE  [acquire EXCEPT ![r] = c] \in [Requests -> Call]
  BY DEF TypeOK

LEMMA RevokedType ==
  ASSUME TypeOK, NEW rows
  PROVE  Revoked(rows) \in [Requests -> UsageStatus]
  BY DEF TypeOK, Revoked, UsageStatus

LEMMA InitType == Init => TypeOK
  <1>1. NoCall("idle") \in Call
    BY CallType DEF Steps
  <1>2. QED
    BY <1>1, UsageAssumption DEF Init, TypeOK, AccountStatus, UsageStatus

LEMMA NextType == TypeOK /\ [Next]_vars => TypeOK'
  <1> SUFFICES ASSUME TypeOK, [Next]_vars PROVE TypeOK'
    OBVIOUS
  <1>0. NoCall("failed") \in Call 
    BY CallType DEF Steps
  <1>1. ASSUME NEW r \in Requests, NEW u \in Users, NEW d \in Devices, FindDevice(r, u, d)
        PROVE  TypeOK'
    <2>1. CallOf(u, d, "policy") \in Call
      BY CallType DEF Steps
    <2>2. acquire' \in [Requests -> Call]
      BY <1>0, <1>1, <2>1 DEF FindDevice, Fail, TypeOK
    <2>3. QED
      BY <1>1, <2>2 DEF TypeOK, FindDevice, rowVars, historyVars
  <1>2. ASSUME NEW r \in Requests, ResolvePolicy(r) PROVE TypeOK'
    <2>0. acquire[r] \in Call /\ {} \in SUBSET Requests
      BY DEF TypeOK
    <2>1. acquire' \in [Requests -> Call]
      <3>1. CASE Goto(r, "read")
        BY <3>1, StepType, UpdateType, <2>0 DEF Goto, Steps
      <3>2. CASE Fail(r)
        BY <3>2, <1>0 DEF Fail, TypeOK
      <3>3. QED
        BY <1>2, <3>1, <3>2 DEF ResolvePolicy
    <2>2. QED
      BY <1>2, <2>1 DEF TypeOK, ResolvePolicy, rowVars, historyVars
  <1>3. ASSUME NEW r \in Requests, ReadPrevious(r) PROVE TypeOK'
    <2>0. acquire[r] \in Call /\ {} \in SUBSET Requests
      BY DEF TypeOK
    <2>1. {s \in ActiveOf(UserOf(r)) \cap fresh : DeviceOf(s) # DeviceOf(r)} \in SUBSET Requests
      BY DEF ActiveOf
    <2>2. acquire' \in [Requests -> Call]
      BY <1>3, <2>0, <2>1, StepType, UpdateType DEF ReadPrevious, Steps
    <2>3. QED
      BY <1>3, <2>2 DEF TypeOK, ReadPrevious, rowVars, historyVars
  <1>4. ASSUME NEW r \in Requests, UpdatePrevious(r) PROVE TypeOK'
    <2>0. acquire[r] \in Call /\ {} \in SUBSET Requests
      BY DEF TypeOK
    <2>1. ActiveOf(UserOf(r)) \in SUBSET Requests
      BY DEF ActiveOf
    <2>2. acquire' \in [Requests -> Call]
      BY <1>4, <2>0, <2>1, StepType, UpdateType DEF UpdatePrevious, Steps
    <2>3. QED
      BY <1>4, <2>2 DEF TypeOK, UpdatePrevious, rowVars, historyVars
  <1>5. ASSUME NEW r \in Requests, CommitAcquire(r) PROVE TypeOK'
    <2>0. acquire[r] \in Call /\ {} \in SUBSET Requests
      BY DEF TypeOK
    <2>1. acquire' \in [Requests -> Call]
      BY <1>5, <2>0, StepType, UpdateType DEF CommitAcquire, Steps
    <2>2. usage' \in [Requests -> UsageStatus]
      BY <1>5, RevokedType DEF CommitAcquire, UsageStatus
    <2>3. missed' \in [Requests -> SUBSET Requests]
      BY <1>5 DEF CommitAcquire, TypeOK
    <2>4. QED
      BY <1>5, <2>1, <2>2, <2>3 DEF TypeOK, CommitAcquire
  <1>6. ASSUME NEW r \in Requests, EmitRevoked(r) PROVE TypeOK'
    <2>0. acquire[r] \in Call /\ {} \in SUBSET Requests
      BY DEF TypeOK
    <2>1. acquire' \in [Requests -> Call]
      BY <1>6, <2>0, StepType, UpdateType DEF EmitRevoked, Steps
    <2>2. acquire[r].previous \subseteq Requests
      BY DEF TypeOK, Call
    <2>3. QED
      BY <1>6, <2>1, <2>2 DEF TypeOK, EmitRevoked, rowVars, historyVars
  <1>7. ASSUME NEW s \in Requests, NEW u \in Users, Heartbeat(u, s) \/ Release(u, s)
        PROVE  TypeOK'
    BY <1>7 DEF TypeOK, Heartbeat, Release, UsageStatus, historyVars
  <1>8. ASSUME NEW s \in Requests, HeartbeatLapses(s) PROVE TypeOK'
    BY <1>8 DEF TypeOK, HeartbeatLapses, historyVars
  <1>9. ASSUME NEW d \in Devices, RegisterDevice(d) \/ RevokeDevice(d) PROVE TypeOK'
    BY <1>9, RevokedType DEF TypeOK, RegisterDevice, RevokeDevice, Overtaken, historyVars
  <1>10. ASSUME NEW u \in Users, NEW ds \in SUBSET Devices, RemoveMember(u, ds) PROVE TypeOK'
    BY <1>10, RevokedType DEF TypeOK, RemoveMember, Overtaken
  <1>11. ASSUME NEW a \in Accounts, NEW status \in AccountStatus, SetAccountStatus(a, status)
         PROVE  TypeOK'
    BY <1>11 DEF TypeOK, SetAccountStatus
  <1>12. ASSUME NEW a \in Accounts, SweepAccount(a) PROVE TypeOK'
    BY <1>12, RevokedType DEF TypeOK, SweepAccount, historyVars
  <1>13. CASE Crash
    <2>1. \A r \in Requests : [acquire[r] EXCEPT !.pc = "done", !.previous = {}] \in Call
      BY StepType DEF TypeOK, Steps
    <2>2. acquire' \in [Requests -> Call]
      BY <1>0, <1>13, <2>1 DEF Crash, TypeOK
    <2>3. QED
      BY <1>13, <2>2 DEF TypeOK, Crash, ActiveIn, rowVars
  <1>14. CASE UNCHANGED vars
    BY <1>14 DEF TypeOK, vars
  <1>15. QED
    BY <1>1, <1>2, <1>3, <1>4, <1>5, <1>6, <1>7, <1>8, <1>9, <1>10, <1>11, <1>12, <1>13, <1>14
    DEF Next, AcquireStep

\* Every variable keeps the type its column or its local has in the code.
THEOREM TypeCorrect == Spec => []TypeOK
  BY InitType, NextType, PTL DEF Spec

-----------------------------------------------------------------------------
\* Preservation of the inductive invariant, one lemma for each action.  In the actions
\* of a call, Frame says what becomes of the calls; the rest follows from it.

LEMMA FindDeviceKeepsInv ==
  ASSUME IInv, NEW r \in Requests, NEW u \in Users, NEW d \in Devices, FindDevice(r, u, d), TypeOK'
  PROVE  IInv'
  <1>1. TypeOK
    BY DEF IInv
  <1>2. /\ \A q \in Requests : q # r => acquire'[q] = acquire[q]
        /\ acquire[r].pc = "idle"
        /\ acquire'[r].previous = {}
        /\ \/ /\ acquire'[r].pc = "policy" /\ acquire'[r].userId = u /\ acquire'[r].deviceId = d
              /\ d \in activeDevices /\ OwnerOf[d] = u
           \/ acquire'[r].pc = "failed"
        /\ UNCHANGED <<activeDevices, accountStatus, usage, fresh, sweeping, notified,
                     missed, deviceLost, accountLost>>
    BY <1>1 DEF TypeOK, FindDevice, Fail, CallOf, NoCall, rowVars, historyVars
  <1>3. CallsAreTyped'
    BY <1>1, <1>2, UsageAssumption DEF IInv, TypeOK, HasRow, InFlight, PolicyPassed, Active, UserOf, DeviceOf, CallsAreTyped
  <1>4. SnapshotIsComplete'
    BY <1>1, <1>2, UsageAssumption DEF IInv, TypeOK, HasRow, InFlight, PolicyPassed, Active, UserOf, DeviceOf, SnapshotIsComplete, CallsAreTyped
  <1>5. CallsAreOvertaken'
    BY <1>1, <1>2, UsageAssumption DEF IInv, TypeOK, HasRow, InFlight, PolicyPassed, Active, UserOf, DeviceOf, CallsAreOvertaken, CallsAreTyped
  <1>6. PreviousAreLosers'
    BY <1>1, <1>2, UsageAssumption DEF IInv, TypeOK, HasRow, InFlight, PolicyPassed, Active, UserOf, DeviceOf, PreviousAreLosers, CallsAreTyped, SnapshotIsComplete
  <1>7. ToldAreRows'
    BY <1>1, <1>2, UsageAssumption DEF IInv, TypeOK, HasRow, InFlight, PolicyPassed, Active, UserOf, DeviceOf, ToldAreRows, CallsAreTyped, PreviousAreLosers
  <1>8. OnlyOverlapSharesTurn'
    BY <1>1, <1>2, UsageAssumption DEF IInv, TypeOK, HasRow, InFlight, PolicyPassed, Active, UserOf, DeviceOf, OnlyOverlapSharesTurn, CallsAreTyped, SnapshotIsComplete
  <1>9. RevokedDeviceWasOvertaken'
    BY <1>1, <1>2, UsageAssumption DEF IInv, TypeOK, HasRow, InFlight, PolicyPassed, Active, UserOf, DeviceOf, RevokedDeviceWasOvertaken, CallsAreTyped, CallsAreOvertaken
  <1>10. SuspendedAccountIsSwept'
    BY <1>1, <1>2, UsageAssumption DEF IInv, TypeOK, HasRow, InFlight, PolicyPassed, Active, UserOf, DeviceOf, SuspendedAccountIsSwept, CallsAreTyped, CallsAreOvertaken
  <1>11. OnlyReplacedDevicesAreTold'
    BY <1>1, <1>2, UsageAssumption DEF IInv, TypeOK, HasRow, InFlight, PolicyPassed, Active, UserOf, DeviceOf, OnlyReplacedDevicesAreTold, CallsAreTyped, PreviousAreLosers, ToldAreRows
  <1>12. SnapshotIsPersonal'
    BY <1>1, <1>2, UsageAssumption DEF IInv, TypeOK, HasRow, InFlight, PolicyPassed, Active, UserOf, DeviceOf, SnapshotIsPersonal, CallsAreTyped
  <1>13. QED
    BY <1>3, <1>4, <1>5, <1>6, <1>7, <1>8, <1>9, <1>10, <1>11, <1>12 DEF IInv

LEMMA ResolvePolicyKeepsInv ==
  ASSUME IInv, NEW r \in Requests, ResolvePolicy(r), TypeOK'
  PROVE  IInv'
  <1>1. TypeOK
    BY DEF IInv
  <1>2. /\ \A q \in Requests : q # r => acquire'[q] = acquire[q]
        /\ acquire[r].pc = "policy"
        /\ \/ /\ acquire'[r].pc = "read"
              /\ accountStatus[AccountOf[DeviceOf(r)]] = "ACTIVE"
              /\ acquire'[r].userId = acquire[r].userId
              /\ acquire'[r].deviceId = acquire[r].deviceId
              /\ acquire'[r].previous = acquire[r].previous
           \/ acquire'[r].pc = "failed" /\ acquire'[r].previous = {}
        /\ UNCHANGED <<activeDevices, accountStatus, usage, fresh, sweeping, notified,
                     missed, deviceLost, accountLost>>
    BY <1>1 DEF TypeOK, Call, ResolvePolicy, Goto, Fail, CallOf, NoCall, rowVars, historyVars
  <1>3. CallsAreTyped'
    BY <1>1, <1>2, UsageAssumption DEF IInv, TypeOK, HasRow, InFlight, PolicyPassed, Active, UserOf, DeviceOf, CallsAreTyped
  <1>4. SnapshotIsComplete'
    BY <1>1, <1>2, UsageAssumption DEF IInv, TypeOK, HasRow, InFlight, PolicyPassed, Active, UserOf, DeviceOf, SnapshotIsComplete, CallsAreTyped
  <1>5. CallsAreOvertaken'
    BY <1>1, <1>2, UsageAssumption DEF IInv, TypeOK, HasRow, InFlight, PolicyPassed, Active, UserOf, DeviceOf, CallsAreOvertaken, CallsAreTyped
  <1>6. PreviousAreLosers'
    BY <1>1, <1>2, UsageAssumption DEF IInv, TypeOK, HasRow, InFlight, PolicyPassed, Active, UserOf, DeviceOf, PreviousAreLosers, CallsAreTyped, SnapshotIsComplete
  <1>7. ToldAreRows'
    BY <1>1, <1>2, UsageAssumption DEF IInv, TypeOK, HasRow, InFlight, PolicyPassed, Active, UserOf, DeviceOf, ToldAreRows, CallsAreTyped, PreviousAreLosers
  <1>8. OnlyOverlapSharesTurn'
    BY <1>1, <1>2, UsageAssumption DEF IInv, TypeOK, HasRow, InFlight, PolicyPassed, Active, UserOf, DeviceOf, OnlyOverlapSharesTurn, CallsAreTyped, SnapshotIsComplete
  <1>9. RevokedDeviceWasOvertaken'
    BY <1>1, <1>2, UsageAssumption DEF IInv, TypeOK, HasRow, InFlight, PolicyPassed, Active, UserOf, DeviceOf, RevokedDeviceWasOvertaken, CallsAreTyped, CallsAreOvertaken
  <1>10. SuspendedAccountIsSwept'
    BY <1>1, <1>2, UsageAssumption DEF IInv, TypeOK, HasRow, InFlight, PolicyPassed, Active, UserOf, DeviceOf, SuspendedAccountIsSwept, CallsAreTyped, CallsAreOvertaken
  <1>11. OnlyReplacedDevicesAreTold'
    BY <1>1, <1>2, UsageAssumption DEF IInv, TypeOK, HasRow, InFlight, PolicyPassed, Active, UserOf, DeviceOf, OnlyReplacedDevicesAreTold, CallsAreTyped, PreviousAreLosers, ToldAreRows
  <1>12. SnapshotIsPersonal'
    BY <1>1, <1>2, UsageAssumption DEF IInv, TypeOK, HasRow, InFlight, PolicyPassed, Active, UserOf, DeviceOf, SnapshotIsPersonal, CallsAreTyped
  <1>13. QED
    BY <1>3, <1>4, <1>5, <1>6, <1>7, <1>8, <1>9, <1>10, <1>11, <1>12 DEF IInv

LEMMA ReadPreviousKeepsInv ==
  ASSUME IInv, NEW r \in Requests, ReadPrevious(r), TypeOK'
  PROVE  IInv'
  <1> DEFINE P == {s \in ActiveOf(UserOf(r)) \cap fresh : DeviceOf(s) # DeviceOf(r)}
  <1>p. \A s \in P : s \in Requests /\ Active(s) /\ UserOf(s) = UserOf(r) /\ DeviceOf(s) # DeviceOf(r)
    BY DEF ActiveOf
  <1>q. /\ acquire[r].pc = "read"
        /\ acquire' = [acquire EXCEPT ![r] = [@ EXCEPT !.pc = "update", !.previous = P]]
        /\ UNCHANGED <<activeDevices, accountStatus, usage, fresh, sweeping, notified,
                     missed, deviceLost, accountLost>>
    BY DEF ReadPrevious, rowVars, historyVars
  <1> HIDE DEF P
  <1>1. TypeOK
    BY DEF IInv
  <1>2. /\ \A q \in Requests : q # r => acquire'[q] = acquire[q]
        /\ acquire'[r].pc = "update"
        /\ acquire'[r].userId = acquire[r].userId
        /\ acquire'[r].deviceId = acquire[r].deviceId
        /\ acquire'[r].previous = P
        /\ UNCHANGED <<activeDevices, accountStatus, usage, fresh, sweeping, notified,
                     missed, deviceLost, accountLost>>
    BY <1>1, <1>q DEF TypeOK, Call
  <1>3. CallsAreTyped'
    BY <1>1, <1>2, <1>p, <1>q, UsageAssumption DEF IInv, TypeOK, HasRow, InFlight, PolicyPassed, Active, UserOf, DeviceOf, CallsAreTyped
  <1>4. SnapshotIsComplete'
    BY <1>1, <1>2, <1>p, <1>q, UsageAssumption DEF IInv, TypeOK, HasRow, InFlight, PolicyPassed, Active, UserOf, DeviceOf, SnapshotIsComplete, CallsAreTyped
  <1>5. CallsAreOvertaken'
    BY <1>1, <1>2, <1>p, <1>q, UsageAssumption DEF IInv, TypeOK, HasRow, InFlight, PolicyPassed, Active, UserOf, DeviceOf, CallsAreOvertaken, CallsAreTyped
  <1>6. PreviousAreLosers'
    BY <1>1, <1>2, <1>p, <1>q, UsageAssumption DEF IInv, TypeOK, HasRow, InFlight, PolicyPassed, Active, UserOf, DeviceOf, PreviousAreLosers, CallsAreTyped, SnapshotIsComplete
  <1>7. ToldAreRows'
    BY <1>1, <1>2, <1>p, <1>q, UsageAssumption DEF IInv, TypeOK, HasRow, InFlight, PolicyPassed, Active, UserOf, DeviceOf, ToldAreRows, CallsAreTyped, PreviousAreLosers
  <1>8. OnlyOverlapSharesTurn'
    BY <1>1, <1>2, <1>p, <1>q, UsageAssumption DEF IInv, TypeOK, HasRow, InFlight, PolicyPassed, Active, UserOf, DeviceOf, OnlyOverlapSharesTurn, CallsAreTyped, SnapshotIsComplete
  <1>9. RevokedDeviceWasOvertaken'
    BY <1>1, <1>2, <1>p, <1>q, UsageAssumption DEF IInv, TypeOK, HasRow, InFlight, PolicyPassed, Active, UserOf, DeviceOf, RevokedDeviceWasOvertaken, CallsAreTyped, CallsAreOvertaken
  <1>10. SuspendedAccountIsSwept'
    BY <1>1, <1>2, <1>p, <1>q, UsageAssumption DEF IInv, TypeOK, HasRow, InFlight, PolicyPassed, Active, UserOf, DeviceOf, SuspendedAccountIsSwept, CallsAreTyped, CallsAreOvertaken
  <1>11. OnlyReplacedDevicesAreTold'
    BY <1>1, <1>2, <1>p, <1>q, UsageAssumption DEF IInv, TypeOK, HasRow, InFlight, PolicyPassed, Active, UserOf, DeviceOf, OnlyReplacedDevicesAreTold, CallsAreTyped, PreviousAreLosers, ToldAreRows
  <1>12. SnapshotIsPersonal'
    BY <1>1, <1>2, <1>p, <1>q, UsageAssumption DEF IInv, TypeOK, HasRow, InFlight, PolicyPassed, Active, UserOf, DeviceOf, SnapshotIsPersonal, CallsAreTyped
  <1>13. QED
    BY <1>3, <1>4, <1>5, <1>6, <1>7, <1>8, <1>9, <1>10, <1>11, <1>12 DEF IInv

LEMMA UpdatePreviousKeepsInv ==
  ASSUME IInv, NEW r \in Requests, UpdatePrevious(r), TypeOK'
  PROVE  IInv'
  <1> DEFINE S == ActiveOf(UserOf(r))
  <1>1. TypeOK
    BY DEF IInv
  <1>2. /\ \A q \in Requests : q # r => acquire'[q] = acquire[q]
        /\ acquire[r].pc = "update" /\ acquire'[r].pc = "commit"
        /\ acquire'[r].userId = acquire[r].userId
        /\ acquire'[r].deviceId = acquire[r].deviceId
        /\ acquire'[r].previous = acquire[r].previous
        /\ acquire'[r].snapshot = S
        /\ UNCHANGED <<activeDevices, accountStatus, usage, fresh, sweeping, notified,
                     missed, deviceLost, accountLost>>
    BY <1>1 DEF TypeOK, Call, UpdatePrevious, rowVars, historyVars
  <1>3. \A s \in Requests : s \in S <=> Active(s) /\ UserOf(s) = UserOf(r)
    BY <1>1 DEF ActiveOf
  <1> HIDE DEF S
  <1>4. CallsAreTyped'
    BY <1>1, <1>2, <1>3, UsageAssumption DEF IInv, TypeOK, HasRow, InFlight, PolicyPassed, Active, UserOf, DeviceOf, CallsAreTyped
  <1>5. SnapshotIsComplete'
    BY <1>1, <1>2, <1>3, UsageAssumption DEF IInv, TypeOK, HasRow, InFlight, PolicyPassed, Active, UserOf, DeviceOf, SnapshotIsComplete, CallsAreTyped
  <1>6. CallsAreOvertaken'
    BY <1>1, <1>2, <1>3, UsageAssumption DEF IInv, TypeOK, HasRow, InFlight, PolicyPassed, Active, UserOf, DeviceOf, CallsAreOvertaken, CallsAreTyped
  <1>7. PreviousAreLosers'
    BY <1>1, <1>2, <1>3, UsageAssumption DEF IInv, TypeOK, HasRow, InFlight, PolicyPassed, Active, UserOf, DeviceOf, PreviousAreLosers, CallsAreTyped, SnapshotIsComplete
  <1>8. ToldAreRows'
    BY <1>1, <1>2, <1>3, UsageAssumption DEF IInv, TypeOK, HasRow, InFlight, PolicyPassed, Active, UserOf, DeviceOf, ToldAreRows, CallsAreTyped, PreviousAreLosers
  <1>9. OnlyOverlapSharesTurn'
    BY <1>1, <1>2, <1>3, UsageAssumption DEF IInv, TypeOK, HasRow, InFlight, PolicyPassed, Active, UserOf, DeviceOf, OnlyOverlapSharesTurn, CallsAreTyped, SnapshotIsComplete
  <1>10. RevokedDeviceWasOvertaken'
    BY <1>1, <1>2, <1>3, UsageAssumption DEF IInv, TypeOK, HasRow, InFlight, PolicyPassed, Active, UserOf, DeviceOf, RevokedDeviceWasOvertaken, CallsAreTyped, CallsAreOvertaken
  <1>11. SuspendedAccountIsSwept'
    BY <1>1, <1>2, <1>3, UsageAssumption DEF IInv, TypeOK, HasRow, InFlight, PolicyPassed, Active, UserOf, DeviceOf, SuspendedAccountIsSwept, CallsAreTyped, CallsAreOvertaken
  <1>12. OnlyReplacedDevicesAreTold'
    BY <1>1, <1>2, <1>3, UsageAssumption DEF IInv, TypeOK, HasRow, InFlight, PolicyPassed, Active, UserOf, DeviceOf, OnlyReplacedDevicesAreTold, CallsAreTyped, PreviousAreLosers, ToldAreRows
  <1>13. SnapshotIsPersonal'
    BY <1>1, <1>2, <1>3, UsageAssumption DEF IInv, TypeOK, HasRow, InFlight, PolicyPassed, Active, UserOf, DeviceOf, SnapshotIsPersonal, CallsAreTyped
  <1>14. QED
    BY <1>4, <1>5, <1>6, <1>7, <1>8, <1>9, <1>10, <1>11, <1>12, <1>13 DEF IInv

LEMMA CommitAcquireKeepsInv ==
  ASSUME IInv, NEW r \in Requests, CommitAcquire(r), TypeOK'
  PROVE  IInv'
  <1>1. TypeOK
    BY DEF IInv
  <1>2. /\ \A q \in Requests : q # r => acquire'[q] = acquire[q]
        /\ acquire[r].pc = "commit" /\ acquire'[r].pc = "emit"
        /\ acquire'[r].userId = acquire[r].userId
        /\ acquire'[r].deviceId = acquire[r].deviceId
        /\ acquire'[r].previous = acquire[r].previous
        /\ usage'[r] = "ACTIVE"
        /\ \A s \in Requests : s # r =>
              usage'[s] = IF s \in acquire[r].snapshot /\ Active(s) THEN "REVOKED" ELSE usage[s]
        /\ \A q \in Requests : missed'[q] =
              IF q # r /\ acquire[q].pc = "commit" /\ UserOf(q) = UserOf(r)
              THEN missed[q] \cup {r} ELSE missed[q]
        /\ UNCHANGED <<activeDevices, accountStatus, sweeping, notified, deviceLost, accountLost>>
    BY <1>1 DEF TypeOK, Call, CommitAcquire, Revoked
  <1>3. CallsAreTyped'
    BY <1>1, <1>2, UsageAssumption DEF IInv, TypeOK, HasRow, InFlight, PolicyPassed, Active, UserOf, DeviceOf, CallsAreTyped
  <1>4. SnapshotIsComplete'
    BY <1>1, <1>2, UsageAssumption DEF IInv, TypeOK, HasRow, InFlight, PolicyPassed, Active, UserOf, DeviceOf, SnapshotIsComplete, CallsAreTyped
  <1>5. CallsAreOvertaken'
    BY <1>1, <1>2, UsageAssumption DEF IInv, TypeOK, HasRow, InFlight, PolicyPassed, Active, UserOf, DeviceOf, CallsAreOvertaken, CallsAreTyped
  <1>6. PreviousAreLosers'
    BY <1>1, <1>2, UsageAssumption DEF IInv, TypeOK, HasRow, InFlight, PolicyPassed, Active, UserOf, DeviceOf, PreviousAreLosers, CallsAreTyped, SnapshotIsComplete
  <1>7. ToldAreRows'
    BY <1>1, <1>2, UsageAssumption DEF IInv, TypeOK, HasRow, InFlight, PolicyPassed, Active, UserOf, DeviceOf, ToldAreRows, CallsAreTyped, PreviousAreLosers
  <1>8. OnlyOverlapSharesTurn'
    BY <1>1, <1>2, UsageAssumption DEF IInv, TypeOK, HasRow, InFlight, PolicyPassed, Active, UserOf, DeviceOf, OnlyOverlapSharesTurn, CallsAreTyped, SnapshotIsComplete
  <1>9. RevokedDeviceWasOvertaken'
    BY <1>1, <1>2, UsageAssumption DEF IInv, TypeOK, HasRow, InFlight, PolicyPassed, Active, UserOf, DeviceOf, RevokedDeviceWasOvertaken, CallsAreTyped, CallsAreOvertaken
  <1>10. SuspendedAccountIsSwept'
    BY <1>1, <1>2, UsageAssumption DEF IInv, TypeOK, HasRow, InFlight, PolicyPassed, Active, UserOf, DeviceOf, SuspendedAccountIsSwept, CallsAreTyped, CallsAreOvertaken
  <1>11. OnlyReplacedDevicesAreTold'
    BY <1>1, <1>2, UsageAssumption DEF IInv, TypeOK, HasRow, InFlight, PolicyPassed, Active, UserOf, DeviceOf, OnlyReplacedDevicesAreTold, CallsAreTyped, PreviousAreLosers, ToldAreRows
  <1>12. SnapshotIsPersonal'
    BY <1>1, <1>2, UsageAssumption DEF IInv, TypeOK, HasRow, InFlight, PolicyPassed, Active, UserOf, DeviceOf, SnapshotIsPersonal, CallsAreTyped
  <1>13. QED
    BY <1>3, <1>4, <1>5, <1>6, <1>7, <1>8, <1>9, <1>10, <1>11, <1>12 DEF IInv

LEMMA EmitRevokedKeepsInv ==
  ASSUME IInv, NEW r \in Requests, EmitRevoked(r), TypeOK'
  PROVE  IInv'
  <1>p. \A p \in notified' : p \in notified \/ (p[1] = r /\ p[2] \in acquire[r].previous)
    <2>1. notified' = notified \cup ({r} \X acquire[r].previous)
      BY DEF EmitRevoked
    <2> DEFINE told == {r} \X acquire[r].previous
    <2>2. \A p \in told : p[1] = r /\ p[2] \in acquire[r].previous
      OBVIOUS
    <2> HIDE DEF told
    <2>3. \A p \in notified' : p \in notified \/ p \in told
      BY <2>1 DEF told
    <2>4. QED
      BY <2>2, <2>3
  <1>1. TypeOK
    BY DEF IInv
  <1>2. /\ \A q \in Requests : q # r => acquire'[q] = acquire[q]
        /\ acquire[r].pc = "emit" /\ acquire'[r].pc = "done"
        /\ acquire'[r].userId = acquire[r].userId
        /\ acquire'[r].deviceId = acquire[r].deviceId
        /\ acquire'[r].previous = {}
        /\ UNCHANGED <<activeDevices, accountStatus, usage, fresh, sweeping,
                     missed, deviceLost, accountLost>>
    BY <1>1 DEF TypeOK, Call, EmitRevoked, rowVars, historyVars
  <1>3. CallsAreTyped'
    BY <1>1, <1>2, <1>p, UsageAssumption DEF IInv, TypeOK, HasRow, InFlight, PolicyPassed, Active, UserOf, DeviceOf, CallsAreTyped
  <1>4. SnapshotIsComplete'
    BY <1>1, <1>2, <1>p, UsageAssumption DEF IInv, TypeOK, HasRow, InFlight, PolicyPassed, Active, UserOf, DeviceOf, SnapshotIsComplete, CallsAreTyped
  <1>5. CallsAreOvertaken'
    BY <1>1, <1>2, <1>p, UsageAssumption DEF IInv, TypeOK, HasRow, InFlight, PolicyPassed, Active, UserOf, DeviceOf, CallsAreOvertaken, CallsAreTyped
  <1>6. PreviousAreLosers'
    BY <1>1, <1>2, <1>p, UsageAssumption DEF IInv, TypeOK, HasRow, InFlight, PolicyPassed, Active, UserOf, DeviceOf, PreviousAreLosers, CallsAreTyped, SnapshotIsComplete
  <1>7. ToldAreRows'
    BY <1>1, <1>2, <1>p, UsageAssumption DEF IInv, TypeOK, HasRow, InFlight, PolicyPassed, Active, UserOf, DeviceOf, ToldAreRows, CallsAreTyped, PreviousAreLosers
  <1>8. OnlyOverlapSharesTurn'
    BY <1>1, <1>2, <1>p, UsageAssumption DEF IInv, TypeOK, HasRow, InFlight, PolicyPassed, Active, UserOf, DeviceOf, OnlyOverlapSharesTurn, CallsAreTyped, SnapshotIsComplete
  <1>9. RevokedDeviceWasOvertaken'
    BY <1>1, <1>2, <1>p, UsageAssumption DEF IInv, TypeOK, HasRow, InFlight, PolicyPassed, Active, UserOf, DeviceOf, RevokedDeviceWasOvertaken, CallsAreTyped, CallsAreOvertaken
  <1>10. SuspendedAccountIsSwept'
    BY <1>1, <1>2, <1>p, UsageAssumption DEF IInv, TypeOK, HasRow, InFlight, PolicyPassed, Active, UserOf, DeviceOf, SuspendedAccountIsSwept, CallsAreTyped, CallsAreOvertaken
  <1>11. OnlyReplacedDevicesAreTold'
    BY <1>1, <1>2, <1>p, UsageAssumption DEF IInv, TypeOK, HasRow, InFlight, PolicyPassed, Active, UserOf, DeviceOf, OnlyReplacedDevicesAreTold, CallsAreTyped, PreviousAreLosers, ToldAreRows
  <1>12. SnapshotIsPersonal'
    BY <1>1, <1>2, <1>p, UsageAssumption DEF IInv, TypeOK, HasRow, InFlight, PolicyPassed, Active, UserOf, DeviceOf, SnapshotIsPersonal, CallsAreTyped
  <1>13. QED
    BY <1>3, <1>4, <1>5, <1>6, <1>7, <1>8, <1>9, <1>10, <1>11, <1>12 DEF IInv

LEMMA HeartbeatOrReleaseKeepsInv ==
  ASSUME IInv, NEW s \in Requests, NEW u \in Users, Heartbeat(u, s) \/ Release(u, s), TypeOK'
  PROVE  IInv'
  <1> USE UsageAssumption DEF IInv, TypeOK, HasRow, InFlight, PolicyPassed, Active, UserOf, DeviceOf,
        Heartbeat, Release, ActiveOf, historyVars
  <1>1. CallsAreTyped'
    BY DEF CallsAreTyped
  <1>2. SnapshotIsComplete'
    BY DEF SnapshotIsComplete, CallsAreTyped
  <1>3. CallsAreOvertaken'
    BY DEF CallsAreOvertaken, CallsAreTyped
  <1>4. PreviousAreLosers'
    BY DEF PreviousAreLosers, CallsAreTyped, SnapshotIsComplete
  <1>5. ToldAreRows'
    BY DEF ToldAreRows, CallsAreTyped, PreviousAreLosers
  <1>6. OnlyOverlapSharesTurn'
    BY DEF OnlyOverlapSharesTurn, CallsAreTyped, SnapshotIsComplete
  <1>7. RevokedDeviceWasOvertaken'
    BY DEF RevokedDeviceWasOvertaken, CallsAreTyped, CallsAreOvertaken
  <1>8. SuspendedAccountIsSwept'
    BY DEF SuspendedAccountIsSwept, CallsAreTyped, CallsAreOvertaken
  <1>9. OnlyReplacedDevicesAreTold'
    BY DEF OnlyReplacedDevicesAreTold, CallsAreTyped, PreviousAreLosers, ToldAreRows
  <1>10. SnapshotIsPersonal'
    BY DEF SnapshotIsPersonal, CallsAreTyped
  <1>11. QED
    BY <1>1, <1>2, <1>3, <1>4, <1>5, <1>6, <1>7, <1>8, <1>9, <1>10

LEMMA HeartbeatLapsesKeepsInv ==
  ASSUME IInv, NEW s \in Requests, HeartbeatLapses(s), TypeOK'
  PROVE  IInv'
  <1> USE UsageAssumption DEF IInv, TypeOK, HasRow, InFlight, PolicyPassed, Active, UserOf, DeviceOf,
        HeartbeatLapses, historyVars
  <1>1. CallsAreTyped'
    BY DEF CallsAreTyped
  <1>2. SnapshotIsComplete'
    BY DEF SnapshotIsComplete, CallsAreTyped
  <1>3. CallsAreOvertaken'
    BY DEF CallsAreOvertaken, CallsAreTyped
  <1>4. PreviousAreLosers'
    BY DEF PreviousAreLosers, CallsAreTyped, SnapshotIsComplete
  <1>5. ToldAreRows'
    BY DEF ToldAreRows, CallsAreTyped, PreviousAreLosers
  <1>6. OnlyOverlapSharesTurn'
    BY DEF OnlyOverlapSharesTurn, CallsAreTyped, SnapshotIsComplete
  <1>7. RevokedDeviceWasOvertaken'
    BY DEF RevokedDeviceWasOvertaken, CallsAreTyped, CallsAreOvertaken
  <1>8. SuspendedAccountIsSwept'
    BY DEF SuspendedAccountIsSwept, CallsAreTyped, CallsAreOvertaken
  <1>9. OnlyReplacedDevicesAreTold'
    BY DEF OnlyReplacedDevicesAreTold, CallsAreTyped, PreviousAreLosers, ToldAreRows
  <1>10. SnapshotIsPersonal'
    BY DEF SnapshotIsPersonal, CallsAreTyped
  <1>11. QED
    BY <1>1, <1>2, <1>3, <1>4, <1>5, <1>6, <1>7, <1>8, <1>9, <1>10

LEMMA DeviceStepKeepsInv ==
  ASSUME IInv, NEW d \in Devices, RegisterDevice(d) \/ RevokeDevice(d), TypeOK'
  PROVE  IInv'
  <1> USE UsageAssumption DEF IInv, TypeOK, HasRow, InFlight, PolicyPassed, Active, UserOf, DeviceOf,
        RegisterDevice, RevokeDevice, Overtaken, Revoked, ActiveOn, historyVars
  <1>1. CallsAreTyped'
    BY DEF CallsAreTyped
  <1>2. SnapshotIsComplete'
    BY DEF SnapshotIsComplete, CallsAreTyped
  <1>3. CallsAreOvertaken'
    BY DEF CallsAreOvertaken, CallsAreTyped
  <1>4. PreviousAreLosers'
    BY DEF PreviousAreLosers, CallsAreTyped, SnapshotIsComplete
  <1>5. ToldAreRows'
    BY DEF ToldAreRows, CallsAreTyped, PreviousAreLosers
  <1>6. OnlyOverlapSharesTurn'
    BY DEF OnlyOverlapSharesTurn, CallsAreTyped, SnapshotIsComplete
  <1>7. RevokedDeviceWasOvertaken'
    BY DEF RevokedDeviceWasOvertaken, CallsAreTyped, CallsAreOvertaken
  <1>8. SuspendedAccountIsSwept'
    BY DEF SuspendedAccountIsSwept, CallsAreTyped, CallsAreOvertaken
  <1>9. OnlyReplacedDevicesAreTold'
    BY DEF OnlyReplacedDevicesAreTold, CallsAreTyped, PreviousAreLosers, ToldAreRows
  <1>10. SnapshotIsPersonal'
    BY DEF SnapshotIsPersonal, CallsAreTyped
  <1>11. QED
    BY <1>1, <1>2, <1>3, <1>4, <1>5, <1>6, <1>7, <1>8, <1>9, <1>10

LEMMA RemoveMemberKeepsInv ==
  ASSUME IInv, NEW u \in Users, NEW ds \in SUBSET Devices, RemoveMember(u, ds), TypeOK'
  PROVE  IInv'
  <1> USE UsageAssumption DEF IInv, TypeOK, HasRow, InFlight, PolicyPassed, Active, UserOf, DeviceOf,
        RemoveMember, Overtaken, Revoked, ActiveOf
  <1>1. CallsAreTyped'
    BY DEF CallsAreTyped
  <1>2. SnapshotIsComplete'
    BY DEF SnapshotIsComplete, CallsAreTyped
  <1>3. CallsAreOvertaken'
    BY DEF CallsAreOvertaken, CallsAreTyped
  <1>4. PreviousAreLosers'
    BY DEF PreviousAreLosers, CallsAreTyped, SnapshotIsComplete
  <1>5. ToldAreRows'
    BY DEF ToldAreRows, CallsAreTyped, PreviousAreLosers
  <1>6. OnlyOverlapSharesTurn'
    BY DEF OnlyOverlapSharesTurn, CallsAreTyped, SnapshotIsComplete
  <1>7. RevokedDeviceWasOvertaken'
    BY DEF RevokedDeviceWasOvertaken, CallsAreTyped, CallsAreOvertaken
  <1>8. SuspendedAccountIsSwept'
    BY DEF SuspendedAccountIsSwept, CallsAreTyped, CallsAreOvertaken
  <1>9. OnlyReplacedDevicesAreTold'
    BY DEF OnlyReplacedDevicesAreTold, CallsAreTyped, PreviousAreLosers, ToldAreRows
  <1>10. SnapshotIsPersonal'
    BY DEF SnapshotIsPersonal, CallsAreTyped
  <1>11. QED
    BY <1>1, <1>2, <1>3, <1>4, <1>5, <1>6, <1>7, <1>8, <1>9, <1>10

LEMMA SetAccountStatusKeepsInv ==
  ASSUME IInv, NEW a \in Accounts, NEW status \in AccountStatus, SetAccountStatus(a, status), TypeOK'
  PROVE  IInv'
  <1> USE UsageAssumption DEF IInv, TypeOK, HasRow, InFlight, PolicyPassed, Active, UserOf, DeviceOf,
        SetAccountStatus
  <1>1. CallsAreTyped'
    BY DEF CallsAreTyped
  <1>2. SnapshotIsComplete'
    BY DEF SnapshotIsComplete, CallsAreTyped
  <1>3. CallsAreOvertaken'
    BY DEF CallsAreOvertaken, CallsAreTyped
  <1>4. PreviousAreLosers'
    BY DEF PreviousAreLosers, CallsAreTyped, SnapshotIsComplete
  <1>5. ToldAreRows'
    BY DEF ToldAreRows, CallsAreTyped, PreviousAreLosers
  <1>6. OnlyOverlapSharesTurn'
    BY DEF OnlyOverlapSharesTurn, CallsAreTyped, SnapshotIsComplete
  <1>7. RevokedDeviceWasOvertaken'
    BY DEF RevokedDeviceWasOvertaken, CallsAreTyped, CallsAreOvertaken
  <1>8. SuspendedAccountIsSwept'
    BY DEF SuspendedAccountIsSwept, CallsAreTyped, CallsAreOvertaken
  <1>9. OnlyReplacedDevicesAreTold'
    BY DEF OnlyReplacedDevicesAreTold, CallsAreTyped, PreviousAreLosers, ToldAreRows
  <1>10. SnapshotIsPersonal'
    BY DEF SnapshotIsPersonal, CallsAreTyped
  <1>11. QED
    BY <1>1, <1>2, <1>3, <1>4, <1>5, <1>6, <1>7, <1>8, <1>9, <1>10

LEMMA SweepAccountKeepsInv ==
  ASSUME IInv, NEW a \in Accounts, SweepAccount(a), TypeOK'
  PROVE  IInv'
  <1> USE UsageAssumption DEF IInv, TypeOK, HasRow, InFlight, PolicyPassed, Active, UserOf, DeviceOf,
        SweepAccount, Revoked, ActiveIn, historyVars
  <1>1. CallsAreTyped'
    BY DEF CallsAreTyped
  <1>2. SnapshotIsComplete'
    BY DEF SnapshotIsComplete, CallsAreTyped
  <1>3. CallsAreOvertaken'
    BY DEF CallsAreOvertaken, CallsAreTyped
  <1>4. PreviousAreLosers'
    BY DEF PreviousAreLosers, CallsAreTyped, SnapshotIsComplete
  <1>5. ToldAreRows'
    BY DEF ToldAreRows, CallsAreTyped, PreviousAreLosers
  <1>6. OnlyOverlapSharesTurn'
    BY DEF OnlyOverlapSharesTurn, CallsAreTyped, SnapshotIsComplete
  <1>7. RevokedDeviceWasOvertaken'
    BY DEF RevokedDeviceWasOvertaken, CallsAreTyped, CallsAreOvertaken
  <1>8. SuspendedAccountIsSwept'
    BY DEF SuspendedAccountIsSwept, CallsAreTyped, CallsAreOvertaken
  <1>9. OnlyReplacedDevicesAreTold'
    BY DEF OnlyReplacedDevicesAreTold, CallsAreTyped, PreviousAreLosers, ToldAreRows
  <1>10. SnapshotIsPersonal'
    BY DEF SnapshotIsPersonal, CallsAreTyped
  <1>11. QED
    BY <1>1, <1>2, <1>3, <1>4, <1>5, <1>6, <1>7, <1>8, <1>9, <1>10

LEMMA CrashKeepsInv ==
  ASSUME IInv, Crash, TypeOK'
  PROVE  IInv'
  <1>p. \A q \in Requests :
          \/ InFlight(q) /\ acquire'[q] = NoCall("failed")
          \/ acquire[q].pc = "emit" /\ acquire'[q] = [acquire[q] EXCEPT !.pc = "done", !.previous = {}]
          \/ ~InFlight(q) /\ acquire[q].pc # "emit" /\ acquire'[q] = acquire[q]
    BY DEF Crash, InFlight
  <1>q. \A s \in Requests : Active(s) /\ AccountOf[DeviceOf(s)] \in sweeping => s \in accountLost'
    <2> SUFFICES ASSUME NEW s \in Requests, Active(s), AccountOf[DeviceOf(s)] \in sweeping
                 PROVE  s \in accountLost'
      OBVIOUS
    <2>1. s \in ActiveIn(AccountOf[DeviceOf(s)])
      BY DEF ActiveIn
    <2>2. s \in UNION {ActiveIn(a) : a \in sweeping}
      BY <2>1
    <2>3. QED
      BY <2>2 DEF Crash
  <1>t. /\ sweeping' = {} /\ accountLost \subseteq accountLost'
        /\ UNCHANGED <<activeDevices, accountStatus, usage, fresh, notified, missed, deviceLost>>
    BY DEF Crash, rowVars
  <1>u. ASSUME NEW q \in Requests, acquire[q].pc = "emit"
        PROVE  /\ acquire'[q].pc = "done" /\ acquire'[q].previous = {}
               /\ acquire'[q].userId = acquire[q].userId
               /\ acquire'[q].deviceId = acquire[q].deviceId
    <2>1. acquire[q] \in Call /\ ~InFlight(q)
      BY <1>u DEF IInv, TypeOK, InFlight
    <2>2. acquire'[q] = [acquire[q] EXCEPT !.pc = "done", !.previous = {}]
      BY <1>u, <1>p, <2>1
    <2>3. QED
      BY <2>1, <2>2 DEF Call
  <1>v. ASSUME NEW q \in Requests, InFlight(q)
        PROVE  acquire'[q].pc = "failed" /\ acquire'[q].previous = {}
    <2>1. acquire'[q] = NoCall("failed")
      BY <1>v, <1>p DEF InFlight
    <2>2. QED
      BY <2>1 DEF NoCall, CallOf
  <1>1. TypeOK
    BY DEF IInv
  <1>2. \A q \in Requests :
          \/ InFlight(q) /\ acquire'[q].pc = "failed" /\ acquire'[q].previous = {}
          \/ /\ acquire[q].pc = "emit" /\ acquire'[q].pc = "done" /\ acquire'[q].previous = {}
             /\ acquire'[q].userId = acquire[q].userId
             /\ acquire'[q].deviceId = acquire[q].deviceId
          \/ ~InFlight(q) /\ acquire[q].pc # "emit" /\ acquire'[q] = acquire[q]
    BY <1>1, <1>p, <1>u, <1>v DEF InFlight
  <1>3. CallsAreTyped'
    BY <1>1, <1>2, <1>q, <1>t, UsageAssumption DEF IInv, TypeOK, HasRow, InFlight, PolicyPassed, Active, UserOf, DeviceOf, CallsAreTyped
  <1>4. SnapshotIsComplete'
    BY <1>1, <1>2, <1>q, <1>t, UsageAssumption DEF IInv, TypeOK, HasRow, InFlight, PolicyPassed, Active, UserOf, DeviceOf, SnapshotIsComplete, CallsAreTyped
  <1>5. CallsAreOvertaken'
    BY <1>1, <1>2, <1>q, <1>t, UsageAssumption DEF IInv, TypeOK, HasRow, InFlight, PolicyPassed, Active, UserOf, DeviceOf, CallsAreOvertaken, CallsAreTyped
  <1>6. PreviousAreLosers'
    BY <1>1, <1>2, <1>q, <1>t, UsageAssumption DEF IInv, TypeOK, HasRow, InFlight, PolicyPassed, Active, UserOf, DeviceOf, PreviousAreLosers, CallsAreTyped, SnapshotIsComplete
  <1>7. ToldAreRows'
    BY <1>1, <1>2, <1>q, <1>t, UsageAssumption DEF IInv, TypeOK, HasRow, InFlight, PolicyPassed, Active, UserOf, DeviceOf, ToldAreRows, CallsAreTyped, PreviousAreLosers
  <1>8. OnlyOverlapSharesTurn'
    BY <1>1, <1>2, <1>q, <1>t, UsageAssumption DEF IInv, TypeOK, HasRow, InFlight, PolicyPassed, Active, UserOf, DeviceOf, OnlyOverlapSharesTurn, CallsAreTyped, SnapshotIsComplete
  <1>9. RevokedDeviceWasOvertaken'
    BY <1>1, <1>2, <1>q, <1>t, UsageAssumption DEF IInv, TypeOK, HasRow, InFlight, PolicyPassed, Active, UserOf, DeviceOf, RevokedDeviceWasOvertaken, CallsAreTyped, CallsAreOvertaken
  <1>10. SuspendedAccountIsSwept'
    BY <1>1, <1>2, <1>q, <1>t, UsageAssumption DEF IInv, TypeOK, HasRow, InFlight, PolicyPassed, Active, UserOf, DeviceOf, SuspendedAccountIsSwept, CallsAreTyped, CallsAreOvertaken
  <1>11. OnlyReplacedDevicesAreTold'
    BY <1>1, <1>2, <1>q, <1>t, UsageAssumption DEF IInv, TypeOK, HasRow, InFlight, PolicyPassed, Active, UserOf, DeviceOf, OnlyReplacedDevicesAreTold, CallsAreTyped, PreviousAreLosers, ToldAreRows
  <1>12. SnapshotIsPersonal'
    BY <1>1, <1>2, <1>q, <1>t, UsageAssumption DEF IInv, TypeOK, HasRow, InFlight, PolicyPassed, Active, UserOf, DeviceOf, SnapshotIsPersonal, CallsAreTyped
  <1>13. QED
    BY <1>3, <1>4, <1>5, <1>6, <1>7, <1>8, <1>9, <1>10, <1>11, <1>12 DEF IInv

-----------------------------------------------------------------------------
\* The theorems.

LEMMA InitInv == Init => IInv
  <1> SUFFICES ASSUME Init PROVE IInv
    OBVIOUS
  <1>1. TypeOK
    BY InitType
  <1>2. \A r \in Requests : /\ acquire[r].pc = "idle" /\ acquire[r].previous = {}
                            /\ usage[r] = "NONE"
    BY DEF Init, NoCall, CallOf
  <1>3. notified = {}
    BY DEF Init
  <1>4. CallsAreTyped /\ SnapshotIsComplete /\ CallsAreOvertaken /\ PreviousAreLosers /\ ToldAreRows
    BY <1>2, <1>3 DEF CallsAreTyped, SnapshotIsComplete, CallsAreOvertaken, PreviousAreLosers,
                      ToldAreRows, HasRow, InFlight, PolicyPassed
  <1>5. /\ OnlyOverlapSharesTurn /\ RevokedDeviceWasOvertaken
        /\ SuspendedAccountIsSwept /\ OnlyReplacedDevicesAreTold /\ SnapshotIsPersonal
    BY <1>2, <1>3 DEF SnapshotIsPersonal, OnlyOverlapSharesTurn, RevokedDeviceWasOvertaken,
                      SuspendedAccountIsSwept, OnlyReplacedDevicesAreTold, Active
  <1>6. QED
    BY <1>1, <1>4, <1>5 DEF IInv

LEMMA StutterKeepsInv == IInv /\ UNCHANGED vars => IInv'
  BY DEF vars, IInv, TypeOK, CallsAreTyped, SnapshotIsComplete, CallsAreOvertaken,
         PreviousAreLosers, ToldAreRows, OnlyOverlapSharesTurn, RevokedDeviceWasOvertaken,
         SuspendedAccountIsSwept, OnlyReplacedDevicesAreTold, SnapshotIsPersonal, HasRow, InFlight, PolicyPassed,
         Active, UserOf, DeviceOf

LEMMA NextInv == IInv /\ [Next]_vars => IInv'
  <1> SUFFICES ASSUME IInv, [Next]_vars PROVE IInv'
    OBVIOUS
  <1>1. TypeOK'
    BY NextType DEF IInv
  <1>2. CASE UNCHANGED vars
    BY <1>2, StutterKeepsInv
  <1>3. ASSUME NEW r \in Requests, NEW u \in Users, NEW d \in Devices, FindDevice(r, u, d)
        PROVE  IInv'
    BY <1>1, <1>3, FindDeviceKeepsInv
  <1>4. ASSUME NEW r \in Requests, AcquireStep(r)
        PROVE  IInv'
    BY <1>1, <1>4, ResolvePolicyKeepsInv, ReadPreviousKeepsInv, UpdatePreviousKeepsInv,
       CommitAcquireKeepsInv, EmitRevokedKeepsInv DEF AcquireStep
  <1>5. ASSUME NEW s \in Requests, NEW u \in Users, Heartbeat(u, s) \/ Release(u, s)
        PROVE  IInv'
    BY <1>1, <1>5, HeartbeatOrReleaseKeepsInv
  <1>6. ASSUME NEW s \in Requests, HeartbeatLapses(s)
        PROVE  IInv'
    BY <1>1, <1>6, HeartbeatLapsesKeepsInv
  <1>7. ASSUME NEW d \in Devices, RegisterDevice(d) \/ RevokeDevice(d)
        PROVE  IInv'
    BY <1>1, <1>7, DeviceStepKeepsInv
  <1>8. ASSUME NEW u \in Users, NEW ds \in SUBSET Devices, RemoveMember(u, ds)
        PROVE  IInv'
    BY <1>1, <1>8, RemoveMemberKeepsInv
  <1>9. ASSUME NEW a \in Accounts, NEW status \in AccountStatus, SetAccountStatus(a, status)
        PROVE  IInv'
    BY <1>1, <1>9, SetAccountStatusKeepsInv
  <1>10. ASSUME NEW a \in Accounts, SweepAccount(a)
         PROVE  IInv'
    BY <1>1, <1>10, SweepAccountKeepsInv
  <1>11. CASE Crash
    BY <1>1, <1>11, CrashKeepsInv
  <1>12. QED
    BY <1>2, <1>3, <1>4, <1>5, <1>6, <1>7, <1>8, <1>9, <1>10, <1>11 DEF Next

LEMMA InductiveInvariant == Spec => []IInv
  BY InitInv, NextInv, PTL DEF Spec

\* One person has two turns only through calls whose transactions overlapped.
THEOREM TurnIsSharedOnlyByOverlap == Spec => []OnlyOverlapSharesTurn
  <1>1. IInv => OnlyOverlapSharesTurn
    BY DEF IInv
  <1>2. QED
    BY <1>1, InductiveInvariant, PTL

\* A revocation ends every turn committed before it.
THEOREM RevocationEndsTurns == Spec => []RevokedDeviceWasOvertaken
  <1>1. IInv => RevokedDeviceWasOvertaken
    BY DEF IInv
  <1>2. QED
    BY <1>1, InductiveInvariant, PTL

\* A suspension leaves no turn behind, unless it overtook the call or a crash cut it short.
THEOREM SuspensionSweepsTurns == Spec => []SuspendedAccountIsSwept
  <1>1. IInv => SuspendedAccountIsSwept
    BY DEF IInv
  <1>2. QED
    BY <1>1, InductiveInvariant, PTL

\* The event usage.session.revoked is only ever sent about a turn that is over.
THEOREM EventsAreTrue == Spec => []OnlyReplacedDevicesAreTold
  <1>1. IInv => OnlyReplacedDevicesAreTold
    BY DEF IInv
  <1>2. QED
    BY <1>1, InductiveInvariant, PTL

-----------------------------------------------------------------------------
\* Action properties.

\* No step rewrites the status of a row that was revoked or released.
THEOREM EndedTurnsAreFinal == Spec => EndedTurnStaysEnded
  <1>1. IInv /\ [Next]_vars =>
          [\A s \in Requests : usage[s] \in {"REVOKED", "RELEASED"} => usage'[s] = usage[s]]_usage
    <2> SUFFICES ASSUME IInv, [Next]_vars, NEW s \in Requests, usage[s] \in {"REVOKED", "RELEASED"}
                 PROVE  usage'[s] = usage[s]
      OBVIOUS
    <2>1. /\ TypeOK /\ \A r \in Requests : acquire[r].pc = "commit" => usage[r] = "NONE"
          /\ ~Active(s)
      BY DEF IInv, CallsAreTyped, HasRow, TypeOK, UsageStatus, Active
    <2>2. \A rows : Revoked(rows)[s] = usage[s]
      BY <2>1 DEF Revoked
    <2>3. ASSUME NEW r \in Requests, AcquireStep(r)
          PROVE  usage'[s] = usage[s]
      <3>1. CASE CommitAcquire(r)
        BY <2>1, <2>2, <3>1, RevokedType DEF CommitAcquire
      <3>2. CASE ResolvePolicy(r) \/ ReadPrevious(r) \/ UpdatePrevious(r) \/ EmitRevoked(r)
        BY <3>2 DEF ResolvePolicy, ReadPrevious, UpdatePrevious, EmitRevoked, rowVars
      <3>3. QED
        BY <2>3, <3>1, <3>2 DEF AcquireStep
    <2>4. ASSUME NEW r \in Requests, NEW u \in Users, NEW d \in Devices, FindDevice(r, u, d)
          PROVE  usage'[s] = usage[s]
      BY <2>4 DEF FindDevice, rowVars
    <2>5. ASSUME NEW q \in Requests, NEW u \in Users, Heartbeat(u, q) \/ Release(u, q)
          PROVE  usage'[s] = usage[s]
      BY <2>1, <2>5 DEF Heartbeat, Release, ActiveOf, Active, TypeOK
    <2>6. ASSUME NEW q \in Requests, HeartbeatLapses(q)
          PROVE  usage'[s] = usage[s]
      BY <2>6 DEF HeartbeatLapses
    <2>7. ASSUME NEW d \in Devices, RegisterDevice(d) \/ RevokeDevice(d)
          PROVE  usage'[s] = usage[s]
      BY <2>2, <2>7 DEF RegisterDevice, RevokeDevice
    <2>8. ASSUME NEW u \in Users, NEW ds \in SUBSET Devices, RemoveMember(u, ds)
          PROVE  usage'[s] = usage[s]
      BY <2>2, <2>8 DEF RemoveMember
    <2>9. ASSUME NEW a \in Accounts, NEW status \in AccountStatus, SetAccountStatus(a, status)
          PROVE  usage'[s] = usage[s]
      BY <2>9 DEF SetAccountStatus
    <2>10. ASSUME NEW a \in Accounts, SweepAccount(a)
           PROVE  usage'[s] = usage[s]
      BY <2>2, <2>10 DEF SweepAccount
    <2>11. CASE Crash
      BY <2>11 DEF Crash, rowVars
    <2>12. CASE UNCHANGED vars
      BY <2>12 DEF vars
    <2>13. QED
      BY <2>3, <2>4, <2>5, <2>6, <2>7, <2>8, <2>9, <2>10, <2>11, <2>12 DEF Next
  <1>2. QED
    BY <1>1, InductiveInvariant, PTL DEF Spec, EndedTurnStaysEnded

\* The transaction of acquire writes rows of its own person only.
THEOREM AcquireIsPersonal == Spec => AcquireEndsOwnTurnOnly
  <1>1. IInv /\ [Next]_vars =>
          [\A r, s \in Requests :
              /\ acquire[r].pc = "commit" /\ acquire'[r].pc = "emit"
              /\ s # r /\ usage'[s] # usage[s]
              => UserOf(s) = UserOf(r)]_vars
    <2> SUFFICES ASSUME IInv, [Next]_vars, NEW r \in Requests, NEW s \in Requests,
                        acquire[r].pc = "commit", acquire'[r].pc = "emit",
                        s # r, usage'[s] # usage[s]
                 PROVE  UserOf(s) = UserOf(r)
      OBVIOUS
    <2>0. TypeOK /\ SnapshotIsPersonal
      BY DEF IInv
    <2>1. ASSUME NEW q \in Requests, AcquireStep(q)
          PROVE  UserOf(s) = UserOf(r)
      <3>1. CASE CommitAcquire(q)
        <4>1. q = r
          BY <2>0, <3>1 DEF CommitAcquire, TypeOK
        <4>2. s \in acquire[r].snapshot
          BY <2>0, <3>1, <4>1 DEF CommitAcquire, Revoked, TypeOK
        <4>3. QED
          BY <2>0, <4>2 DEF SnapshotIsPersonal
      <3>2. CASE ResolvePolicy(q) \/ ReadPrevious(q) \/ UpdatePrevious(q) \/ EmitRevoked(q)
        BY <3>2 DEF ResolvePolicy, ReadPrevious, UpdatePrevious, EmitRevoked, rowVars
      <3>3. QED
        BY <2>1, <3>1, <3>2 DEF AcquireStep
    <2>2. CASE acquire' = acquire
      BY <2>2
    <2>3. CASE usage' = usage
      BY <2>3
    <2>4. ASSUME NEW q \in Requests, NEW u \in Users, NEW d \in Devices, FindDevice(q, u, d)
          PROVE  usage' = usage
      BY <2>4 DEF FindDevice, rowVars
    <2>5. ASSUME NEW q \in Requests, NEW u \in Users, Heartbeat(u, q) \/ Release(u, q)
          PROVE  acquire' = acquire
      BY <2>5 DEF Heartbeat, Release
    <2>6. ASSUME NEW q \in Requests, HeartbeatLapses(q)
          PROVE  acquire' = acquire
      BY <2>6 DEF HeartbeatLapses
    <2>7. ASSUME NEW d \in Devices, RegisterDevice(d) \/ RevokeDevice(d)
          PROVE  acquire' = acquire
      BY <2>7 DEF RegisterDevice, RevokeDevice
    <2>8. ASSUME NEW u \in Users, NEW ds \in SUBSET Devices, RemoveMember(u, ds)
          PROVE  acquire' = acquire
      BY <2>8 DEF RemoveMember
    <2>9. ASSUME NEW a \in Accounts, NEW status \in AccountStatus, SetAccountStatus(a, status)
          PROVE  acquire' = acquire
      BY <2>9 DEF SetAccountStatus
    <2>10. ASSUME NEW a \in Accounts, SweepAccount(a)
           PROVE  acquire' = acquire
      BY <2>10 DEF SweepAccount
    <2>11. CASE Crash
      BY <2>11 DEF Crash, rowVars
    <2>12. CASE UNCHANGED vars
      BY <2>12 DEF vars
    <2>13. QED
      BY <2>1, <2>2, <2>3, <2>4, <2>5, <2>6, <2>7, <2>8, <2>9, <2>10, <2>11, <2>12 DEF Next
  <1>2. QED
    BY <1>1, InductiveInvariant, PTL DEF Spec, AcquireEndsOwnTurnOnly

=============================================================================
