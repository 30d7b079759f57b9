--------------------------- MODULE DevicesProofs ---------------------------
(***************************************************************************)
(* Proofs about Devices, for any persons, accounts and installations and   *)
(* any finite number of calls.                                             *)
(***************************************************************************)
EXTENDS Devices, FiniteSetTheorems, TLAPS

Counting == {"count", "oldest", "replace", "window", "create"}

\* The devices of a person that may exceed the limit.
Excused(u, a) == Uncounted(u, a) \cup Miscounted(u, a)

\* Devices ds are within the limit, or one below it, but for the excused ones.
Within(u, a, ds) == \E maxDevices \in Limits : Cardinality(ds) <= maxDevices + Cardinality(Excused(u, a))
Spare(u, a, ds) == \E maxDevices \in Limits : Cardinality(ds) + 1 <= maxDevices + Cardinality(Excused(u, a))

\* What call c knows when its record is k: whom it is for, and what it has read.
Known(c, k) ==
    /\ k.found \subseteq Rows
    /\ k.pc \in RegisterSteps \cup {"devices", "remove"} => k.userId \in Users /\ k.accountId \in Accounts
    /\ k.pc \in RegisterSteps => k.installationId \in Installations
    /\ k.pc = "reactivate" => k.found \subseteq DevicesOf(k.userId, k.accountId)
    /\ k.pc = "reinstall" => k.found \subseteq SameHardware(k.userId, k.accountId, k.installationId)
    /\ c \in Rows => k.pc \in {"log", "done", "failed"}
    /\ c \in unchecked => k.pc = "done"

\* What it may rely on: a row of its machine, or an ACTIVE device, that it did not see has
\* crossed it; and when nothing has, there is room for one device.
Reliable(c, k) ==
    /\ k.pc \in Counting => SameHardware(k.userId, k.accountId, k.installationId) \subseteq crossed[c]
    /\ k.pc = "remove" => ActiveDevices(k.userId, k.accountId) \subseteq k.found \cup crossed[c]
    /\ k.pc = "replace" /\ crossed[c] = {} =>
          Spare(k.userId, k.accountId, ActiveDevices(k.userId, k.accountId) \ k.found)
    /\ k.pc \in {"window", "create"} /\ crossed[c] = {} =>
          Spare(k.userId, k.accountId, ActiveDevices(k.userId, k.accountId))

CallsAreKnown == \A c \in Calls : Known(c, call[c])
CallsAreReliable == \A c \in Calls : Reliable(c, call[c])

\* A registration goes on for a person who was removed only as one that was overtaken.
StrangersAreOvertaken ==
    \A c \in Calls :
        Registering(c) /\ <<call[c].userId, call[c].accountId>> \notin memberships => c \in overtaken

AllWithin == \A u \in Users, a \in Accounts : Within(u, a, ActiveDevices(u, a))

IInv ==
    /\ TypeOK
    /\ CallsAreKnown
    /\ CallsAreReliable
    /\ StrangersAreOvertaken
    /\ AllWithin
    /\ MachineHasOneRow
    /\ RemovedMemberKeepsNoDevice

-----------------------------------------------------------------------------
\* Sets of calls are finite.
LEMMA Counts ==
  ASSUME NEW S \in SUBSET Calls
  PROVE  /\ Cardinality(S) \in Nat
         /\ \A T \in SUBSET S : Cardinality(T) \in Nat /\ Cardinality(T) <= Cardinality(S)
         /\ \A x \in Calls : /\ Cardinality(S \cup {x}) <= Cardinality(S) + 1
                             /\ x \notin S => Cardinality(S \cup {x}) = Cardinality(S) + 1
         /\ \A x \in S : Cardinality(S \ {x}) + 1 = Cardinality(S)
  <1>1. IsFiniteSet(S) /\ \A T \in SUBSET S : IsFiniteSet(T) /\ Cardinality(T) <= Cardinality(S)
    BY DevicesAssumption, FS_Subset
  <1>2. Cardinality(S) \in Nat /\ \A T \in SUBSET S : Cardinality(T) \in Nat
    BY <1>1, FS_CardinalityType
  <1>3. ASSUME NEW x \in Calls
        PROVE  /\ Cardinality(S \cup {x}) <= Cardinality(S) + 1
               /\ x \notin S => Cardinality(S \cup {x}) = Cardinality(S) + 1
    BY <1>1, <1>2, FS_AddElement
  <1>4. ASSUME NEW x \in S
        PROVE  Cardinality(S \ {x}) + 1 = Cardinality(S)
    <2>1. Cardinality(S \ {x}) = Cardinality(S) - 1
      BY <1>1, <1>4, FS_RemoveElement
    <2> QED
      BY <1>2, <2>1
  <1> QED
    BY <1>1, <1>2, <1>3, <1>4

\* Fewer devices, or more that are excused, stay within the limit.
LEMMA RoomKeeps ==
  ASSUME NEW S \in SUBSET Calls, NEW T \in SUBSET S,
         NEW Y \in SUBSET Calls, NEW X \in SUBSET Y, NEW maxDevices \in Limits
  PROVE  /\ Cardinality(S) + 1 <= maxDevices + Cardinality(X) =>
               Cardinality(T) + 1 <= maxDevices + Cardinality(Y)
         /\ Cardinality(S) <= maxDevices + Cardinality(X) =>
               Cardinality(T) <= maxDevices + Cardinality(Y)
  <1>1. maxDevices \in Nat
    BY DevicesAssumption
  <1>2. /\ Cardinality(T) \in Nat /\ Cardinality(S) \in Nat /\ Cardinality(T) <= Cardinality(S)
        /\ Cardinality(X) \in Nat /\ Cardinality(Y) \in Nat /\ Cardinality(X) <= Cardinality(Y)
    BY Counts
  <1> QED
    BY <1>1, <1>2

LEMMA SetsOfCalls ==
  /\ Rows \in SUBSET Calls
  /\ \A u, a : /\ DevicesOf(u, a) \in SUBSET Calls /\ ActiveDevices(u, a) \in SUBSET Calls
               /\ ActiveDevices(u, a) \subseteq DevicesOf(u, a) /\ DevicesOf(u, a) \subseteq Rows
  /\ TypeOK => \A u, a : Excused(u, a) \in SUBSET Calls
  BY DEF Rows, DevicesOf, ActiveDevices, Excused, Uncounted, Miscounted, TypeOK

LEMMA Initially == Init => IInv
  <1> SUFFICES ASSUME Init PROVE IInv
    OBVIOUS
  <1>1. TypeOK
    BY DevicesAssumption
    DEF Init, TypeOK, NoDevice, NoCall, Device, Status, Call, Steps, RegisterSteps
  <1>2. /\ Rows = {} /\ \A c \in Calls : call[c].pc = "idle" /\ call[c].found = {} /\ crossed[c] = {}
        /\ unchecked = {}
    BY DEF Init, NoDevice, NoCall, Rows
  <1>3. CallsAreKnown
    BY <1>2 DEF CallsAreKnown, Known, RegisterSteps
  <1>4. CallsAreReliable /\ StrangersAreOvertaken
    BY <1>2 DEF CallsAreReliable, Reliable, Counting, StrangersAreOvertaken, Registering, RegisterSteps
  <1>5. AllWithin
    <2> SUFFICES ASSUME NEW u \in Users, NEW a \in Accounts
                 PROVE  Within(u, a, ActiveDevices(u, a))
      BY DEF AllWithin
    <2>1. ActiveDevices(u, a) = {} /\ Excused(u, a) = {}
      BY <1>2 DEF ActiveDevices, DevicesOf, Excused, Uncounted, Miscounted
    <2>2. Cardinality({}) = 0
      BY FS_EmptySet
    <2>3. PICK maxDevices \in Limits : maxDevices \in Nat
      BY DevicesAssumption
    <2> QED
      BY <2>1, <2>2, <2>3 DEF Within
  <1>6. MachineHasOneRow /\ RemovedMemberKeepsNoDevice
    BY <1>2 DEF MachineHasOneRow, RemovedMemberKeepsNoDevice
  <1> QED
    BY <1>1, <1>3, <1>4, <1>5, <1>6 DEF IInv

-----------------------------------------------------------------------------
(***************************************************************************)
(* Steps that make no device ACTIVE: reads, and the revocations ds.        *)
(***************************************************************************)
LEMMA RevokesIs ==
  ASSUME TypeOK, NEW ds \in SUBSET Rows, device' = Revoked(ds)
  PROVE  /\ device' \in [Calls -> Device]
         /\ Rows' = Rows
         /\ \A d \in Calls : /\ device'[d].userId = device[d].userId
                             /\ device'[d].accountId = device[d].accountId
                             /\ device'[d].installationId = device[d].installationId
                             /\ Active(d)' <=> Active(d) /\ d \notin ds
         /\ \A u, a : /\ DevicesOf(u, a)' = DevicesOf(u, a)
                      /\ ActiveDevices(u, a)' = ActiveDevices(u, a) \ ds
         /\ \A u, a, i : SameHardware(u, a, i)' = SameHardware(u, a, i)
  <1>1. \A d \in Calls :
           /\ device'[d] \in Device
           /\ device'[d].status = IF d \in ds THEN "REVOKED" ELSE device[d].status
           /\ device'[d].userId = device[d].userId
           /\ device'[d].accountId = device[d].accountId
           /\ device'[d].installationId = device[d].installationId
    BY DEF Revoked, TypeOK, Device, Status
  <1>2. device' \in [Calls -> Device]
    BY <1>1 DEF Revoked
  <1>3. Rows' = Rows
    BY <1>1 DEF Rows
  <1>4. \A d \in Calls : Active(d)' <=> Active(d) /\ d \notin ds
    BY <1>1 DEF Active
  <1>5. \A u, a : DevicesOf(u, a)' = DevicesOf(u, a)
    BY <1>1, <1>3, SetsOfCalls DEF DevicesOf
  <1>6. \A u, a : ActiveDevices(u, a)' = ActiveDevices(u, a) \ ds
    BY <1>4, <1>5, SetsOfCalls DEF ActiveDevices
  <1>7. \A u, a, i : SameHardware(u, a, i)' = SameHardware(u, a, i)
    BY <1>1, <1>5, SetsOfCalls DEF SameHardware
  <1> QED
    BY <1>1, <1>2, <1>3, <1>4, <1>5, <1>6, <1>7

\* What a call knows and may rely on is not disturbed by them.
LEMMA RevokesKeep ==
  ASSUME TypeOK, TypeOK', NEW ds \in SUBSET Rows, device' = Revoked(ds),
         crossed' = crossed, unchecked' = unchecked,
         \A q \in unchecked : call'[q] = call[q]
  PROVE  /\ \A u, a : Excused(u, a)' = Excused(u, a)
         /\ \A q \in Calls, k \in Call : /\ Known(q, k) => Known(q, k)'
                                         /\ Reliable(q, k) => Reliable(q, k)'
  <1>1. \A u, a : Excused(u, a)' = Excused(u, a)
    <2>1. \A u, a : Uncounted(u, a)' = Uncounted(u, a)
      BY DEF Uncounted
    <2>2. \A u, a : Miscounted(u, a)' = Miscounted(u, a)
      BY RevokesIs DEF Miscounted
    <2> QED
      BY <2>1, <2>2 DEF Excused
  <1>2. ASSUME NEW q \in Calls, NEW k \in Call, Known(q, k)
        PROVE  Known(q, k)'
    BY <1>2, RevokesIs DEF Known
  <1>3. ASSUME NEW u, NEW a, NEW T, Spare(u, a, ActiveDevices(u, a) \ T)
        PROVE  Spare(u, a, ActiveDevices(u, a) \ T)'
    <2> DEFINE S == ActiveDevices(u, a) \ T
               Y == Excused(u, a)
    <2>1. S \in SUBSET Calls /\ Y \in SUBSET Calls /\ Y \in SUBSET Y
          /\ (ActiveDevices(u, a) \ T)' = S \ ds /\ Excused(u, a)' = Y
      BY <1>1, RevokesIs, SetsOfCalls
    <2>2. PICK maxDevices \in Limits : Cardinality(S) + 1 <= maxDevices + Cardinality(Y)
      BY <1>3 DEF Spare
    <2> HIDE DEF S, Y
    <2>3. S \ ds \in SUBSET S
      OBVIOUS
    <2>4. Cardinality(S \ ds) + 1 <= maxDevices + Cardinality(Y)
      BY <2>1, <2>2, <2>3, RoomKeeps
    <2> QED
      BY <2>1, <2>4 DEF Spare
  <1>4. ASSUME NEW q \in Calls, NEW k \in Call, Reliable(q, k)
        PROVE  Reliable(q, k)'
    <2>1. k.pc \in Counting => SameHardware(k.userId, k.accountId, k.installationId)' \subseteq crossed'[q]
      BY <1>4, RevokesIs DEF Reliable
    <2>2. k.pc = "remove" => ActiveDevices(k.userId, k.accountId)' \subseteq k.found \cup crossed'[q]
      BY <1>4, RevokesIs DEF Reliable
    <2>3. k.pc = "replace" /\ crossed'[q] = {} =>
             Spare(k.userId, k.accountId, ActiveDevices(k.userId, k.accountId) \ k.found)'
      BY <1>3, <1>4 DEF Reliable
    <2>4. k.pc \in {"window", "create"} /\ crossed'[q] = {} =>
             Spare(k.userId, k.accountId, ActiveDevices(k.userId, k.accountId))'
      <3>1. ActiveDevices(k.userId, k.accountId) = ActiveDevices(k.userId, k.accountId) \ {}
        OBVIOUS
      <3>2. ActiveDevices(k.userId, k.accountId)' = (ActiveDevices(k.userId, k.accountId) \ {})'
        OBVIOUS
      <3> QED
        BY <1>3, <1>4, <3>1, <3>2 DEF Reliable, Spare
    <2> QED
      BY <2>1, <2>2, <2>3, <2>4 DEF Reliable
  <1> QED
    BY <1>1, <1>2, <1>4

\* One call moves on; memberships stay as they are but for Remove.
LEMMA CallMoves ==
  ASSUME IInv, TypeOK', NEW c \in Calls, NEW new \in Call, NEW ds \in SUBSET Rows,
         call' = [call EXCEPT ![c] = new], device' = Revoked(ds),
         crossed' = crossed, unchecked' = unchecked,
         ~In(c, "done"), Known(c, new), Reliable(c, new) \/ Reliable(c, new)'
  PROVE  CallsAreKnown' /\ CallsAreReliable' /\ AllWithin' /\ MachineHasOneRow'
  <1>1. call'[c] = new /\ \A q \in Calls \ {c} : call'[q] = call[q]
    BY DEF IInv, TypeOK
  <1>2. c \notin unchecked
    BY DEF IInv, CallsAreKnown, Known, In
  <1>3. TypeOK /\ \A q \in unchecked : call'[q] = call[q]
    BY <1>1, <1>2 DEF IInv, TypeOK
  <1>4. \A q \in Calls : call'[q] \in Call
    BY DEF TypeOK
  <1>5. /\ \A u, a : Excused(u, a)' = Excused(u, a)
        /\ \A q \in Calls, k \in Call : /\ Known(q, k) => Known(q, k)'
                                        /\ Reliable(q, k) => Reliable(q, k)'
    BY <1>3, RevokesKeep
  <1>6. CallsAreKnown'
    <2>1. ASSUME NEW q \in Calls
          PROVE  Known(q, call[q])'
      <3>1. PICK k \in Call : k = call'[q] /\ Known(q, k)
        BY <1>1, <1>4 DEF IInv, CallsAreKnown
      <3>2. Known(q, k)'
        BY <1>5, <3>1
      <3> QED
        BY <3>1, <3>2 DEF Known
    <2> QED
      BY <2>1 DEF CallsAreKnown
  <1>7. CallsAreReliable'
    <2>1. ASSUME NEW q \in Calls
          PROVE  Reliable(q, call[q])'
      <3>1. PICK k \in Call : k = call'[q] /\ (Reliable(q, k) \/ Reliable(q, k)')
        BY <1>1, <1>4 DEF IInv, CallsAreReliable
      <3>2. Reliable(q, k)'
        BY <1>5, <3>1
      <3> QED
        BY <3>1, <3>2 DEF Reliable
    <2> QED
      BY <2>1 DEF CallsAreReliable
  <1>8. AllWithin'
    <2> SUFFICES ASSUME NEW u \in Users, NEW a \in Accounts
                 PROVE  Within(u, a, ActiveDevices(u, a))'
      BY DEF AllWithin
    <2> DEFINE S == ActiveDevices(u, a)
               Y == Excused(u, a)
    <2>1. S \in SUBSET Calls /\ Y \in SUBSET Calls /\ Y \in SUBSET Y
          /\ ActiveDevices(u, a)' = S \ ds /\ Excused(u, a)' = Y
      BY <1>3, <1>5, RevokesIs, SetsOfCalls
    <2>2. PICK maxDevices \in Limits : Cardinality(S) <= maxDevices + Cardinality(Y)
      BY DEF IInv, AllWithin, Within
    <2> HIDE DEF S, Y
    <2>3. S \ ds \in SUBSET S
      OBVIOUS
    <2>4. Cardinality(S \ ds) <= maxDevices + Cardinality(Y)
      BY <2>1, <2>2, <2>3, RoomKeeps
    <2> QED
      BY <2>1, <2>4 DEF Within
  <1>9. MachineHasOneRow'
    <2>1. \A d \in Rows : /\ device'[d].userId = device[d].userId
                          /\ device'[d].accountId = device[d].accountId
                          /\ device'[d].installationId = device[d].installationId
      BY <1>3, RevokesIs, SetsOfCalls
    <2> QED
      BY <1>3, <2>1, RevokesIs DEF IInv, MachineHasOneRow
  <1> QED
    BY <1>6, <1>7, <1>8, <1>9

LEMMA CallStep ==
  ASSUME IInv, NEW c \in Calls, NEW new \in Call, NEW ds \in SUBSET Rows,
         call' = [call EXCEPT ![c] = new], device' = Revoked(ds),
         changes' \subseteq Calls \X Actions \X Calls,
         UNCHANGED <<clock, memberships, opened, historyVars>>,
         ~In(c, "done"), Known(c, new), Reliable(c, new) \/ Reliable(c, new)',
         new.pc \in RegisterSteps \ {"log"} =>
             \/ Registering(c) /\ new.userId = call[c].userId /\ new.accountId = call[c].accountId
             \/ <<new.userId, new.accountId>> \in memberships
  PROVE  IInv'
  <1>1. TypeOK /\ TypeOK'
    BY RevokesIs DEF IInv, TypeOK, historyVars
  <1>2. CallsAreKnown' /\ CallsAreReliable' /\ AllWithin' /\ MachineHasOneRow'
    BY <1>1, CallMoves DEF historyVars
  <1>3. call'[c] = new /\ \A q \in Calls \ {c} : call'[q] = call[q]
    BY DEF IInv, TypeOK
  <1>4. StrangersAreOvertaken'
    <2>1. ASSUME NEW q \in Calls, call'[q].pc \in RegisterSteps \ {"log"},
                 <<call'[q].userId, call'[q].accountId>> \notin memberships
          PROVE  q \in overtaken
      BY <1>3, <2>1 DEF IInv, StrangersAreOvertaken, Registering
    <2> QED
      BY <2>1 DEF StrangersAreOvertaken, Registering, historyVars
  <1>5. RemovedMemberKeepsNoDevice'
    <2>1. \A d \in Rows : /\ device'[d].userId = device[d].userId
                          /\ device'[d].accountId = device[d].accountId
                          /\ Active(d)' => Active(d)
      BY <1>1, RevokesIs, SetsOfCalls
    <2> QED
      BY <1>1, <2>1, RevokesIs DEF IInv, RemovedMemberKeepsNoDevice, historyVars
  <1> QED
    BY <1>1, <1>2, <1>4, <1>5 DEF IInv

LEMMA ReadStep ==
  ASSUME IInv, NEW c \in Calls, NEW new \in Call,
         call' = [call EXCEPT ![c] = new], ReadsOnly,
         ~In(c, "done"), Known(c, new), Reliable(c, new),
         new.pc \in RegisterSteps \ {"log"} =>
             \/ Registering(c) /\ new.userId = call[c].userId /\ new.accountId = call[c].accountId
             \/ <<new.userId, new.accountId>> \in memberships
  PROVE  IInv'
  <1>1. device' = Revoked({})
    BY DEF IInv, TypeOK, Revoked, ReadsOnly, tables
  <1>2. changes' \subseteq Calls \X Actions \X Calls
    BY DEF IInv, TypeOK, ReadsOnly, tables
  <1>3. UNCHANGED <<clock, memberships, opened, historyVars>>
    BY DEF ReadsOnly, tables
  <1>4. {} \in SUBSET Rows
    OBVIOUS
  <1> QED
    BY <1>1, <1>2, <1>3, <1>4, CallStep

\* The record that Goto and GotoWith give to a call.
LEMMA GotoIs ==
  ASSUME TypeOK, NEW c \in Calls, NEW pc \in Steps, Goto(c, pc)
  PROVE  \E new \in Call :
            /\ call' = [call EXCEPT ![c] = new]
            /\ new.pc = pc /\ new.userId = call[c].userId /\ new.accountId = call[c].accountId
            /\ new.installationId = call[c].installationId /\ new.found = call[c].found
  <1> DEFINE new == [pc |-> pc, userId |-> call[c].userId, accountId |-> call[c].accountId,
                     installationId |-> call[c].installationId, found |-> call[c].found]
  <1>1. call[c] \in Call
    BY DEF TypeOK
  <1>2. new \in Call /\ [call[c] EXCEPT !.pc = pc] = new
    BY <1>1 DEF Call
  <1>3. call' = [call EXCEPT ![c] = new]
    BY <1>2 DEF Goto
  <1> QED
    BY <1>2, <1>3

LEMMA GotoWithIs ==
  ASSUME TypeOK, NEW c \in Calls, NEW pc \in Steps, NEW ds \in SUBSET Calls, GotoWith(c, pc, ds)
  PROVE  \E new \in Call :
            /\ call' = [call EXCEPT ![c] = new]
            /\ new.pc = pc /\ new.userId = call[c].userId /\ new.accountId = call[c].accountId
            /\ new.installationId = call[c].installationId /\ new.found = ds
  <1> DEFINE new(T) == [pc |-> pc, userId |-> call[c].userId, accountId |-> call[c].accountId,
                        installationId |-> call[c].installationId, found |-> T]
  <1>1. call[c] \in Call
    BY DEF TypeOK
  <1>2. new(ds) \in Call /\ [call[c] EXCEPT !.pc = pc] = new(call[c].found)
    BY <1>1 DEF Call
  <1>3. [new(call[c].found) EXCEPT !.found = ds] = new(ds)
    OBVIOUS
  <1>4. call' = [call EXCEPT ![c] = new(ds)]
    BY <1>2, <1>3 DEF GotoWith
  <1> QED
    BY <1>2, <1>4

LEMMA FailKeeps ==
  ASSUME IInv, NEW c \in Calls, ~In(c, "done"), Fail(c), ReadsOnly
  PROVE  IInv'
  <1>0. NoCall("failed") \in Call
    BY DEF NoCall, Call, Steps
  <1>1. PICK new \in Call : /\ call' = [call EXCEPT ![c] = new]
                            /\ new.pc = "failed" /\ new.found = {}
    BY <1>0 DEF Fail, NoCall
  <1>2. Known(c, new)
    BY <1>1 DEF Known, RegisterSteps, IInv, CallsAreKnown, In
  <1>3. Reliable(c, new)
    BY <1>1 DEF Reliable, Counting
  <1>4. new.pc \notin RegisterSteps
    BY <1>1 DEF RegisterSteps
  <1> QED
    BY <1>1, <1>2, <1>3, <1>4, ReadStep

\* A call that has not ended has no row, and did not reactivate one.
LEMMA OpenCalls ==
  ASSUME IInv, NEW c \in Calls
  PROVE  /\ call[c] \in Call /\ call[c].found \in SUBSET Rows /\ call[c].found \in SUBSET Calls
         /\ call[c].pc \notin {"log", "done", "failed"} => c \notin Rows
         /\ call[c].pc # "done" => c \notin unchecked
         /\ Known(c, call[c]) /\ Reliable(c, call[c])
         /\ TypeOK
  BY DEF IInv, TypeOK, CallsAreKnown, CallsAreReliable, Known, Rows

-----------------------------------------------------------------------------
\* RegisterDeviceUseCase.

LEMMA FindMembershipKeeps ==
  ASSUME IInv, NEW c \in Calls, NEW u \in Users, NEW i \in Installations, FindMembership(c, u, i)
  PROVE  IInv'
  <1>1. In(c, "idle") /\ ReadsOnly
    BY DEF FindMembership
  <1>2. CASE Fail(c)
    BY <1>1, <1>2, FailKeeps DEF In
  <1>3. CASE ~Fail(c)
    <2>1. PICK a \in Accounts :
             /\ <<u, a>> \in memberships
             /\ call' = [call EXCEPT ![c] = [pc |-> "existing", userId |-> u, accountId |-> a,
                                             installationId |-> i, found |-> {}]]
      BY <1>3 DEF FindMembership
    <2>0. [pc |-> "existing", userId |-> u, accountId |-> a, installationId |-> i,
           found |-> {}] \in Call
      BY DEF Call, Steps, RegisterSteps
    <2>2. PICK new \in Call : /\ call' = [call EXCEPT ![c] = new]
                              /\ new.pc = "existing" /\ new.userId = u /\ new.accountId = a
                              /\ new.installationId = i /\ new.found = {}
      BY <2>0, <2>1
    <2>3. Known(c, new)
      BY <1>1, <2>2, OpenCalls DEF Known, In
    <2>4. Reliable(c, new)
      BY <2>2 DEF Reliable, Counting
    <2> QED
      BY <1>1, <2>1, <2>2, <2>3, <2>4, ReadStep DEF In
  <1> QED
    BY <1>2, <1>3

LEMMA FindExistingKeeps ==
  ASSUME IInv, NEW c \in Calls, FindExisting(c)
  PROVE  IInv'
  <1> DEFINE here == At(call[c].accountId, call[c].installationId)
             own == DevicesOf(call[c].userId, call[c].accountId)
  <1>1. In(c, "existing") /\ ReadsOnly /\ Registering(c)
    BY DEF FindExisting, In, Registering, RegisterSteps
  <1>2. CASE Fail(c)
    BY <1>1, <1>2, FailKeeps DEF In
  <1>3. CASE Goto(c, "hardware")
    <2>1. PICK new \in Call :
             /\ call' = [call EXCEPT ![c] = new]
             /\ new.pc = "hardware" /\ new.userId = call[c].userId /\ new.accountId = call[c].accountId
             /\ new.installationId = call[c].installationId /\ new.found = call[c].found
      BY <1>3, OpenCalls, GotoIs DEF Steps, RegisterSteps
    <2>2. Known(c, new)
      BY <1>1, <2>1, OpenCalls DEF Known, In, RegisterSteps
    <2>3. Reliable(c, new)
      BY <2>1 DEF Reliable, Counting
    <2> QED
      BY <1>1, <2>1, <2>2, <2>3, ReadStep DEF In
  <1>4. CASE here \subseteq own /\ GotoWith(c, "reactivate", here)
    <2>1. here \in SUBSET Calls /\ here \subseteq Rows
      BY DEF At, Rows
    <2> HIDE DEF here, own
    <2>2. PICK new \in Call :
             /\ call' = [call EXCEPT ![c] = new]
             /\ new.pc = "reactivate" /\ new.userId = call[c].userId /\ new.accountId = call[c].accountId
             /\ new.installationId = call[c].installationId /\ new.found = here
      BY <1>4, <2>1, OpenCalls, GotoWithIs DEF Steps, RegisterSteps
    <2>3. Known(c, new)
      BY <1>1, <1>4, <2>1, <2>2, OpenCalls DEF Known, In, RegisterSteps, own
    <2>4. Reliable(c, new)
      BY <2>2 DEF Reliable, Counting
    <2> QED
      BY <1>1, <2>2, <2>3, <2>4, ReadStep DEF In
  <1> QED
    BY <1>2, <1>3, <1>4 DEF FindExisting

LEMMA FindHardwareKeeps ==
  ASSUME IInv, NEW c \in Calls, FindHardware(c)
  PROVE  IInv'
  <1> DEFINE same == SameHardware(call[c].userId, call[c].accountId, call[c].installationId)
  <1>1. In(c, "hardware") /\ ReadsOnly /\ Registering(c)
    BY DEF FindHardware, In, Registering, RegisterSteps
  <1>2. CASE same = {} /\ Goto(c, "count")
    <2>1. PICK new \in Call :
             /\ call' = [call EXCEPT ![c] = new]
             /\ new.pc = "count" /\ new.userId = call[c].userId /\ new.accountId = call[c].accountId
             /\ new.installationId = call[c].installationId /\ new.found = call[c].found
      BY <1>2, OpenCalls, GotoIs DEF Steps, RegisterSteps
    <2>2. Known(c, new)
      BY <1>1, <2>1, OpenCalls DEF Known, In, RegisterSteps
    <2>3. Reliable(c, new)
      BY <1>2, <2>1 DEF Reliable, Counting
    <2> QED
      BY <1>1, <2>1, <2>2, <2>3, ReadStep DEF In
  <1>3. ASSUME NEW d \in Newest(same), GotoWith(c, "reinstall", {d})
        PROVE  IInv'
    <2>1. d \in same /\ {d} \in SUBSET Calls /\ {d} \subseteq Rows
      BY DEF Newest, SameHardware, DevicesOf, Rows
    <2> HIDE DEF same
    <2>2. PICK new \in Call :
             /\ call' = [call EXCEPT ![c] = new]
             /\ new.pc = "reinstall" /\ new.userId = call[c].userId /\ new.accountId = call[c].accountId
             /\ new.installationId = call[c].installationId /\ new.found = {d}
      BY <1>3, <2>1, OpenCalls, GotoWithIs DEF Steps, RegisterSteps
    <2>3. Known(c, new)
      BY <1>1, <2>1, <2>2, OpenCalls DEF Known, In, RegisterSteps, same
    <2>4. Reliable(c, new)
      BY <2>2 DEF Reliable, Counting
    <2> QED
      BY <1>1, <2>2, <2>3, <2>4, ReadStep DEF In
  <1> QED
    BY <1>2, <1>3 DEF FindHardware

LEMMA CountActiveKeeps ==
  ASSUME IInv, NEW c \in Calls, CountActive(c)
  PROVE  IInv'
  <1> DEFINE actives == ActiveDevices(call[c].userId, call[c].accountId)
  <1>1. In(c, "count") /\ ReadsOnly /\ Registering(c)
    BY DEF CountActive, In, Registering, RegisterSteps
  <1>2. SameHardware(call[c].userId, call[c].accountId, call[c].installationId) \subseteq crossed[c]
    BY <1>1, OpenCalls DEF Reliable, In, Counting
  <1>3. CASE Goto(c, "oldest")
    <2>1. PICK new \in Call :
             /\ call' = [call EXCEPT ![c] = new]
             /\ new.pc = "oldest" /\ new.userId = call[c].userId /\ new.accountId = call[c].accountId
             /\ new.installationId = call[c].installationId /\ new.found = call[c].found
      BY <1>3, OpenCalls, GotoIs DEF Steps, RegisterSteps
    <2>2. Known(c, new)
      BY <1>1, <2>1, OpenCalls DEF Known, In, RegisterSteps
    <2>3. Reliable(c, new)
      BY <1>2, <2>1 DEF Reliable
    <2> QED
      BY <1>1, <2>1, <2>2, <2>3, ReadStep DEF In
  <1>4. ASSUME NEW maxDevices \in Limits, Cardinality(actives) < maxDevices, Goto(c, "window")
        PROVE  IInv'
    <2>1. PICK new \in Call :
             /\ call' = [call EXCEPT ![c] = new]
             /\ new.pc = "window" /\ new.userId = call[c].userId /\ new.accountId = call[c].accountId
             /\ new.installationId = call[c].installationId /\ new.found = call[c].found
      BY <1>4, OpenCalls, GotoIs DEF Steps, RegisterSteps
    <2>2. Known(c, new)
      BY <1>1, <2>1, OpenCalls DEF Known, In, RegisterSteps
    <2>3. Spare(call[c].userId, call[c].accountId, actives)
      <3> DEFINE Y == Excused(call[c].userId, call[c].accountId)
      <3>1. Cardinality(actives) \in Nat /\ Cardinality(Y) \in Nat /\ maxDevices \in Nat
        BY OpenCalls, SetsOfCalls, Counts, DevicesAssumption
      <3> HIDE DEF Y, actives
      <3>2. Cardinality(actives) + 1 <= maxDevices + Cardinality(Y)
        BY <1>4, <3>1
      <3> QED
        BY <3>2 DEF Spare, Y
    <2>4. Reliable(c, new)
      BY <1>2, <2>1, <2>3 DEF Reliable
    <2> QED
      BY <1>1, <2>1, <2>2, <2>4, ReadStep DEF In
  <1> QED
    BY <1>3, <1>4 DEF CountActive

LEMMA FindOldestKeeps ==
  ASSUME IInv, NEW c \in Calls, FindOldest(c)
  PROVE  IInv'
  <1> DEFINE actives == ActiveDevices(call[c].userId, call[c].accountId)
  <1>1. In(c, "oldest") /\ ReadsOnly /\ Registering(c)
    BY DEF FindOldest, In, Registering, RegisterSteps
  <1>2. CASE Fail(c)
    BY <1>1, <1>2, FailKeeps DEF In
  <1>3. ASSUME NEW d \in Oldest(actives), GotoWith(c, "replace", {d})
        PROVE  IInv'
    <2>1. d \in actives /\ {d} \in SUBSET Calls /\ {d} \subseteq Rows
      BY DEF Oldest, ActiveDevices, DevicesOf, Rows
    <2>2. PICK new \in Call :
             /\ call' = [call EXCEPT ![c] = new]
             /\ new.pc = "replace" /\ new.userId = call[c].userId /\ new.accountId = call[c].accountId
             /\ new.installationId = call[c].installationId /\ new.found = {d}
      BY <1>3, <2>1, OpenCalls, GotoWithIs DEF Steps, RegisterSteps
    <2>3. Known(c, new)
      BY <1>1, <2>1, <2>2, OpenCalls DEF Known, In, RegisterSteps
    <2>4. Spare(call[c].userId, call[c].accountId, actives \ {d})
      <3> DEFINE Y == Excused(call[c].userId, call[c].accountId)
      <3>1. call[c].userId \in Users /\ call[c].accountId \in Accounts
        BY <1>1, OpenCalls DEF Known, In, RegisterSteps
      <3>2. PICK maxDevices \in Limits : Cardinality(actives) <= maxDevices + Cardinality(Y)
        BY <3>1 DEF IInv, AllWithin, Within
      <3>3. Cardinality(actives \ {d}) + 1 = Cardinality(actives)
        BY <2>1, SetsOfCalls, Counts
      <3> HIDE DEF Y, actives
      <3>4. Cardinality(actives \ {d}) + 1 <= maxDevices + Cardinality(Y)
        BY <3>2, <3>3
      <3> QED
        BY <3>4 DEF Spare, Y
    <2>5. SameHardware(call[c].userId, call[c].accountId, call[c].installationId) \subseteq crossed[c]
      BY <1>1, OpenCalls DEF Reliable, In, Counting
    <2>6. Reliable(c, new)
      BY <2>2, <2>4, <2>5 DEF Reliable
    <2> QED
      BY <1>1, <2>2, <2>3, <2>6, ReadStep DEF In
  <1> QED
    BY <1>2, <1>3 DEF FindOldest

LEMMA ReplaceKeeps ==
  ASSUME IInv, NEW c \in Calls, Replace(c)
  PROVE  IInv'
  <1> DEFINE actives == ActiveDevices(call[c].userId, call[c].accountId)
             ds == call[c].found
  <1>1. In(c, "replace") /\ Registering(c)
    BY DEF Replace, In, Registering, RegisterSteps
  <1>2. PICK new \in Call :
           /\ call' = [call EXCEPT ![c] = new]
           /\ new.pc = "window" /\ new.userId = call[c].userId /\ new.accountId = call[c].accountId
           /\ new.installationId = call[c].installationId /\ new.found = {}
    <2>1. {} \in SUBSET Calls /\ "window" \in Steps /\ TypeOK /\ GotoWith(c, "window", {})
      BY OpenCalls DEF Steps, RegisterSteps, Replace
    <2> QED
      BY <2>1, GotoWithIs
  <1>3. ds \in SUBSET Rows /\ device' = Revoked(ds) /\ changes' \subseteq Calls \X Actions \X Calls
    BY OpenCalls DEF Replace, Actions, TypeOK
  <1>4. UNCHANGED <<clock, memberships, opened, historyVars>>
    BY DEF Replace
  <1>5. Known(c, new)
    BY <1>1, <1>2, OpenCalls DEF Known, In, RegisterSteps
  <1>6. TypeOK /\ TypeOK'
    BY <1>2, <1>3, <1>4, OpenCalls, RevokesIs DEF TypeOK, historyVars
  <1>7. Reliable(c, new)'
    <2>1. SameHardware(new.userId, new.accountId, new.installationId)' \subseteq crossed'[c]
      <3>1. SameHardware(call[c].userId, call[c].accountId, call[c].installationId) \subseteq crossed[c]
        BY <1>1, OpenCalls DEF Reliable, In, Counting
      <3>2. SameHardware(new.userId, new.accountId, new.installationId)'
            = SameHardware(new.userId, new.accountId, new.installationId)
        BY <1>3, <1>6, RevokesIs
      <3> QED
        BY <1>2, <1>4, <3>1, <3>2 DEF historyVars
    <2>2. ASSUME crossed'[c] = {}
          PROVE  Spare(new.userId, new.accountId, ActiveDevices(new.userId, new.accountId))'
      <3>1. Spare(call[c].userId, call[c].accountId, actives \ ds)
        BY <1>1, <1>4, <2>2, OpenCalls DEF Reliable, In, historyVars
      <3>2. ActiveDevices(new.userId, new.accountId)' = actives \ ds
        BY <1>2, <1>3, <1>6, RevokesIs
      <3>3. \A q \in unchecked : call'[q] = call[q]
        BY <1>1, <1>2, <1>6, OpenCalls DEF In, TypeOK
      <3>4. crossed' = crossed /\ unchecked' = unchecked
        BY <1>4 DEF historyVars
      <3>5. Excused(new.userId, new.accountId)' = Excused(call[c].userId, call[c].accountId)
        BY <1>2, <1>3, <1>6, <3>3, <3>4, RevokesKeep
      <3> QED
        BY <3>1, <3>2, <3>5 DEF Spare
    <2> QED
      BY <1>2, <2>1, <2>2 DEF Reliable
  <1> QED
    BY <1>1, <1>2, <1>3, <1>4, <1>5, <1>7, CallStep DEF In

LEMMA CheckWindowKeeps ==
  ASSUME IInv, NEW c \in Calls, CheckWindow(c)
  PROVE  IInv'
  <1>1. In(c, "window") /\ ReadsOnly /\ Registering(c)
    BY DEF CheckWindow, In, Registering, RegisterSteps
  <1>2. CASE Fail(c)
    BY <1>1, <1>2, FailKeeps DEF In
  <1>3. CASE Goto(c, "create")
    <2>1. PICK new \in Call :
             /\ call' = [call EXCEPT ![c] = new]
             /\ new.pc = "create" /\ new.userId = call[c].userId /\ new.accountId = call[c].accountId
             /\ new.installationId = call[c].installationId /\ new.found = call[c].found
      BY <1>3, OpenCalls, GotoIs DEF Steps, RegisterSteps
    <2>2. Known(c, new)
      BY <1>1, <2>1, OpenCalls DEF Known, In, RegisterSteps
    <2>3. Reliable(c, new)
      BY <1>1, <2>1, OpenCalls DEF Reliable, Counting, In
    <2> QED
      BY <1>1, <2>1, <2>2, <2>3, ReadStep DEF In
  <1> QED
    BY <1>2, <1>3 DEF CheckWindow

LEMMA LogRegisteredKeeps ==
  ASSUME IInv, NEW c \in Calls, LogRegistered(c)
  PROVE  IInv'
  <1>1. In(c, "log")
    BY DEF LogRegistered
  <1>2. PICK new \in Call : /\ call' = [call EXCEPT ![c] = new]
                            /\ new.pc = "done" /\ new.found = call[c].found
    <2>1. "done" \in Steps /\ TypeOK /\ Goto(c, "done")
      BY OpenCalls DEF Steps, LogRegistered
    <2> QED
      BY <2>1, GotoIs
  <1>3. device' = Revoked({}) /\ {} \in SUBSET Rows
    BY OpenCalls DEF LogRegistered, Revoked, TypeOK
  <1>4. /\ changes' \subseteq Calls \X Actions \X Calls
        /\ UNCHANGED <<clock, memberships, opened, historyVars>>
    BY OpenCalls DEF LogRegistered, Actions, TypeOK
  <1>5. Known(c, new)
    BY <1>2, OpenCalls DEF Known, RegisterSteps
  <1>6. Reliable(c, new)
    BY <1>2 DEF Reliable, Counting
  <1>7. new.pc \notin RegisterSteps
    BY <1>2 DEF RegisterSteps
  <1> QED
    BY <1>1, <1>2, <1>3, <1>4, <1>5, <1>6, <1>7, CallStep DEF In

-----------------------------------------------------------------------------
\* RevokeDeviceUseCase and RemoveMemberUseCase.

LEMMA FindOwnKeeps ==
  ASSUME IInv, NEW c \in Calls, NEW u \in Users, NEW d \in Calls, FindOwn(c, u, d)
  PROVE  IInv'
  <1>1. In(c, "idle") /\ ReadsOnly
    BY DEF FindOwn
  <1>2. CASE Fail(c)
    BY <1>1, <1>2, FailKeeps DEF In
  <1>3. CASE Active(d) /\ ~Fail(c)
    <2>1. device[d].accountId \in Accounts \cup {None} /\ d \in Rows
      BY <1>3, OpenCalls DEF TypeOK, Device, Active, Rows
    <2>2. [pc |-> "revoke", userId |-> u, accountId |-> device[d].accountId,
           installationId |-> None, found |-> {d}] \in Call
      BY <2>1 DEF Call, Steps
    <2>3. call' = [call EXCEPT ![c] = [pc |-> "revoke", userId |-> u,
                                       accountId |-> device[d].accountId,
                                       installationId |-> None, found |-> {d}]]
      BY <1>3 DEF FindOwn
    <2>4. PICK new \in Call : /\ call' = [call EXCEPT ![c] = new]
                              /\ new.pc = "revoke" /\ new.found = {d}
      BY <2>2, <2>3
    <2>5. Known(c, new)
      BY <1>1, <2>1, <2>4, OpenCalls DEF Known, In, RegisterSteps
    <2>6. Reliable(c, new) /\ new.pc \notin RegisterSteps
      BY <2>4 DEF Reliable, Counting, RegisterSteps
    <2> QED
      BY <1>1, <2>4, <2>5, <2>6, ReadStep DEF In
  <1> QED
    BY <1>2, <1>3 DEF FindOwn

LEMMA RevokeKeeps ==
  ASSUME IInv, NEW c \in Calls, Revoke(c)
  PROVE  IInv'
  <1> DEFINE ds == call[c].found
  <1>1. In(c, "revoke")
    BY DEF Revoke
  <1>2. PICK new \in Call : /\ call' = [call EXCEPT ![c] = new]
                            /\ new.pc = "done" /\ new.found = {}
    <2>1. {} \in SUBSET Calls /\ "done" \in Steps /\ TypeOK /\ GotoWith(c, "done", {})
      BY OpenCalls DEF Steps, Revoke
    <2> QED
      BY <2>1, GotoWithIs
  <1>3. ds \in SUBSET Rows /\ device' = Revoked(ds) /\ changes' \subseteq Calls \X Actions \X Calls
    BY OpenCalls DEF Revoke, Actions, TypeOK
  <1>4. UNCHANGED <<clock, memberships, opened, historyVars>>
    BY DEF Revoke
  <1>5. Known(c, new)
    BY <1>2, OpenCalls DEF Known, RegisterSteps
  <1>6. Reliable(c, new) /\ new.pc \notin RegisterSteps
    BY <1>2 DEF Reliable, Counting, RegisterSteps
  <1> QED
    BY <1>1, <1>2, <1>3, <1>4, <1>5, <1>6, CallStep DEF In

LEMMA FindMemberKeeps ==
  ASSUME IInv, NEW c \in Calls, NEW u \in Users, FindMember(c, u)
  PROVE  IInv'
  <1>1. In(c, "idle") /\ ReadsOnly
    BY DEF FindMember
  <1>2. CASE Fail(c)
    BY <1>1, <1>2, FailKeeps DEF In
  <1>3. CASE ~Fail(c)
    <2>1. call' = [call EXCEPT ![c] = [pc |-> "devices", userId |-> u, accountId |-> Family,
                                       installationId |-> None, found |-> {}]]
      BY <1>3 DEF FindMember
    <2>2. [pc |-> "devices", userId |-> u, accountId |-> Family,
           installationId |-> None, found |-> {}] \in Call
      BY DevicesAssumption DEF Call, Steps
    <2>3. PICK new \in Call : /\ call' = [call EXCEPT ![c] = new]
                              /\ new.pc = "devices" /\ new.userId = u /\ new.accountId = Family
                              /\ new.found = {}
      BY <2>1, <2>2
    <2>4. Known(c, new)
      BY <1>1, <2>3, OpenCalls, DevicesAssumption DEF Known, In, RegisterSteps
    <2>5. Reliable(c, new) /\ new.pc \notin RegisterSteps
      BY <2>3 DEF Reliable, Counting, RegisterSteps
    <2> QED
      BY <1>1, <2>3, <2>4, <2>5, ReadStep DEF In
  <1> QED
    BY <1>2, <1>3

LEMMA FindDevicesKeeps ==
  ASSUME IInv, NEW c \in Calls, FindDevices(c)
  PROVE  IInv'
  <1> DEFINE actives == ActiveDevices(call[c].userId, call[c].accountId)
  <1>1. In(c, "devices") /\ ReadsOnly /\ GotoWith(c, "remove", actives)
    BY DEF FindDevices
  <1>2. actives \in SUBSET Calls /\ actives \subseteq Rows
    BY SetsOfCalls
  <1>3. PICK new \in Call :
           /\ call' = [call EXCEPT ![c] = new]
           /\ new.pc = "remove" /\ new.userId = call[c].userId /\ new.accountId = call[c].accountId
           /\ new.found = actives
    <2>1. "remove" \in Steps /\ TypeOK
      BY OpenCalls DEF Steps
    <2> QED
      BY <1>1, <1>2, <2>1, GotoWithIs
  <1>4. Known(c, new)
    BY <1>1, <1>2, <1>3, OpenCalls DEF Known, In, RegisterSteps
  <1>5. Reliable(c, new) /\ new.pc \notin RegisterSteps
    BY <1>3 DEF Reliable, Counting, RegisterSteps
  <1> QED
    BY <1>1, <1>3, <1>4, <1>5, ReadStep DEF In

\* The devices the transaction does not revoke became ACTIVE after they were read; a
\* registration that goes on had read the membership before.
LEMMA RemoveKeeps ==
  ASSUME IInv, NEW c \in Calls, NEW personal \in Accounts, Remove(c, personal)
  PROVE  IInv'
  <1> DEFINE u == call[c].userId
             a == call[c].accountId
             ds == call[c].found
  <1>1. In(c, "remove") /\ crossed' = crossed /\ unchecked' = unchecked /\ device' = Revoked(ds)
    BY DEF Remove
  <1>2. PICK new \in Call : /\ call' = [call EXCEPT ![c] = new]
                            /\ new.pc = "done" /\ new.found = {}
    <2>1. {} \in SUBSET Calls /\ "done" \in Steps /\ TypeOK /\ GotoWith(c, "done", {})
      BY OpenCalls DEF Steps, Remove
    <2> QED
      BY <2>1, GotoWithIs
  <1>3. ds \in SUBSET Rows /\ u \in Users /\ a \in Accounts /\ TypeOK
    BY <1>1, OpenCalls DEF Known, In, RegisterSteps
  <1>4. TypeOK'
    <2>1. device' \in [Calls -> Device]
      BY <1>1, <1>3, RevokesIs
    <2>2. call' \in [Calls -> Call]
      BY <1>2, <1>3 DEF TypeOK
    <2>3. clock' = clock /\ changes' = changes
      BY DEF Remove
    <2>4. memberships' \subseteq Users \X Accounts /\ opened' \subseteq Accounts
      BY <1>3 DEF Remove, TypeOK
    <2>5. overtaken' \subseteq Calls /\ strays' \subseteq Calls
      BY <1>3, SetsOfCalls DEF Remove, TypeOK
    <2> QED
      BY <1>1, <1>3, <2>1, <2>2, <2>3, <2>4, <2>5 DEF TypeOK
  <1>5. Known(c, new) /\ Reliable(c, new)
    BY <1>1, <1>2, OpenCalls DEF Known, Reliable, In, RegisterSteps, Counting
  <1>6. CallsAreKnown' /\ CallsAreReliable' /\ AllWithin' /\ MachineHasOneRow'
    BY <1>1, <1>2, <1>3, <1>4, <1>5, CallMoves DEF In
  <1>7. \A x \in Users \X Accounts : x \notin memberships' => x \notin memberships \/ x = <<u, a>>
    BY DEF Remove
  <1>8. StrangersAreOvertaken'
    <2> SUFFICES ASSUME NEW q \in Calls, Registering(q)',
                        <<call'[q].userId, call'[q].accountId>> \notin memberships'
                 PROVE  q \in overtaken'
      BY DEF StrangersAreOvertaken
    <2>1. call'[q] = call[q] /\ Registering(q)
      BY <1>2, <1>3 DEF Registering, TypeOK, RegisterSteps
    <2>2. call[q].userId \in Users /\ call[q].accountId \in Accounts
      BY <2>1, OpenCalls DEF Known, Registering
    <2>3. CASE <<call[q].userId, call[q].accountId>> \notin memberships
      BY <2>1, <2>3 DEF IInv, StrangersAreOvertaken, Remove
    <2>4. CASE call[q].userId = u /\ call[q].accountId = a
      BY <2>1, <2>4 DEF Remove
    <2> QED
      BY <1>7, <2>1, <2>2, <2>3, <2>4
  <1>9. RemovedMemberKeepsNoDevice'
    <2> SUFFICES ASSUME NEW d \in Rows', Active(d)',
                        <<device'[d].userId, device'[d].accountId>> \notin memberships'
                 PROVE  d \in strays'
      BY DEF RemovedMemberKeepsNoDevice
    <2>1. /\ d \in Rows /\ d \in Calls /\ Active(d) /\ d \notin ds
          /\ device'[d].userId = device[d].userId /\ device'[d].accountId = device[d].accountId
      BY <1>1, <1>3, RevokesIs, SetsOfCalls
    <2>2. CASE <<device[d].userId, device[d].accountId>> \notin memberships
      BY <2>1, <2>2 DEF IInv, RemovedMemberKeepsNoDevice, Remove
    <2>3. CASE device[d].userId = u /\ device[d].accountId = a
      <3>1. d \in ActiveDevices(u, a)
        BY <2>1, <2>3 DEF ActiveDevices, DevicesOf
      <3>2. d \in crossed[c]
        BY <1>1, <2>1, <3>1, OpenCalls DEF Reliable, In
      <3> QED
        BY <3>1, <3>2 DEF Remove
    <2> QED
      BY <2>1, <2>2, <2>3 DEF Remove
  <1> QED
    BY <1>4, <1>6, <1>8, <1>9 DEF IInv

-----------------------------------------------------------------------------
(***************************************************************************)
(* Steps that make a device ACTIVE: call c of person u in account a writes *)
(* the row of d, which was a row of the same machine, or is its own.       *)
(***************************************************************************)
Wakes(c, u, a, d, new, row) ==
    /\ Registering(c) /\ call[c].userId = u /\ call[c].accountId = a
    /\ call' = [call EXCEPT ![c] = new]
    /\ new.userId = u /\ new.accountId = a /\ new.installationId = call[c].installationId
    /\ new.found \subseteq Rows
    /\ device' = [device EXCEPT ![d] = row]
    /\ row.status = "ACTIVE" /\ row.userId = u /\ row.accountId = a
    /\ clock' = clock + 1
    /\ UNCHANGED <<changes, memberships, opened, overtaken>>
    /\ Activates(c, d)
    /\ \/ /\ new.pc = "done"
          /\ d \in DevicesOf(u, a)
          /\ HardwareOf[row.installationId] = HardwareOf[device[d].installationId]
          /\ unchecked' = IF Active(d) THEN unchecked ELSE unchecked \cup {c}
       \/ /\ new.pc = "log"
          /\ In(c, "create") /\ d = c
          /\ row.installationId = call[c].installationId
          /\ unchecked' = unchecked

\* What becomes of the sets of devices, and of the other calls.
LEMMA WakesIs ==
  ASSUME IInv, NEW c \in Calls, NEW d \in Calls, NEW u \in Users, NEW a \in Accounts,
         NEW new \in Call, NEW row \in Device, Wakes(c, u, a, d, new, row)
  PROVE  /\ Rows' = Rows \cup {d}
         /\ call'[c] = new /\ \A q \in Calls \ {c} : call'[q] = call[q]
         /\ device'[d] = row /\ \A q \in Calls \ {d} : device'[q] = device[q]
         /\ d \in Rows => d \in DevicesOf(u, a) /\ new.pc = "done"
         /\ \A v, b : /\ DevicesOf(v, b) \subseteq DevicesOf(v, b)'
                      /\ DevicesOf(v, b)' \subseteq DevicesOf(v, b) \cup {d}
                      /\ ActiveDevices(v, b)' \subseteq ActiveDevices(v, b) \cup {d}
                      /\ <<v, b>> # <<u, a>> => ActiveDevices(v, b)' = ActiveDevices(v, b)
         /\ d \in DevicesOf(u, a)'
         /\ \A v, b, i : /\ SameHardware(v, b, i) \subseteq SameHardware(v, b, i)'
                         /\ SameHardware(v, b, i)' \subseteq SameHardware(v, b, i) \cup {d}
                         /\ <<v, b>> # <<u, a>> => SameHardware(v, b, i)' = SameHardware(v, b, i)
  <1>1. /\ call'[c] = new /\ \A q \in Calls \ {c} : call'[q] = call[q]
        /\ device'[d] = row /\ \A q \in Calls \ {d} : device'[q] = device[q]
    BY DEF Wakes, IInv, TypeOK
  <1>2. Rows' = Rows \cup {d}
    BY <1>1 DEF Rows, Wakes
  <1>3. c \notin Rows
    BY OpenCalls DEF Wakes, Registering, RegisterSteps
  <1>4. d \in Rows => /\ d \in DevicesOf(u, a) /\ new.pc = "done"
                      /\ HardwareOf[row.installationId] = HardwareOf[device[d].installationId]
    BY <1>3 DEF Wakes
  <1>5. /\ row.userId = u /\ row.accountId = a
        /\ d \in Rows => device[d].userId = u /\ device[d].accountId = a
    BY <1>4 DEF Wakes, DevicesOf
  <1>6. ASSUME NEW v, NEW b
        PROVE  /\ DevicesOf(v, b) \subseteq DevicesOf(v, b)'
               /\ DevicesOf(v, b)' \subseteq DevicesOf(v, b) \cup {d}
               /\ <<v, b>> # <<u, a>> => DevicesOf(v, b)' = DevicesOf(v, b) /\ d \notin DevicesOf(v, b)
    BY <1>1, <1>2, <1>5, SetsOfCalls DEF DevicesOf
  <1>7. ASSUME NEW v, NEW b
        PROVE  /\ ActiveDevices(v, b)' \subseteq ActiveDevices(v, b) \cup {d}
               /\ <<v, b>> # <<u, a>> => ActiveDevices(v, b)' = ActiveDevices(v, b)
    BY <1>1, <1>6, SetsOfCalls DEF ActiveDevices, Active
  <1>8. ASSUME NEW v, NEW b, NEW i
        PROVE  /\ SameHardware(v, b, i) \subseteq SameHardware(v, b, i)'
               /\ SameHardware(v, b, i)' \subseteq SameHardware(v, b, i) \cup {d}
               /\ <<v, b>> # <<u, a>> => SameHardware(v, b, i)' = SameHardware(v, b, i)
    <2>1. \A e \in DevicesOf(v, b) : HardwareOf[device'[e].installationId] = HardwareOf[device[e].installationId]
      BY <1>1, <1>4, SetsOfCalls
    <2> QED
      BY <1>6, <2>1 DEF SameHardware
  <1>9. d \in DevicesOf(u, a)'
    BY <1>1, <1>2, <1>5 DEF DevicesOf
  <1> QED
    BY <1>1, <1>2, <1>4, <1>6, <1>7, <1>8, <1>9

\* Every call that relies on the person's devices is told, and an excess is excused.
LEMMA WakesTell ==
  ASSUME IInv, NEW c \in Calls, NEW d \in Calls, NEW u \in Users, NEW a \in Accounts,
         NEW new \in Call, NEW row \in Device, Wakes(c, u, a, d, new, row)
  PROVE  /\ \A q \in Calls : crossed[q] \subseteq crossed'[q]
         /\ \A q \in Relying(u, a) \ {c} : d \in crossed'[q]
         /\ crossed'[c] = crossed[c]
         /\ \A v, b : Excused(v, b) \subseteq Excused(v, b)'
         /\ c \notin Excused(u, a)
         /\ \/ d \in ActiveDevices(u, a)
            \/ c \in Excused(u, a)'
            \/ Spare(u, a, ActiveDevices(u, a))
  <1>1. crossed \in [Calls -> SUBSET Calls]
    BY DEF IInv, TypeOK
  <1>2. /\ \A q \in Calls : crossed[q] \subseteq crossed'[q]
        /\ \A q \in Relying(u, a) \ {c} : d \in crossed'[q]
        /\ crossed'[c] = crossed[c]
    BY <1>1 DEF Wakes, Activates, Relying
  <1>3. c \notin Rows /\ c \notin unchecked
    BY OpenCalls DEF Wakes, Registering, RegisterSteps
  <1>4. unchecked \subseteq unchecked' /\ unchecked \subseteq Calls
    BY DEF Wakes, IInv, TypeOK
  <1>5. ASSUME NEW v, NEW b
        PROVE  Excused(v, b) \subseteq Excused(v, b)'
    <2>1. Uncounted(v, b) \subseteq Uncounted(v, b)'
      BY <1>3, <1>4, WakesIs DEF Uncounted
    <2>2. Miscounted(v, b) \subseteq Miscounted(v, b)'
      BY <1>2, WakesIs, SetsOfCalls DEF Miscounted
    <2> QED
      BY <2>1, <2>2 DEF Excused
  <1>6. c \notin Excused(u, a)
    BY <1>3, SetsOfCalls DEF Excused, Uncounted, Miscounted
  <1>7. ASSUME d \notin ActiveDevices(u, a), c \notin Excused(u, a)'
        PROVE  Spare(u, a, ActiveDevices(u, a))
    <2>1. call'[c].userId = u /\ call'[c].accountId = a
      BY WakesIs DEF Wakes
    <2>2. c \notin unchecked'
      BY <1>7, <2>1 DEF Excused, Uncounted
    <2>3. ~(d \in DevicesOf(u, a) /\ unchecked' = IF Active(d) THEN unchecked ELSE unchecked \cup {c})
      BY <1>7, <2>2 DEF ActiveDevices
    <2>4. In(c, "create") /\ d = c
      BY <2>3 DEF Wakes
    <2>5. crossed[c] = {}
      BY <1>2, <1>7, <2>4, WakesIs DEF Excused, Miscounted
    <2>6. call[c].userId = u /\ call[c].accountId = a
      BY DEF Wakes
    <2>7. Reliable(c, call[c])
      BY OpenCalls
    <2> QED
      BY <2>4, <2>5, <2>6, <2>7 DEF Reliable, In
  <1> QED
    BY <1>2, <1>5, <1>6, <1>7

LEMMA WakesKeeps ==
  ASSUME IInv, NEW c \in Calls, NEW d \in Calls, NEW u \in Users, NEW a \in Accounts,
         NEW new \in Call, NEW row \in Device, Wakes(c, u, a, d, new, row)
  PROVE  IInv'
  <1>1. /\ call'[c] = new /\ new.pc \in {"done", "log"} /\ new.found \subseteq Rows'
        /\ new.userId = u /\ new.accountId = a /\ new.installationId = call[c].installationId
        /\ \A q \in Calls \ {c} : call'[q] = call[q]
    <2>1. call'[c] = new /\ \A q \in Calls \ {c} : call'[q] = call[q]
      BY WakesIs
    <2>2. /\ new.pc \in {"done", "log"} /\ new.found \subseteq Rows
          /\ new.userId = u /\ new.accountId = a /\ new.installationId = call[c].installationId
      BY DEF Wakes
    <2> QED
      BY <2>1, <2>2, WakesIs
  <1>2. TypeOK
    BY OpenCalls
  <1>3. TypeOK'
    <2>1. device' \in [Calls -> Device] /\ call' \in [Calls -> Call]
      BY <1>2 DEF Wakes, TypeOK
    <2>2. clock' \in Nat /\ changes' = changes /\ memberships' = memberships
          /\ opened' = opened /\ overtaken' = overtaken
      BY <1>2 DEF Wakes, TypeOK
    <2>3. unchecked' \subseteq Calls
      BY <1>2 DEF Wakes, TypeOK
    <2>4. crossed' \in [Calls -> SUBSET Calls] /\ strays' \subseteq Calls
      BY <1>2 DEF Wakes, Activates, TypeOK
    <2> QED
      BY <1>2, <2>1, <2>2, <2>3, <2>4 DEF TypeOK
  <1>4. CallsAreKnown'
    <2>1. ASSUME NEW q \in Calls, q # c
          PROVE  Known(q, call[q])'
      <3>1. PICK k \in Call : k = call[q] /\ k = call'[q] /\ Known(q, k)
        BY <1>1, <2>1, OpenCalls
      <3>2. q \in Rows' => q \in Rows
        <4>1. q = d => q \in Rows
          BY <2>1, SetsOfCalls DEF Wakes
        <4> QED
          BY <4>1, WakesIs
      <3>3. q \in unchecked' => q \in unchecked
        BY <2>1 DEF Wakes
      <3>4. /\ Rows \subseteq Rows'
            /\ DevicesOf(k.userId, k.accountId) \subseteq DevicesOf(k.userId, k.accountId)'
            /\ SameHardware(k.userId, k.accountId, k.installationId)
                 \subseteq SameHardware(k.userId, k.accountId, k.installationId)'
        BY WakesIs
      <3>5. Known(q, k)'
        BY <3>1, <3>2, <3>3, <3>4 DEF Known
      <3> QED
        BY <3>1, <3>5 DEF Known
    <2>2. Known(c, call[c])'
      <3>1. new.pc # "done" => c \notin unchecked'
        BY OpenCalls DEF Wakes, In
      <3>2. call[c].installationId \in Installations
        BY OpenCalls DEF Wakes, Registering, Known
      <3> QED
        BY <1>1, <3>1, <3>2 DEF Known, RegisterSteps
    <2> QED
      BY <2>1, <2>2 DEF CallsAreKnown
  <1>5. ASSUME NEW v, NEW b, NEW T \in SUBSET Calls
        PROVE  /\ Spare(v, b, T) => \E m \in Limits : Cardinality(T) + 1 <= m + Cardinality(Excused(v, b)')
               /\ Within(v, b, T) => \E m \in Limits : Cardinality(T) <= m + Cardinality(Excused(v, b)')
    <2>1. Excused(v, b) \in SUBSET (Excused(v, b)') /\ Excused(v, b)' \in SUBSET Calls
      <3>1. Excused(v, b) \subseteq Excused(v, b)'
        BY WakesTell
      <3>2. Excused(v, b)' \subseteq Calls
        BY <1>3 DEF TypeOK, Excused, Uncounted, Miscounted, DevicesOf, Rows
      <3> QED
        BY <3>1, <3>2
    <2>2. T \in SUBSET T
      OBVIOUS
    <2> DEFINE X == Excused(v, b)
               Y == Excused(v, b)'
    <2> HIDE DEF X, Y
    <2>3. X \in SUBSET Y /\ Y \in SUBSET Calls
      BY <2>1 DEF X, Y
    <2>4. /\ (\E m \in Limits : Cardinality(T) + 1 <= m + Cardinality(X))
                => \E m \in Limits : Cardinality(T) + 1 <= m + Cardinality(Y)
          /\ (\E m \in Limits : Cardinality(T) <= m + Cardinality(X))
                => \E m \in Limits : Cardinality(T) <= m + Cardinality(Y)
      BY <2>2, <2>3, RoomKeeps
    <2> QED
      BY <2>4 DEF Spare, Within, X, Y
  <1>6. CallsAreReliable'
    <2>1. ASSUME NEW q \in Calls, q # c
          PROVE  Reliable(q, call[q])'
      <3>1. PICK k \in Call : k = call[q] /\ k = call'[q] /\ Reliable(q, k)
        BY <1>1, <2>1, OpenCalls
      <3>2. crossed[q] \subseteq crossed'[q]
        BY WakesTell
      <3>3. k.pc \in Counting \cup {"remove"} /\ k.userId = u /\ k.accountId = a => d \in crossed'[q]
        <4>1. k.pc \in Counting \cup {"remove"} /\ k.userId = u /\ k.accountId = a
                 => q \in Relying(u, a) \ {c}
          BY <2>1, <3>1 DEF Relying, Counting
        <4> QED
          BY <4>1, WakesTell
      <3>4. ~(k.userId = u /\ k.accountId = a) =>
                ActiveDevices(k.userId, k.accountId)' = ActiveDevices(k.userId, k.accountId)
        BY WakesIs
      <3>5. k.pc \in Counting =>
                SameHardware(k.userId, k.accountId, k.installationId)' \subseteq crossed'[q]
        <4>1. /\ SameHardware(k.userId, k.accountId, k.installationId)'
                    \subseteq SameHardware(k.userId, k.accountId, k.installationId) \cup {d}
              /\ ~(k.userId = u /\ k.accountId = a) =>
                    SameHardware(k.userId, k.accountId, k.installationId)'
                    = SameHardware(k.userId, k.accountId, k.installationId)
          BY WakesIs
        <4> QED
          BY <3>1, <3>2, <3>3, <4>1 DEF Reliable
      <3>6. k.pc = "remove" =>
                ActiveDevices(k.userId, k.accountId)' \subseteq k.found \cup crossed'[q]
        <4>1. ActiveDevices(k.userId, k.accountId)' \subseteq ActiveDevices(k.userId, k.accountId) \cup {d}
          BY WakesIs
        <4> QED
          BY <3>1, <3>2, <3>3, <3>4, <4>1 DEF Reliable
      <3>7. ASSUME k.pc \in {"replace", "window", "create"}, crossed'[q] = {}
            PROVE  /\ crossed[q] = {}
                   /\ ActiveDevices(k.userId, k.accountId)' = ActiveDevices(k.userId, k.accountId)
        BY <3>2, <3>3, <3>4, <3>7 DEF Counting
      <3>8. ASSUME k.pc = "replace", crossed'[q] = {}
            PROVE  Spare(k.userId, k.accountId, ActiveDevices(k.userId, k.accountId) \ k.found)'
        <4> DEFINE T == ActiveDevices(k.userId, k.accountId) \ k.found
        <4>1. Spare(k.userId, k.accountId, T)
          BY <3>1, <3>7, <3>8 DEF Reliable
        <4>2. T \in SUBSET Calls /\ (ActiveDevices(k.userId, k.accountId) \ k.found)' = T
          BY <3>7, <3>8, SetsOfCalls
        <4> QED
          BY <1>5, <4>1, <4>2 DEF Spare
      <3>9. ASSUME k.pc \in {"window", "create"}, crossed'[q] = {}
            PROVE  Spare(k.userId, k.accountId, ActiveDevices(k.userId, k.accountId))'
        <4> DEFINE T == ActiveDevices(k.userId, k.accountId)
        <4>1. Spare(k.userId, k.accountId, T)
          BY <3>1, <3>7, <3>9 DEF Reliable
        <4>2. T \in SUBSET Calls /\ ActiveDevices(k.userId, k.accountId)' = T
          BY <3>7, <3>9, SetsOfCalls
        <4> QED
          BY <1>5, <4>1, <4>2 DEF Spare
      <3>10. Reliable(q, k)'
        BY <3>5, <3>6, <3>8, <3>9 DEF Reliable
      <3> QED
        BY <3>1, <3>10 DEF Reliable
    <2>2. Reliable(c, call[c])'
      BY <1>1 DEF Reliable, Counting
    <2> QED
      BY <2>1, <2>2 DEF CallsAreReliable
  <1>7. StrangersAreOvertaken'
    <2>1. \A q \in Calls : Registering(q)' => q # c /\ call'[q] = call[q] /\ Registering(q)
      BY <1>1 DEF Registering, RegisterSteps
    <2> QED
      BY <2>1 DEF IInv, StrangersAreOvertaken, Wakes
  <1>8. AllWithin'
    <2> SUFFICES ASSUME NEW v \in Users, NEW b \in Accounts
                 PROVE  Within(v, b, ActiveDevices(v, b))'
      BY DEF AllWithin
    <2> DEFINE S == ActiveDevices(v, b)
               T == ActiveDevices(v, b)'
               X == Excused(v, b)
               Y == Excused(v, b)'
    <2>1. /\ S \in SUBSET Calls /\ T \in SUBSET Calls /\ T \in SUBSET (S \cup {d})
          /\ X \in SUBSET Calls /\ Y \in SUBSET Calls /\ X \in SUBSET Y
      <3>1. T \subseteq S \cup {d}
        BY WakesIs
      <3>2. X \subseteq Y
        BY WakesTell
      <3>3. S \subseteq Calls /\ X \subseteq Calls
        BY <1>2, SetsOfCalls
      <3>4. T \subseteq Calls /\ Y \subseteq Calls
        BY <1>3 DEF TypeOK, Excused, Uncounted, Miscounted, DevicesOf, Rows, ActiveDevices
      <3> QED
        BY <3>1, <3>2, <3>3, <3>4
    <2>2. /\ Cardinality(S) \in Nat /\ Cardinality(T) \in Nat
          /\ Cardinality(X) \in Nat /\ Cardinality(Y) \in Nat
      <3> HIDE DEF S, T, X, Y
      <3> QED
        BY <2>1, Counts
    <2>3. CASE T \subseteq S
      <3>1. PICK m \in Limits : Cardinality(S) <= m + Cardinality(Y)
        BY <1>5, <2>1 DEF IInv, AllWithin
      <3> HIDE DEF S, T, X, Y
      <3>2. Cardinality(T) <= Cardinality(S)
        BY <2>1, <2>3, Counts
      <3>3. Cardinality(T) <= m + Cardinality(Y)
        BY <2>2, <3>1, <3>2, DevicesAssumption
      <3> QED
        BY <3>3 DEF Within, T, Y
    <2>4. Cardinality(T) <= Cardinality(S) + 1
      <3> HIDE DEF S, T, X, Y
      <3>1. S \cup {d} \in SUBSET Calls
        BY <2>1
      <3>2. Cardinality(T) <= Cardinality(S \cup {d}) /\ Cardinality(S \cup {d}) \in Nat
        BY <2>1, <3>1, Counts
      <3>3. Cardinality(S \cup {d}) <= Cardinality(S) + 1
        BY <2>1, Counts
      <3> QED
        BY <2>2, <3>2, <3>3
    <2>5. CASE Spare(v, b, S)
      <3>1. PICK m \in Limits : Cardinality(S) + 1 <= m + Cardinality(Y)
        BY <1>5, <2>1, <2>5
      <3> HIDE DEF S, T, X, Y
      <3>2. Cardinality(T) <= m + Cardinality(Y)
        BY <2>2, <2>4, <3>1, DevicesAssumption
      <3> QED
        BY <3>2 DEF Within, T, Y
    <2>6. CASE c \in Y /\ c \notin X
      <3>1. PICK m \in Limits : Cardinality(S) <= m + Cardinality(X)
        BY DEF IInv, AllWithin, Within
      <3> HIDE DEF S, T, X, Y
      <3>2. Cardinality(X) + 1 <= Cardinality(Y)
        <4>1. X \cup {c} \in SUBSET Y
          BY <2>1, <2>6
        <4>2. Cardinality(X \cup {c}) <= Cardinality(Y)
          BY <2>1, <4>1, Counts
        <4>3. Cardinality(X \cup {c}) = Cardinality(X) + 1
          BY <2>1, <2>6, Counts
        <4> QED
          BY <4>2, <4>3
      <3>3. Cardinality(T) <= m + Cardinality(Y)
        BY <2>2, <2>4, <3>1, <3>2, DevicesAssumption
      <3> QED
        BY <3>3 DEF Within, T, Y
    <2>7. CASE <<v, b>> # <<u, a>>
      <3>1. T = S
        BY <2>7, WakesIs
      <3> QED
        BY <2>3, <3>1
    <2>8. CASE v = u /\ b = a
      <3>1. d \in S \/ c \in Y \/ Spare(v, b, S)
        BY <2>8, WakesTell
      <3>2. c \notin X
        BY <2>8, WakesTell
      <3>3. d \in S => T \subseteq S
        BY <2>1
      <3> QED
        BY <2>3, <2>5, <2>6, <3>1, <3>2, <3>3
    <2> QED
      BY <2>7, <2>8
  <1>9. MachineHasOneRow'
    <2>1. ASSUME NEW x \in Rows', NEW y \in Rows', x # y,
                 device'[x].userId = device'[y].userId, device'[x].accountId = device'[y].accountId,
                 HardwareOf[device'[x].installationId] = HardwareOf[device'[y].installationId]
          PROVE  x \in crossed'[y] \/ y \in crossed'[x]
      <3>1. \A z \in Rows : /\ device'[z].userId = device[z].userId
                            /\ device'[z].accountId = device[z].accountId
                            /\ HardwareOf[device'[z].installationId] = HardwareOf[device[z].installationId]
        <4>1. d \in Rows => /\ device[d].userId = u /\ device[d].accountId = a
                            /\ HardwareOf[row.installationId] = HardwareOf[device[d].installationId]
          <5>1. c \notin Rows
            BY OpenCalls DEF Wakes, Registering, RegisterSteps
          <5> QED
            BY <5>1 DEF Wakes, DevicesOf
        <4>2. row.userId = u /\ row.accountId = a
          BY DEF Wakes
        <4>3. device'[d] = row /\ \A z \in Calls \ {d} : device'[z] = device[z]
          BY WakesIs
        <4> QED
          BY <4>1, <4>2, <4>3, SetsOfCalls
      <3>2. \A z \in Calls : crossed[z] \subseteq crossed'[z]
        BY WakesTell
      <3>3. CASE x \in Rows /\ y \in Rows
        <4>1. x \in crossed[y] \/ y \in crossed[x]
          BY <2>1, <3>1, <3>3 DEF IInv, MachineHasOneRow
        <4> QED
          BY <3>2, <3>3, <4>1, SetsOfCalls
      <3>4. ASSUME NEW z \in Rows, d \notin Rows,
                   device'[z].userId = device'[d].userId, device'[z].accountId = device'[d].accountId,
                   HardwareOf[device'[z].installationId] = HardwareOf[device'[d].installationId]
            PROVE  z \in crossed'[d]
        <4>1. In(c, "create") /\ d = c /\ row.installationId = call[c].installationId
              /\ row.userId = u /\ row.accountId = a /\ call[c].userId = u /\ call[c].accountId = a
          BY <3>4 DEF Wakes, DevicesOf
        <4>2. device'[d] = row
          BY WakesIs
        <4>3. z \in SameHardware(call[c].userId, call[c].accountId, call[c].installationId)
          BY <3>1, <3>4, <4>1, <4>2 DEF SameHardware, DevicesOf
        <4>4. Reliable(c, call[c])
          BY OpenCalls
        <4> QED
          BY <3>2, <4>1, <4>3, <4>4 DEF Reliable, In, Counting
      <3>5. (x = d \/ x \in Rows) /\ (y = d \/ y \in Rows)
        BY WakesIs
      <3> QED
        BY <2>1, <3>3, <3>4, <3>5
    <2> QED
      BY <2>1 DEF MachineHasOneRow
  <1>10. RemovedMemberKeepsNoDevice'
    <2> SUFFICES ASSUME NEW x \in Rows', Active(x)',
                        <<device'[x].userId, device'[x].accountId>> \notin memberships'
                 PROVE  x \in strays'
      BY DEF RemovedMemberKeepsNoDevice
    <2>1. memberships' = memberships /\ strays \subseteq strays'
      BY DEF Wakes, Activates
    <2>2. CASE x # d
      <3>1. x \in Rows /\ x \in Calls /\ device'[x] = device[x]
        BY <2>2, WakesIs, SetsOfCalls
      <3>2. Active(x)
        BY <3>1 DEF Active
      <3> QED
        BY <2>1, <3>1, <3>2 DEF IInv, RemovedMemberKeepsNoDevice
    <2>3. CASE x = d
      <3>1. device'[d] = row
        BY WakesIs
      <3>2. <<u, a>> \notin memberships
        BY <2>1, <2>3, <3>1 DEF Wakes
      <3>3. c \in overtaken
        BY <3>2 DEF IInv, StrangersAreOvertaken, Wakes
      <3> QED
        BY <2>3, <3>3 DEF Wakes, Activates
    <2> QED
      BY <2>2, <2>3
  <1> QED
    BY <1>3, <1>4, <1>6, <1>7, <1>8, <1>9, <1>10 DEF IInv

\* The row of a device that is made ACTIVE again.
LEMMA ReactivatedIs ==
  ASSUME TypeOK, NEW d \in Calls, NEW i \in Installations \cup {None}
  PROVE  \E row \in Device : /\ Reactivated(d, i) = [device EXCEPT ![d] = row]
                             /\ row.status = "ACTIVE"
                             /\ row.userId = device[d].userId /\ row.accountId = device[d].accountId
                             /\ row.installationId = i
  <1> DEFINE r0 == [status |-> device[d].status, userId |-> device[d].userId,
                    accountId |-> device[d].accountId, installationId |-> device[d].installationId,
                    lastSeenAt |-> device[d].lastSeenAt]
             r1 == [r0 EXCEPT !.status = "ACTIVE"]
             r2 == [r1 EXCEPT !.lastSeenAt = clock + 1]
             row == [status |-> "ACTIVE", userId |-> device[d].userId,
                     accountId |-> device[d].accountId, installationId |-> i,
                     lastSeenAt |-> clock + 1]
  <1>1. device[d] \in Device /\ clock + 1 \in Nat
    BY DEF TypeOK
  <1>2. device[d] = r0
    BY <1>1 DEF Device
  <1>3. [r2 EXCEPT !.installationId = i] = row
    <2>2. r1 = [status |-> "ACTIVE", userId |-> device[d].userId,
                accountId |-> device[d].accountId, installationId |-> device[d].installationId,
                lastSeenAt |-> device[d].lastSeenAt]
      OBVIOUS
    <2> HIDE DEF r1
    <2>3. r2 = [status |-> "ACTIVE", userId |-> device[d].userId,
                accountId |-> device[d].accountId, installationId |-> device[d].installationId,
                lastSeenAt |-> clock + 1]
      BY <2>2
    <2> HIDE DEF r2
    <2> QED
      BY <2>3
  <1>4. row \in Device
    BY <1>1 DEF Device, Status
  <1>5. Reactivated(d, i) = [device EXCEPT ![d] = row]
    BY <1>2, <1>3 DEF Reactivated
  <1> QED
    BY <1>4, <1>5

LEMMA ReactivateKeeps ==
  ASSUME IInv, NEW c \in Calls, Reactivate(c)
  PROVE  IInv'
  <1> DEFINE u == call[c].userId
             a == call[c].accountId
  <1>1. In(c, "reactivate") /\ Registering(c) /\ TypeOK
    BY OpenCalls DEF Reactivate, In, Registering, RegisterSteps
  <1>2. u \in Users /\ a \in Accounts /\ call[c].found \subseteq DevicesOf(u, a)
    BY <1>1, OpenCalls DEF Known, In, RegisterSteps
  <1>3. PICK d \in call[c].found :
           /\ device' = Reactivated(d, device[d].installationId)
           /\ unchecked' = IF Active(d) THEN unchecked ELSE unchecked \cup {c}
           /\ Activates(c, d)
    BY DEF Reactivate
  <1>4. d \in Calls /\ d \in DevicesOf(u, a) /\ device[d].installationId \in Installations \cup {None}
    BY <1>1, <1>2, <1>3, SetsOfCalls DEF TypeOK, Device
  <1>5. PICK row \in Device : /\ device' = [device EXCEPT ![d] = row]
                              /\ row.status = "ACTIVE"
                              /\ row.userId = device[d].userId /\ row.accountId = device[d].accountId
                              /\ row.installationId = device[d].installationId
    <2>1. PICK i \in Installations \cup {None} : i = device[d].installationId
      BY <1>4
    <2>2. device' = Reactivated(d, i)
      BY <1>3, <2>1
    <2> QED
      BY <1>1, <1>4, <2>1, <2>2, ReactivatedIs
  <1>6. PICK new \in Call :
           /\ call' = [call EXCEPT ![c] = new]
           /\ new.pc = "done" /\ new.userId = u /\ new.accountId = a
           /\ new.installationId = call[c].installationId /\ new.found = {}
    <2>1. {} \in SUBSET Calls /\ "done" \in Steps /\ GotoWith(c, "done", {})
      BY DEF Steps, Reactivate
    <2> QED
      BY <1>1, <2>1, GotoWithIs
  <1>7. clock' = clock + 1 /\ UNCHANGED <<changes, memberships, opened, overtaken>>
    BY DEF Reactivate
  <1>8. Wakes(c, u, a, d, new, row)
    BY <1>1, <1>3, <1>4, <1>5, <1>6, <1>7 DEF Wakes, DevicesOf
  <1> QED
    BY <1>2, <1>4, <1>8, WakesKeeps

LEMMA ReinstallKeeps ==
  ASSUME IInv, NEW c \in Calls, Reinstall(c)
  PROVE  IInv'
  <1> DEFINE u == call[c].userId
             a == call[c].accountId
             i == call[c].installationId
  <1>1. In(c, "reinstall") /\ Registering(c) /\ TypeOK
    BY OpenCalls DEF Reinstall, In, Registering, RegisterSteps
  <1>2. CASE Fail(c) /\ ReadsOnly
    BY <1>1, <1>2, FailKeeps DEF In
  <1>3. CASE ~(Fail(c) /\ ReadsOnly)
    <2>1. /\ u \in Users /\ a \in Accounts /\ i \in Installations
          /\ call[c].found \subseteq SameHardware(u, a, i)
      BY <1>1, OpenCalls DEF Known, In, RegisterSteps
    <2>2. PICK d \in call[c].found :
             /\ device' = Reactivated(d, i)
             /\ unchecked' = IF Active(d) THEN unchecked ELSE unchecked \cup {c}
             /\ Activates(c, d)
      BY <1>3 DEF Reinstall
    <2>3. /\ d \in Calls /\ d \in DevicesOf(u, a)
          /\ HardwareOf[device[d].installationId] = HardwareOf[i]
      BY <2>1, <2>2, SetsOfCalls DEF SameHardware
    <2>4. PICK row \in Device : /\ device' = [device EXCEPT ![d] = row]
                                /\ row.status = "ACTIVE"
                                /\ row.userId = device[d].userId /\ row.accountId = device[d].accountId
                                /\ row.installationId = i
      BY <1>1, <2>1, <2>2, <2>3, ReactivatedIs
    <2>5. PICK new \in Call :
             /\ call' = [call EXCEPT ![c] = new]
             /\ new.pc = "done" /\ new.userId = u /\ new.accountId = a
             /\ new.installationId = call[c].installationId /\ new.found = {}
      <3>1. {} \in SUBSET Calls /\ "done" \in Steps /\ GotoWith(c, "done", {})
        BY <1>3 DEF Steps, Reinstall
      <3> QED
        BY <1>1, <3>1, GotoWithIs
    <2>6. clock' = clock + 1 /\ UNCHANGED <<changes, memberships, opened, overtaken>>
      BY <1>3 DEF Reinstall
    <2>7. Wakes(c, u, a, d, new, row)
      BY <1>1, <2>2, <2>3, <2>4, <2>5, <2>6 DEF Wakes, DevicesOf
    <2> QED
      BY <2>1, <2>3, <2>7, WakesKeeps
  <1> QED
    BY <1>2, <1>3

LEMMA CreateKeeps ==
  ASSUME IInv, NEW c \in Calls, Create(c)
  PROVE  IInv'
  <1> DEFINE u == call[c].userId
             a == call[c].accountId
             i == call[c].installationId
             row == [status |-> "ACTIVE", userId |-> u, accountId |-> a,
                     installationId |-> i, lastSeenAt |-> clock + 1]
  <1>1. In(c, "create") /\ Registering(c) /\ TypeOK
    BY OpenCalls DEF Create, In, Registering, RegisterSteps
  <1>2. CASE Fail(c) /\ ReadsOnly
    BY <1>1, <1>2, FailKeeps DEF In
  <1>3. CASE ~(Fail(c) /\ ReadsOnly)
    <2>1. u \in Users /\ a \in Accounts /\ i \in Installations
      BY <1>1, OpenCalls DEF Known, In, RegisterSteps
    <2>2. row \in Device
      BY <1>1, <2>1 DEF Device, Status, TypeOK
    <2>3. PICK r \in Device : /\ device' = [device EXCEPT ![c] = r]
                              /\ r.status = "ACTIVE" /\ r.userId = u /\ r.accountId = a
                              /\ r.installationId = i
      BY <1>3, <2>2 DEF Create
    <2>4. PICK new \in Call :
             /\ call' = [call EXCEPT ![c] = new]
             /\ new.pc = "log" /\ new.userId = u /\ new.accountId = a
             /\ new.installationId = i /\ new.found = call[c].found
      <3>1. "log" \in Steps /\ Goto(c, "log")
        BY <1>3 DEF Steps, RegisterSteps, Create
      <3> QED
        BY <1>1, <3>1, GotoIs
    <2>5. /\ clock' = clock + 1 /\ UNCHANGED <<changes, memberships, opened, unchecked, overtaken>>
          /\ Activates(c, c)
      BY <1>3 DEF Create
    <2>6. Wakes(c, u, a, c, new, r)
      BY <1>1, <2>3, <2>4, <2>5, OpenCalls DEF Wakes
    <2> QED
      BY <2>1, <2>6, WakesKeeps
  <1> QED
    BY <1>2, <1>3

-----------------------------------------------------------------------------
LEMMA CrashKeeps == IInv /\ Crash => IInv'
  <1> SUFFICES ASSUME IInv, Crash PROVE IInv'
    OBVIOUS
  <1>1. /\ UNCHANGED <<device, clock, changes, memberships, opened, crossed, unchecked, overtaken, strays>>
        /\ \A c \in Calls :
              call'[c] = IF call[c].pc \in {"idle", "done", "failed"} THEN call[c] ELSE NoCall("failed")
    BY DEF Crash, ReadsOnly, tables, historyVars
  <1>2. TypeOK'
    <2>1. NoCall("failed") \in Call
      BY DEF NoCall, Call, Steps
    <2>2. call' \in [Calls -> Call]
      BY <2>1 DEF Crash, IInv, TypeOK
    <2> QED
      BY <1>1, <2>2 DEF IInv, TypeOK
  <1>3. device' = Revoked({}) /\ {} \in SUBSET Rows /\ TypeOK
    BY <1>1 DEF IInv, TypeOK, Revoked
  <1>4. \A q \in unchecked : call'[q] = call[q]
    BY <1>1, <1>3, OpenCalls DEF TypeOK
  <1>5. /\ \A u, a : Excused(u, a)' = Excused(u, a)
        /\ \A q \in Calls, k \in Call : /\ Known(q, k) => Known(q, k)'
                                        /\ Reliable(q, k) => Reliable(q, k)'
    BY <1>1, <1>2, <1>3, <1>4, RevokesKeep
  <1>6. ASSUME NEW q \in Calls
        PROVE  Known(q, call[q])' /\ Reliable(q, call[q])'
    <2>1. PICK k \in Call : k = call'[q]
      BY <1>2 DEF TypeOK
    <2>2. Known(q, k) /\ Reliable(q, k)
      <3>1. CASE k = call[q]
        BY <3>1, OpenCalls
      <3>2. CASE k # call[q]
        <4>1. k.pc = "failed" /\ k.found = {} /\ call[q].pc # "done"
          BY <1>1, <2>1, <3>2 DEF NoCall
        <4> QED
          BY <4>1, OpenCalls DEF Known, Reliable, RegisterSteps, Counting
      <3> QED
        BY <3>1, <3>2
    <2>3. Known(q, k)' /\ Reliable(q, k)'
      BY <1>5, <2>2
    <2> QED
      BY <2>1, <2>3 DEF Known, Reliable
  <1>7. StrangersAreOvertaken'
    <2>1. \A q \in Calls : Registering(q)' => call'[q] = call[q]
      BY <1>1 DEF Registering, NoCall, RegisterSteps
    <2> QED
      BY <1>1, <2>1 DEF IInv, StrangersAreOvertaken, Registering
  <1>8. AllWithin' /\ MachineHasOneRow' /\ RemovedMemberKeepsNoDevice'
    <2>1. \A u, a : ActiveDevices(u, a)' = ActiveDevices(u, a)
      BY <1>1 DEF ActiveDevices, DevicesOf, Rows, Active
    <2>2. AllWithin'
      BY <1>5, <2>1 DEF IInv, AllWithin, Within
    <2>3. MachineHasOneRow' /\ RemovedMemberKeepsNoDevice'
      BY <1>1 DEF IInv, MachineHasOneRow, RemovedMemberKeepsNoDevice, Rows, Active
    <2> QED
      BY <2>2, <2>3
  <1> QED
    BY <1>2, <1>6, <1>7, <1>8 DEF IInv, CallsAreKnown, CallsAreReliable

LEMMA StepKeeps == IInv /\ [Next]_vars => IInv'
  <1> SUFFICES ASSUME IInv, [Next]_vars PROVE IInv'
    OBVIOUS
  <1>1. ASSUME NEW c \in Calls, RegisterStep(c)
        PROVE  IInv'
    BY <1>1, FindExistingKeeps, FindHardwareKeeps, ReactivateKeeps, ReinstallKeeps, CountActiveKeeps,
       FindOldestKeeps, ReplaceKeeps, CheckWindowKeeps, CreateKeeps, LogRegisteredKeeps
    DEF RegisterStep
  <1>2. ASSUME NEW c \in Calls, NEW u \in Users, NEW i \in Installations, FindMembership(c, u, i)
        PROVE  IInv'
    BY <1>2, FindMembershipKeeps
  <1>3. ASSUME NEW c \in Calls, NEW u \in Users, NEW d \in Calls, FindOwn(c, u, d)
        PROVE  IInv'
    BY <1>3, FindOwnKeeps
  <1>4. ASSUME NEW c \in Calls, Revoke(c) \/ FindDevices(c)
        PROVE  IInv'
    BY <1>4, RevokeKeeps, FindDevicesKeeps
  <1>5. ASSUME NEW c \in Calls, NEW u \in Users, FindMember(c, u)
        PROVE  IInv'
    BY <1>5, FindMemberKeeps
  <1>6. ASSUME NEW c \in Calls, NEW personal \in Accounts, Remove(c, personal)
        PROVE  IInv'
    BY <1>6, RemoveKeeps
  <1>7. CASE Crash
    BY <1>7, CrashKeeps
  <1>8. CASE UNCHANGED vars
    <2>1. /\ TypeOK' /\ Rows' = Rows /\ call' = call /\ crossed' = crossed /\ unchecked' = unchecked
          /\ \A u, a : /\ DevicesOf(u, a)' = DevicesOf(u, a)
                       /\ ActiveDevices(u, a)' = ActiveDevices(u, a)
                       /\ Excused(u, a)' = Excused(u, a)
          /\ \A u, a, i : SameHardware(u, a, i)' = SameHardware(u, a, i)
      BY <1>8 DEF vars, IInv, TypeOK, Rows, DevicesOf, ActiveDevices, Active, Excused, Uncounted,
         Miscounted, SameHardware
    <2>2. CallsAreKnown' /\ CallsAreReliable' /\ AllWithin'
      BY <2>1 DEF IInv, CallsAreKnown, Known, CallsAreReliable, Reliable, Spare, AllWithin, Within
    <2>3. StrangersAreOvertaken' /\ MachineHasOneRow' /\ RemovedMemberKeepsNoDevice'
      BY <1>8, <2>1 DEF vars, IInv, StrangersAreOvertaken, Registering, MachineHasOneRow,
         RemovedMemberKeepsNoDevice, Active
    <2> QED
      BY <2>1, <2>2, <2>3 DEF IInv
  <1> QED
    BY <1>1, <1>2, <1>3, <1>4, <1>5, <1>6, <1>7, <1>8 DEF Next

LEMMA InductiveInvariant == Spec => []IInv
  BY Initially, StepKeeps, PTL DEF Spec

-----------------------------------------------------------------------------
\* Every state of the devices, of the calls that register, revoke and remove, and of their
\* histories is type-correct.
THEOREM TypeCorrect == Spec => []TypeOK
<1>1. IInv => TypeOK
  BY DEF IInv
<1> QED
  BY InductiveInvariant, <1>1, PTL

\* RegisterDeviceUseCase, which counts and creates in two awaits and reactivates without
\* counting: the devices beyond maxDevices are no more than the calls that reactivated one
\* and the rows created by a call whose count was out of date.
THEOREM ExcessIsAccountedFor == Spec => []ExcessIsUnchecked
<1>1. IInv => ExcessIsUnchecked
  BY DEF IInv, AllWithin, Within, Excused, ExcessIsUnchecked
<1> QED
  BY InductiveInvariant, <1>1, PTL

\* RegisterDeviceUseCase (sameHardware): "reinstalar la app no consume slots" - two rows of
\* one person and machine come only from registrations that overlap.
THEOREM MachinesHaveOneRow == Spec => []MachineHasOneRow
<1>1. IInv => MachineHasOneRow
  BY DEF IInv
<1> QED
  BY InductiveInvariant, <1>1, PTL

\* RemoveMemberUseCase, which reads the devices before its transaction: a removed person has
\* no ACTIVE device but those that no removal of that person could have known of.
THEOREM RemovedMembersKeepNoDevice == Spec => []RemovedMemberKeepsNoDevice
<1>1. IInv => RemovedMemberKeepsNoDevice
  BY DEF IInv
<1> QED
  BY InductiveInvariant, <1>1, PTL

-----------------------------------------------------------------------------
(***************************************************************************)
(* Whose devices a call writes.                                            *)
(***************************************************************************)
\* A call with record k means to write devices of its person in its account only.
Own(k) == k.found \subseteq DevicesOf(k.userId, k.accountId)

CallsFindTheirOwn == \A c \in Calls : Own(call[c])

\* Every row stays, and stays whose it is.
RowsKeepTheirOwners ==
    \A d \in Rows : /\ d \in Rows'
                    /\ device'[d].userId = device[d].userId
                    /\ device'[d].accountId = device[d].accountId

OnlyFoundChange(c) == \A d \in Rows : device'[d] # device[d] => d \in call[c].found

LEMMA OwnersKeepTheirDevices ==
  ASSUME RowsKeepTheirOwners, NEW k, Own(k)
  PROVE  Own(k)'
  BY DEF RowsKeepTheirOwners, Own, DevicesOf, Rows

\* A call that writes no device, or only those it has found, or a new one.
LEMMA ReadersKeepRows ==
  ASSUME NEW c, UNCHANGED device
  PROVE  RowsKeepTheirOwners /\ OnlyFoundChange(c)
  BY DEF RowsKeepTheirOwners, OnlyFoundChange, Rows

LEMMA RevokersKeepRows ==
  ASSUME TypeOK, NEW c \in Calls, call[c].found \subseteq Rows, device' = Revoked(call[c].found)
  PROVE  RowsKeepTheirOwners /\ OnlyFoundChange(c)
  <1>1. Rows' = Rows /\ \A d \in Calls : /\ device'[d].userId = device[d].userId
                                         /\ device'[d].accountId = device[d].accountId
    BY RevokesIs
  <1>2. \A d \in Calls : d \notin call[c].found => device'[d] = device[d]
    BY DEF Revoked
  <1> QED
    BY <1>1, <1>2, SetsOfCalls DEF RowsKeepTheirOwners, OnlyFoundChange

LEMMA WakersKeepRows ==
  ASSUME TypeOK, NEW c \in Calls, NEW d \in Calls, NEW i \in Installations \cup {None},
         d \in call[c].found, device' = Reactivated(d, i)
  PROVE  RowsKeepTheirOwners /\ OnlyFoundChange(c)
  <1>1. PICK row \in Device : /\ Reactivated(d, i) = [device EXCEPT ![d] = row]
                              /\ row.status = "ACTIVE"
                              /\ row.userId = device[d].userId /\ row.accountId = device[d].accountId
    BY ReactivatedIs
  <1>2. device'[d] = row /\ \A e \in Calls \ {d} : device'[e] = device[e]
    BY <1>1 DEF TypeOK
  <1> QED
    BY <1>1, <1>2 DEF RowsKeepTheirOwners, OnlyFoundChange, Rows

LEMMA CreatorsKeepRows ==
  ASSUME TypeOK, NEW c \in Calls, c \notin Rows, NEW row, device' = [device EXCEPT ![c] = row]
  PROVE  RowsKeepTheirOwners /\ OnlyFoundChange(c)
  BY DEF TypeOK, RowsKeepTheirOwners, OnlyFoundChange, Rows

\* The next record of a call that a step of it leads to.
Moves(c) ==
    /\ RowsKeepTheirOwners /\ OnlyFoundChange(c)
    /\ call'[c] # call[c] /\ \A q \in Calls \ {c} : call'[q] = call[q]
    /\ Own(call'[c])

LEMMA MovesTo ==
  ASSUME TypeOK, NEW c \in Calls, NEW new \in Call, call' = [call EXCEPT ![c] = new],
         RowsKeepTheirOwners, OnlyFoundChange(c), new.pc # call[c].pc, Own(new)
  PROVE  Moves(c)
  BY DEF Moves, TypeOK

LEMMA GoesOn ==
  ASSUME TypeOK, CallsFindTheirOwn, NEW c \in Calls, NEW pc \in Steps, Goto(c, pc), pc # call[c].pc,
         RowsKeepTheirOwners, OnlyFoundChange(c)
  PROVE  Moves(c)
  <1>1. PICK new \in Call :
            /\ call' = [call EXCEPT ![c] = new]
            /\ new.pc = pc /\ new.userId = call[c].userId /\ new.accountId = call[c].accountId
            /\ new.found = call[c].found
    BY GotoIs
  <1>2. Own(new)
    BY <1>1 DEF CallsFindTheirOwn, Own
  <1> QED
    BY <1>1, <1>2, MovesTo

LEMMA GoesOnWith ==
  ASSUME TypeOK, NEW c \in Calls, NEW pc \in Steps, NEW ds \in SUBSET Calls, GotoWith(c, pc, ds),
         pc # call[c].pc, RowsKeepTheirOwners, OnlyFoundChange(c),
         ds \subseteq DevicesOf(call[c].userId, call[c].accountId)
  PROVE  Moves(c)
  <1>1. PICK new \in Call :
            /\ call' = [call EXCEPT ![c] = new]
            /\ new.pc = pc /\ new.userId = call[c].userId /\ new.accountId = call[c].accountId
            /\ new.found = ds
    BY GotoWithIs
  <1>2. Own(new)
    BY <1>1 DEF Own
  <1> QED
    BY <1>1, <1>2, MovesTo

LEMMA Fails ==
  ASSUME TypeOK, NEW c \in Calls, Fail(c), call[c].pc # "failed", UNCHANGED device
  PROVE  Moves(c)
  <1>1. NoCall("failed") \in Call /\ NoCall("failed").pc = "failed" /\ NoCall("failed").found = {}
    BY DEF NoCall, Call, Steps
  <1>2. Own(NoCall("failed"))
    BY <1>1 DEF Own
  <1> QED
    BY <1>1, <1>2, ReadersKeepRows, MovesTo DEF Fail

LEMMA Places ==
  /\ RegisterSteps \subseteq Steps /\ {"idle", "revoke", "devices", "remove", "done", "failed"} \subseteq Steps
  /\ {"existing", "hardware", "reactivate", "reinstall", "count", "oldest", "replace", "window",
      "create", "log"} = RegisterSteps
  BY DEF Steps, RegisterSteps

LEMMA LookingMoves ==
  ASSUME IInv, CallsFindTheirOwn, NEW c \in Calls,
         FindExisting(c) \/ FindHardware(c) \/ CountActive(c) \/ FindOldest(c) \/ CheckWindow(c)
  PROVE  Moves(c)
  <1>1. TypeOK /\ UNCHANGED device
    BY DEF IInv, FindExisting, FindHardware, CountActive, FindOldest, CheckWindow, ReadsOnly, tables
  <1>2. RowsKeepTheirOwners /\ OnlyFoundChange(c)
    BY <1>1, ReadersKeepRows
  <1> DEFINE u == call[c].userId
             a == call[c].accountId
  <1>3. CASE Fail(c) /\ call[c].pc \in RegisterSteps
    BY <1>1, <1>3, Fails DEF RegisterSteps
  <1>4. CASE \E pc \in Steps \ {call[c].pc} : Goto(c, pc)
    BY <1>1, <1>2, <1>4, GoesOn
  <1>5. ASSUME NEW pc \in Steps \ {call[c].pc}, NEW ds \in SUBSET DevicesOf(u, a), GotoWith(c, pc, ds)
        PROVE  Moves(c)
    <2>1. ds \in SUBSET Calls
      BY SetsOfCalls
    <2> QED
      BY <1>1, <1>2, <1>5, <2>1, GoesOnWith
  <1>6. CASE FindExisting(c)
    BY <1>3, <1>4, <1>5, <1>6, Places DEF FindExisting, In
  <1>7. CASE FindHardware(c)
    <2>1. \A d \in Newest(SameHardware(u, a, call[c].installationId)) : {d} \in SUBSET DevicesOf(u, a)
      BY DEF Newest, SameHardware
    <2> QED
      BY <1>4, <1>5, <1>7, <2>1, Places DEF FindHardware, In
  <1>8. CASE CountActive(c)
    BY <1>4, <1>8, Places DEF CountActive, In
  <1>9. CASE FindOldest(c)
    <2>1. \A d \in Oldest(ActiveDevices(u, a)) : {d} \in SUBSET DevicesOf(u, a)
      BY DEF Oldest, ActiveDevices
    <2> QED
      BY <1>3, <1>5, <1>9, <2>1, Places DEF FindOldest, In
  <1>10. CASE CheckWindow(c)
    BY <1>3, <1>4, <1>10, Places DEF CheckWindow, In
  <1> QED
    BY <1>6, <1>7, <1>8, <1>9, <1>10

LEMMA WritingMoves ==
  ASSUME IInv, CallsFindTheirOwn, NEW c \in Calls,
         \/ Reactivate(c) \/ Reinstall(c) \/ Replace(c) \/ Create(c) \/ LogRegistered(c)
         \/ Revoke(c) \/ \E personal \in Accounts : Remove(c, personal)
  PROVE  Moves(c)
  <1>1. TypeOK /\ call[c].found \subseteq Rows /\ call[c].found \subseteq Calls
    BY SetsOfCalls DEF IInv, CallsAreKnown, Known
  <1>2. ASSUME NEW pc \in Steps \ {call[c].pc}, GotoWith(c, pc, {}), RowsKeepTheirOwners, OnlyFoundChange(c)
        PROVE  Moves(c)
    BY <1>1, <1>2, GoesOnWith
  <1>3. CASE Reactivate(c)
    <2>1. PICK d \in call[c].found : device' = Reactivated(d, device[d].installationId)
      BY <1>3 DEF Reactivate
    <2>2. d \in Calls /\ device[d].installationId \in Installations \cup {None}
      BY <1>1, <2>1 DEF TypeOK, Device
    <2>3. RowsKeepTheirOwners /\ OnlyFoundChange(c)
      BY <1>1, <2>1, <2>2, WakersKeepRows
    <2> QED
      BY <1>2, <1>3, <2>3, Places DEF Reactivate, In
  <1>4. CASE Reinstall(c)
    <2>1. CASE Fail(c) /\ ReadsOnly
      BY <1>1, <1>4, <2>1, Fails DEF Reinstall, In, ReadsOnly, tables
    <2>2. CASE GotoWith(c, "done", {}) /\ \E d \in call[c].found : device' = Reactivated(d, call[c].installationId)
      <3>1. PICK d \in call[c].found : device' = Reactivated(d, call[c].installationId)
        BY <2>2
      <3>2. d \in Calls /\ call[c].installationId \in Installations \cup {None}
        BY <1>1, <3>1 DEF TypeOK, Call
      <3>3. RowsKeepTheirOwners /\ OnlyFoundChange(c)
        BY <1>1, <3>1, <3>2, WakersKeepRows
      <3> QED
        BY <1>2, <1>4, <2>2, <3>3, Places DEF Reinstall, In
    <2> QED
      BY <1>4, <2>1, <2>2 DEF Reinstall
  <1>5. CASE Replace(c) \/ Revoke(c)
    <2>1. device' = Revoked(call[c].found)
      BY <1>5 DEF Replace, Revoke
    <2>2. RowsKeepTheirOwners /\ OnlyFoundChange(c)
      BY <1>1, <2>1, RevokersKeepRows
    <2> QED
      BY <1>2, <1>5, <2>2, Places DEF Replace, Revoke, In
  <1>6. CASE \E personal \in Accounts : Remove(c, personal)
    <2>1. device' = Revoked(call[c].found) /\ GotoWith(c, "done", {}) /\ call[c].pc = "remove"
      BY <1>6 DEF Remove, In
    <2>2. RowsKeepTheirOwners /\ OnlyFoundChange(c)
      BY <1>1, <2>1, RevokersKeepRows
    <2> QED
      BY <1>2, <2>1, <2>2, Places
  <1>7. CASE Create(c)
    <2>1. c \notin Rows
      BY <1>7 DEF Create, In, IInv, CallsAreKnown, Known
    <2>2. CASE Fail(c) /\ ReadsOnly
      BY <1>1, <1>7, <2>2, Fails DEF Create, In, ReadsOnly, tables
    <2>3. CASE /\ Goto(c, "log")
               /\ device' = [device EXCEPT ![c] =
                    [status |-> "ACTIVE", userId |-> call[c].userId, accountId |-> call[c].accountId,
                     installationId |-> call[c].installationId, lastSeenAt |-> clock + 1]]
      <3>1. RowsKeepTheirOwners /\ OnlyFoundChange(c)
        BY <1>1, <2>1, <2>3, CreatorsKeepRows
      <3> QED
        BY <1>1, <1>7, <2>3, <3>1, Places, GoesOn DEF Create, In
    <2> QED
      BY <1>7, <2>2, <2>3 DEF Create
  <1>8. CASE LogRegistered(c)
    <2>1. RowsKeepTheirOwners /\ OnlyFoundChange(c)
      BY <1>8, ReadersKeepRows DEF LogRegistered
    <2> QED
      BY <1>1, <1>8, <2>1, Places, GoesOn DEF LogRegistered, In
  <1> QED
    BY <1>3, <1>4, <1>5, <1>6, <1>7, <1>8

LEMMA BeginningMoves ==
  ASSUME IInv, CallsFindTheirOwn, NEW c \in Calls,
         \/ \E u \in Users, i \in Installations : FindMembership(c, u, i)
         \/ \E u \in Users, d \in Calls : FindOwn(c, u, d)
         \/ \E u \in Users : FindMember(c, u)
         \/ FindDevices(c)
  PROVE  Moves(c)
  <1>1. TypeOK /\ UNCHANGED device
    BY DEF IInv, FindMembership, FindOwn, FindMember, FindDevices, ReadsOnly, tables
  <1>2. RowsKeepTheirOwners /\ OnlyFoundChange(c)
    BY <1>1, ReadersKeepRows
  <1>3. CASE Fail(c) /\ In(c, "idle")
    BY <1>1, <1>3, Fails DEF In
  <1>4. ASSUME NEW new, call' = [call EXCEPT ![c] = new], new.pc # call[c].pc, Own(new)
        PROVE  Moves(c)
    BY <1>1, <1>2, <1>4 DEF Moves, TypeOK
  <1>5. CASE \E u \in Users, i \in Installations : FindMembership(c, u, i)
    BY <1>3, <1>4, <1>5 DEF FindMembership, In, Own
  <1>6. ASSUME NEW u \in Users, NEW d \in Calls, FindOwn(c, u, d)
        PROVE  Moves(c)
    <2> DEFINE new == [pc |-> "revoke", userId |-> u, accountId |-> device[d].accountId,
                       installationId |-> None, found |-> {d}]
    <2>1. Active(d) /\ device[d].userId = u => Own(new)
      BY DEF Own, Active, DevicesOf, Rows
    <2> QED
      BY <1>3, <1>4, <1>6, <2>1 DEF FindOwn, In
  <1>7. CASE \E u \in Users : FindMember(c, u)
    BY <1>3, <1>4, <1>7 DEF FindMember, In, Own
  <1>8. CASE FindDevices(c)
    <2>1. /\ GotoWith(c, "remove", ActiveDevices(call[c].userId, call[c].accountId))
          /\ call[c].pc = "devices"
      BY <1>8 DEF FindDevices, In
    <2>2. /\ ActiveDevices(call[c].userId, call[c].accountId) \in SUBSET Calls
          /\ ActiveDevices(call[c].userId, call[c].accountId)
                \subseteq DevicesOf(call[c].userId, call[c].accountId)
      BY SetsOfCalls
    <2> QED
      BY <1>1, <1>2, <2>1, <2>2, Places, GoesOnWith
  <1> QED
    BY <1>5, <1>6, <1>7, <1>8

\* The writes of one step are those of one call, of devices that it found.
LEMMA StepMoves ==
  ASSUME IInv, CallsFindTheirOwn, [Next]_vars
  PROVE  (\E c \in Calls : Moves(c)) \/ Crash \/ UNCHANGED vars
  BY LookingMoves, WritingMoves, BeginningMoves DEF Next, RegisterStep

LEMMA StepKeepsOwn == IInv /\ CallsFindTheirOwn /\ [Next]_vars => CallsFindTheirOwn'
  <1> SUFFICES ASSUME IInv, CallsFindTheirOwn, [Next]_vars
               PROVE  CallsFindTheirOwn'
    OBVIOUS
  <1>1. ASSUME NEW c \in Calls, Moves(c)
        PROVE  CallsFindTheirOwn'
    <2>1. ASSUME NEW q \in Calls
          PROVE  Own(call[q])'
      <3>1. PICK k : k = call'[q]
        OBVIOUS
      <3>2. Own(k)
        BY <1>1, <3>1 DEF Moves, CallsFindTheirOwn
      <3>3. Own(k)'
        BY <1>1, <3>2, OwnersKeepTheirDevices DEF Moves
      <3> QED
        BY <3>1, <3>3 DEF Own
    <2> QED
      BY <2>1 DEF CallsFindTheirOwn
  <1>2. CASE Crash
    <2>1. RowsKeepTheirOwners
      BY <1>2, ReadersKeepRows DEF Crash, tables
    <2>2. ASSUME NEW q \in Calls
          PROVE  Own(call[q])'
      <3>1. PICK k : k = call'[q] /\ (k = call[q] \/ k = NoCall("failed"))
        BY <1>2 DEF Crash
      <3>2. Own(k)
        BY <3>1 DEF CallsFindTheirOwn, Own, NoCall
      <3>3. Own(k)'
        BY <2>1, <3>2, OwnersKeepTheirDevices
      <3> QED
        BY <3>1, <3>3 DEF Own
    <2> QED
      BY <2>2 DEF CallsFindTheirOwn
  <1>3. CASE UNCHANGED vars
    BY <1>3 DEF vars, CallsFindTheirOwn, Own, DevicesOf, Rows
  <1> QED
    BY <1>1, <1>2, <1>3, StepMoves

\* RegisterDeviceUseCase, RevokeDeviceUseCase, RemoveMemberUseCase: for any calls, whatever
\* they read and however late they write, each writes only devices of its person in its
\* account, and no device changes hands.
THEOREM NobodyTouchesAnothersDevice == Spec => OnlyOwnDevicesChange
<1>1. Init => CallsFindTheirOwn
  BY DEF Init, NoCall, CallsFindTheirOwn, Own
<1>2. IInv /\ CallsFindTheirOwn /\ [Next]_vars =>
        [\A d \in Rows :
          /\ device'[d].userId = device[d].userId /\ device'[d].accountId = device[d].accountId
          /\ device'[d] # device[d] =>
                \E c \in Calls : /\ call'[c] # call[c]
                                 /\ call[c].userId = device[d].userId
                                 /\ call[c].accountId = device[d].accountId]_vars
  <2> SUFFICES ASSUME IInv, CallsFindTheirOwn, [Next]_vars, ~(UNCHANGED vars), NEW d \in Rows
               PROVE  /\ device'[d].userId = device[d].userId /\ device'[d].accountId = device[d].accountId
                      /\ device'[d] # device[d] =>
                            \E c \in Calls : /\ call'[c] # call[c]
                                             /\ call[c].userId = device[d].userId
                                             /\ call[c].accountId = device[d].accountId
    OBVIOUS
  <2>1. CASE Crash
    BY <2>1 DEF Crash, tables
  <2>2. ASSUME NEW c \in Calls, Moves(c)
        PROVE  /\ device'[d].userId = device[d].userId /\ device'[d].accountId = device[d].accountId
               /\ device'[d] # device[d] => /\ call'[c] # call[c]
                                            /\ call[c].userId = device[d].userId
                                            /\ call[c].accountId = device[d].accountId
    BY <2>2 DEF Moves, RowsKeepTheirOwners, OnlyFoundChange, CallsFindTheirOwn, Own, DevicesOf
  <2> QED
    BY <2>1, <2>2, StepMoves
<1> QED
  BY Initially, StepKeeps, <1>1, <1>2, StepKeepsOwn, PTL DEF Spec, OnlyOwnDevicesChange
=============================================================================
