------------------------------ MODULE Devices ------------------------------
(***************************************************************************)
(* The devices of a person: registering one, revoking one, and losing them *)
(* all when the person is removed from the account.                        *)
(*                                                                         *)
(* RegisterDeviceUseCase is eight awaits without a transaction around      *)
(* them.  It looks for a row of the same installation, then for a row of   *)
(* the same machine, and reactivates what it finds, whatever its status    *)
(* and however many devices are ACTIVE.  Only when it finds none does it   *)
(* count the ACTIVE devices, replace the one used longest ago when there   *)
(* are too many, and create a row.  RevokeDeviceUseCase and                *)
(* RemoveMemberUseCase read first and write later in the same way.  Any    *)
(* number of these calls run together, and the server may crash between    *)
(* two awaits of each.                                                     *)
(***************************************************************************)
EXTENDS Naturals, FiniteSets

CONSTANTS
    Users,
    Accounts,
    Family,         \* the account where the users start, as members
    Installations,
    HardwareOf,     \* the machine an installation runs on (fingerprint or MAC)
    Limits,         \* values of plan.maxDevicesPerUser, or DEVICE_FALLBACK_MAX
    EnforceWindow,  \* DEVICE_ENFORCE_CHANGE_WINDOW
    MaxChanges,     \* plan.maxDeviceChangesPerWindow
    Calls,          \* calls of the use cases; a call creates at most one device,
                    \* named after it
    None

ASSUME DevicesAssumption ==
    /\ Family \in Accounts
    /\ None \notin Users \cup Accounts \cup Installations \cup Calls
    /\ Limits \subseteq Nat \ {0} /\ Limits # {}
    /\ IsFiniteSet(Calls)
    /\ EnforceWindow \in BOOLEAN
    /\ MaxChanges \in Nat

VARIABLES
    device,       \* the row of table Device each call created
    clock,        \* the time written to column lastSeenAt; no two writes share one
    changes,      \* table DeviceChange: <<device, action, call that logged it>>
    memberships,  \* <<user, account>>: the rows of AccountMember that are ACTIVE
    opened,       \* the accounts that exist
    call,         \* what each call has read, and where it is
    crossed,      \* history: devices made ACTIVE since the call read the person's devices
    unchecked,    \* history: calls that made a device ACTIVE again without counting
    overtaken,    \* history: calls whose person was removed after they read the membership
    strays        \* history: devices a removal could not know of

tables == <<device, clock, changes, memberships, opened>>
historyVars == <<crossed, unchecked, overtaken, strays>>
vars == <<device, clock, changes, memberships, opened, call,
          crossed, unchecked, overtaken, strays>>

Status == {"NONE", "ACTIVE", "REVOKED"}
Actions == {"REGISTERED", "AUTO_REPLACED", "REVOKED"}

RegisterSteps == {"existing", "hardware", "reactivate", "reinstall", "count", "oldest",
                  "replace", "window", "create", "log"}
Steps == {"idle", "revoke", "devices", "remove", "done", "failed"} \cup RegisterSteps

Device == [status : Status,
           userId : Users \cup {None},
           accountId : Accounts \cup {None},
           installationId : Installations \cup {None},
           lastSeenAt : Nat]

Call == [pc : Steps,
         userId : Users \cup {None},
         accountId : Accounts \cup {None},
         installationId : Installations \cup {None},
         found : SUBSET Calls]      \* the devices the call has read and will write

NoDevice == [status |-> "NONE", userId |-> None, accountId |-> None,
             installationId |-> None, lastSeenAt |-> 0]
NoCall(pc) == [pc |-> pc, userId |-> None, accountId |-> None,
               installationId |-> None, found |-> {}]

-----------------------------------------------------------------------------
\* Rows.

Rows == {d \in Calls : device[d].status # "NONE"}
Active(d) == device[d].status = "ACTIVE"

DevicesOf(u, a) == {d \in Rows : device[d].userId = u /\ device[d].accountId = a}
ActiveDevices(u, a) == {d \in DevicesOf(u, a) : Active(d)}

\* @@unique([accountId, installationId])
At(a, i) == {d \in Rows : device[d].accountId = a /\ device[d].installationId = i}

SameHardware(u, a, i) ==
    {d \in DevicesOf(u, a) : HardwareOf[device[d].installationId] = HardwareOf[i]}

\* orderBy: { lastSeenAt: 'asc' } and 'desc', first row.
Oldest(ds) == {d \in ds : \A e \in ds : device[d].lastSeenAt <= device[e].lastSeenAt}
Newest(ds) == {d \in ds : \A e \in ds : device[d].lastSeenAt >= device[e].lastSeenAt}

RevokedChanges(u, a) ==
    {x \in changes : x[2] = "REVOKED" /\ device[x[1]].userId = u /\ device[x[1]].accountId = a}

\* deviceUpdate: whatever the status was, the row becomes ACTIVE and is seen now.
Reactivated(d, i) ==
    [device EXCEPT ![d] = [@ EXCEPT !.status = "ACTIVE", !.lastSeenAt = clock + 1,
                                    !.installationId = i]]

\* Faulty variant of Revoked: column lastSeenAt, which is not nullable, is cleared.
RevokedUnseen(ds) ==
    [d \in Calls |-> IF d \in ds THEN [device[d] EXCEPT !.status = "REVOKED", !.lastSeenAt = None]
                     ELSE device[d]]

Revoked(ds) ==
    [d \in Calls |-> IF d \in ds THEN [device[d] EXCEPT !.status = "REVOKED"] ELSE device[d]]

-----------------------------------------------------------------------------
\* Steps of a call.

In(c, pc) == call[c].pc = pc
Goto(c, pc) == call' = [call EXCEPT ![c] = [@ EXCEPT !.pc = pc]]
GotoWith(c, pc, ds) == call' = [call EXCEPT ![c] = [@ EXCEPT !.pc = pc, !.found = ds]]
Fail(c) == call' = [call EXCEPT ![c] = NoCall("failed")]

\* Between its first read and its last write of a device.
Registering(c) == call[c].pc \in RegisterSteps \ {"log"}

\* The calls that rely on what they read of the devices of person u in account a.
Relying(u, a) ==
    {c \in Calls : /\ call[c].pc \in {"count", "oldest", "replace", "window", "create", "remove"}
                   /\ call[c].userId = u
                   /\ call[c].accountId = a}

\* History: call c makes device d of its person ACTIVE.
Activates(c, d) ==
    /\ crossed' = [q \in Calls |->
          IF q \in Relying(call[c].userId, call[c].accountId) \ {c}
          THEN crossed[q] \cup {d} ELSE crossed[q]]
    /\ strays' = IF c \in overtaken THEN strays \cup {d} ELSE strays

ReadsOnly == UNCHANGED <<tables, historyVars>>

-----------------------------------------------------------------------------
\* RegisterDeviceUseCase.execute.

\* access.activeMembership: one of the person's ACTIVE memberships; denied when there
\* is none or the account is not ACTIVE, which is left open.
FindMembership(c, u, i) ==
    /\ In(c, "idle")
    /\ \/ \E a \in Accounts :
             /\ <<u, a>> \in memberships
             /\ call' = [call EXCEPT ![c] = [pc |-> "existing", userId |-> u, accountId |-> a,
                                             installationId |-> i, found |-> {}]]
       \/ Fail(c)
    /\ ReadsOnly

\* device.findUnique by account and installation.
FindExisting(c) ==
    /\ In(c, "existing")
    /\ LET here == At(call[c].accountId, call[c].installationId)
       IN  \/ here = {} /\ Goto(c, "hardware")
           \/ here # {} /\ here \subseteq DevicesOf(call[c].userId, call[c].accountId)
                        /\ GotoWith(c, "reactivate", here)
           \/ here # {} /\ ~(here \subseteq DevicesOf(call[c].userId, call[c].accountId))
                        /\ Fail(c)      \* DEVICE_BELONGS_TO_ANOTHER_MEMBER
    /\ ReadsOnly

\* Faulty variant of FindHardware: only devices that are ACTIVE are looked at.
FindActiveHardware(c) ==
    /\ In(c, "hardware")
    /\ LET same == {d \in SameHardware(call[c].userId, call[c].accountId,
                                       call[c].installationId) : Active(d)}
       IN  \/ same = {} /\ Goto(c, "count")
           \/ \E d \in Newest(same) : GotoWith(c, "reinstall", {d})
    /\ ReadsOnly

\* device.findFirst of the same person and machine, the one used last.
FindHardware(c) ==
    /\ In(c, "hardware")
    /\ LET same == SameHardware(call[c].userId, call[c].accountId, call[c].installationId)
       IN  \/ same = {} /\ Goto(c, "count")
           \/ \E d \in Newest(same) : GotoWith(c, "reinstall", {d})
    /\ ReadsOnly

\* device.update of the row of the installation.
Reactivate(c) ==
    /\ In(c, "reactivate")
    /\ \E d \in call[c].found :
          /\ device' = Reactivated(d, device[d].installationId)
          /\ unchecked' = IF Active(d) THEN unchecked ELSE unchecked \cup {c}
          /\ Activates(c, d)
    /\ clock' = clock + 1
    /\ GotoWith(c, "done", {})
    /\ UNCHANGED <<changes, memberships, opened, overtaken>>

\* device.update of the row of the machine, which moves to the new installation; the
\* unique index refuses an installation that another row of the account has by now.
Reinstall(c) ==
    /\ In(c, "reinstall")
    /\ \/ /\ At(call[c].accountId, call[c].installationId) \subseteq call[c].found
          /\ \E d \in call[c].found :
                /\ device' = Reactivated(d, call[c].installationId)
                /\ unchecked' = IF Active(d) THEN unchecked ELSE unchecked \cup {c}
                /\ Activates(c, d)
          /\ clock' = clock + 1
          /\ GotoWith(c, "done", {})
          /\ UNCHANGED <<changes, memberships, opened, overtaken>>
       \/ /\ ~(At(call[c].accountId, call[c].installationId) \subseteq call[c].found)
          /\ Fail(c)
          /\ ReadsOnly

\* Faulty variant of CountActive: one device too many is allowed.
CountBeyondLimit(c) ==
    /\ In(c, "count")
    /\ \E maxDevices \in Limits :
          LET activeCount == Cardinality(ActiveDevices(call[c].userId, call[c].accountId))
          IN  \/ activeCount > maxDevices /\ Goto(c, "oldest")
              \/ activeCount <= maxDevices /\ Goto(c, "window")
    /\ ReadsOnly

\* device.count of the person's ACTIVE devices, against the limit of the plan, of the
\* last plan, or of the fallback.
CountActive(c) ==
    /\ In(c, "count")
    /\ \E maxDevices \in Limits :
          LET activeCount == Cardinality(ActiveDevices(call[c].userId, call[c].accountId))
          IN  \/ activeCount >= maxDevices /\ Goto(c, "oldest")
              \/ activeCount < maxDevices /\ Goto(c, "window")
    /\ ReadsOnly

\* device.findFirst of the ACTIVE device seen longest ago.
FindOldest(c) ==
    /\ In(c, "oldest")
    /\ LET actives == ActiveDevices(call[c].userId, call[c].accountId)
       IN  \/ \E d \in Oldest(actives) : GotoWith(c, "replace", {d})
           \/ actives = {} /\ Fail(c)   \* USER_DEVICE_LIMIT_REACHED
    /\ ReadsOnly

\* revokeDevice: the transaction does not look at the status again.
Replace(c) ==
    /\ In(c, "replace")
    /\ device' = Revoked(call[c].found)
    /\ changes' = changes \cup {<<d, "AUTO_REPLACED", c>> : d \in call[c].found}
    /\ GotoWith(c, "window", {})
    /\ UNCHANGED <<clock, memberships, opened, historyVars>>

\* enforceReplacementWindow, when it is switched on.
CheckWindow(c) ==
    /\ In(c, "window")
    /\ \/ /\ ~EnforceWindow \/ Cardinality(RevokedChanges(call[c].userId, call[c].accountId)) < MaxChanges
          /\ Goto(c, "create")
       \/ /\ EnforceWindow
          /\ Cardinality(RevokedChanges(call[c].userId, call[c].accountId)) >= MaxChanges
          /\ Fail(c)                    \* DEVICE_CHANGE_LIMIT_REACHED
    /\ ReadsOnly

\* device.create; the unique index refuses an installation that has a row by now.
Create(c) ==
    /\ In(c, "create")
    /\ \/ /\ At(call[c].accountId, call[c].installationId) = {}
          /\ device' = [device EXCEPT ![c] =
                [status |-> "ACTIVE", userId |-> call[c].userId, accountId |-> call[c].accountId,
                 installationId |-> call[c].installationId, lastSeenAt |-> clock + 1]]
          /\ clock' = clock + 1
          /\ Activates(c, c)
          /\ Goto(c, "log")
          /\ UNCHANGED <<changes, memberships, opened, unchecked, overtaken>>
       \/ /\ At(call[c].accountId, call[c].installationId) # {}
          /\ Fail(c)
          /\ ReadsOnly

\* deviceChange.create
LogRegistered(c) ==
    /\ In(c, "log")
    /\ changes' = changes \cup {<<c, "REGISTERED", c>>}
    /\ Goto(c, "done")
    /\ UNCHANGED <<device, clock, memberships, opened, historyVars>>

-----------------------------------------------------------------------------
\* RevokeDeviceUseCase.execute.

\* device.findFirst({ id, userId, status: 'ACTIVE' }), or DEVICE_NOT_FOUND.
FindOwn(c, u, d) ==
    /\ In(c, "idle")
    /\ \/ /\ Active(d) /\ device[d].userId = u
          /\ call' = [call EXCEPT ![c] = [pc |-> "revoke", userId |-> u,
                                          accountId |-> device[d].accountId,
                                          installationId |-> None, found |-> {d}]]
       \/ ~(Active(d) /\ device[d].userId = u) /\ Fail(c)
    /\ ReadsOnly

Revoke(c) ==
    /\ In(c, "revoke")
    /\ device' = Revoked(call[c].found)
    /\ changes' = changes \cup {<<d, "REVOKED", c>> : d \in call[c].found}
    /\ GotoWith(c, "done", {})
    /\ UNCHANGED <<clock, memberships, opened, historyVars>>

-----------------------------------------------------------------------------
\* RemoveMemberUseCase.execute, called by the owner of the family.

\* accountMember.findFirst of the member, or MEMBER_NOT_FOUND.
FindMember(c, u) ==
    /\ In(c, "idle")
    /\ \/ /\ <<u, Family>> \in memberships
          /\ call' = [call EXCEPT ![c] = [pc |-> "devices", userId |-> u, accountId |-> Family,
                                          installationId |-> None, found |-> {}]]
       \/ <<u, Family>> \notin memberships /\ Fail(c)
    /\ ReadsOnly

\* device.findMany of the member's ACTIVE devices: their ids.
FindDevices(c) ==
    /\ In(c, "devices")
    /\ GotoWith(c, "remove", ActiveDevices(call[c].userId, call[c].accountId))
    /\ ReadsOnly

\* Faulty variant of Remove: the devices are forgotten.
RemoveMembershipOnly(c, personal) ==
    /\ In(c, "remove")
    /\ personal \notin opened
    /\ opened' = opened \cup {personal}
    /\ memberships' = (memberships \ {<<call[c].userId, call[c].accountId>>})
                      \cup {<<call[c].userId, personal>>}
    /\ overtaken' = overtaken \cup {q \in Calls : /\ Registering(q)
                                                  /\ call[q].userId = call[c].userId
                                                  /\ call[q].accountId = call[c].accountId}
    /\ strays' = strays \cup (crossed[c] \cap ActiveDevices(call[c].userId, call[c].accountId))
    /\ GotoWith(c, "done", {})
    /\ UNCHANGED <<device, clock, changes, crossed, unchecked>>

\* The transaction: membership, the devices read before, and a personal account.
Remove(c, personal) ==
    /\ In(c, "remove")
    /\ personal \notin opened
    /\ opened' = opened \cup {personal}
    /\ memberships' = (memberships \ {<<call[c].userId, call[c].accountId>>})
                      \cup {<<call[c].userId, personal>>}
    /\ device' = Revoked(call[c].found)
    /\ overtaken' = overtaken \cup {q \in Calls : /\ Registering(q)
                                                  /\ call[q].userId = call[c].userId
                                                  /\ call[q].accountId = call[c].accountId}
    /\ strays' = strays \cup (crossed[c] \cap ActiveDevices(call[c].userId, call[c].accountId))
    /\ GotoWith(c, "done", {})
    /\ UNCHANGED <<clock, changes, crossed, unchecked>>

-----------------------------------------------------------------------------
\* The process stops and starts again: the calls in flight are gone, what they have
\* written stays.
Crash ==
    /\ call' = [c \in Calls |->
          IF call[c].pc \in {"idle", "done", "failed"} THEN call[c] ELSE NoCall("failed")]
    /\ UNCHANGED <<tables, historyVars>>

Init ==
    /\ device = [d \in Calls |-> NoDevice]
    /\ clock = 0
    /\ changes = {}
    /\ memberships = Users \X {Family}
    /\ opened = {Family}
    /\ call = [c \in Calls |-> NoCall("idle")]
    /\ crossed = [c \in Calls |-> {}]
    /\ unchecked = {}
    /\ overtaken = {}
    /\ strays = {}

RegisterStep(c) ==
    \/ FindExisting(c)
    \/ FindHardware(c)
    \/ Reactivate(c)
    \/ Reinstall(c)
    \/ CountActive(c)
    \/ FindOldest(c)
    \/ Replace(c)
    \/ CheckWindow(c)
    \/ Create(c)
    \/ LogRegistered(c)

Next ==
    \/ \E c \in Calls :
          \/ \E u \in Users, i \in Installations : FindMembership(c, u, i)
          \/ RegisterStep(c)
          \/ \E u \in Users, d \in Calls : FindOwn(c, u, d)
          \/ Revoke(c)
          \/ \E u \in Users : FindMember(c, u)
          \/ FindDevices(c)
          \/ \E personal \in Accounts : Remove(c, personal)
    \/ Crash

Spec == Init /\ [][Next]_vars

-----------------------------------------------------------------------------
(***************************************************************************)
(* Properties.                                                             *)
(***************************************************************************)

TypeOK ==
    /\ device \in [Calls -> Device]
    /\ clock \in Nat
    /\ changes \subseteq Calls \X Actions \X Calls
    /\ memberships \subseteq Users \X Accounts
    /\ opened \subseteq Accounts
    /\ call \in [Calls -> Call]
    /\ crossed \in [Calls -> SUBSET Calls]
    /\ unchecked \subseteq Calls
    /\ overtaken \subseteq Calls
    /\ strays \subseteq Calls

Uncounted(u, a) == {c \in unchecked : call[c].userId = u /\ call[c].accountId = a}
Miscounted(u, a) == {d \in DevicesOf(u, a) : crossed[d] # {}}

\* Devices beyond the limit are all accounted for: each was made ACTIVE again by a
\* call that found its row and so never counted, or was created by a call whose count
\* was out of date (another call of the person made a device ACTIVE meanwhile).
\* Two registrations that do not overlap, and find no row, never exceed the limit.
ExcessIsUnchecked ==
    \A u \in Users, a \in Accounts :
        \E maxDevices \in Limits :
            Cardinality(ActiveDevices(u, a)) <=
                maxDevices + Cardinality(Uncounted(u, a) \cup Miscounted(u, a))

\* "reinstalar la app no consume slots": a person has two rows for one machine only
\* when one was created after the call that created the other had looked for it
\* (register-device.use-case.ts, sameHardware).
MachineHasOneRow ==
    \A d, e \in Rows :
        /\ d # e
        /\ device[d].userId = device[e].userId /\ device[d].accountId = device[e].accountId
        /\ HardwareOf[device[d].installationId] = HardwareOf[device[e].installationId]
        => d \in crossed[e] \/ e \in crossed[d]

\* A person who was removed from the account keeps an ACTIVE device there only when the
\* removal could not know of it: it became ACTIVE after the removal had read the
\* devices, or by a registration that had read the membership before.
RemovedMemberKeepsNoDevice ==
    \A d \in Rows :
        Active(d) /\ <<device[d].userId, device[d].accountId>> \notin memberships => d \in strays

\* Nobody touches the device of another: whatever a call has read and however late it
\* writes, it writes only devices of its person in its account, and no device changes
\* hands (DEVICE_BELONGS_TO_ANOTHER_MEMBER is decided several awaits before the write).
OnlyOwnDevicesChange ==
    [][\A d \in Rows :
          /\ device'[d].userId = device[d].userId /\ device'[d].accountId = device[d].accountId
          /\ device'[d] # device[d] =>
                \E c \in Calls : /\ call'[c] # call[c]
                                 /\ call[c].userId = device[d].userId
                                 /\ call[c].accountId = device[d].accountId]_vars

-----------------------------------------------------------------------------
(***************************************************************************)
(* What the documentation says and the code does not do.                   *)
(***************************************************************************)

\* "limite de 3" dispositivos: a person whose registrations never overlapped has no more
\* ACTIVE devices in an account than the limit.
DeviceLimit ==
    \A u \in Users, a \in Accounts :
        Miscounted(u, a) = {} =>
            \E maxDevices \in Limits : Cardinality(ActiveDevices(u, a)) <= maxDevices

=============================================================================
