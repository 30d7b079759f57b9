--------------------------- MODULE UsageSessions ---------------------------
(***************************************************************************)
(* The usage session: who is watching right now, and on which device.      *)
(*                                                                         *)
(* A person may register several devices and should watch on one of them   *)
(* at a time.  `acquire` checks the device and the subscription, revokes   *)
(* the ACTIVE rows of the person, inserts its own and tells the devices    *)
(* that lost the turn.  Every Prisma call is a step of its own; between    *)
(* two of them any other request may run.  The transaction of `acquire`    *)
(* is two steps, because PostgreSQL runs it at READ COMMITTED: the UPDATE  *)
(* sees the rows committed when it starts, and the INSERT becomes visible  *)
(* at the commit.                                                          *)
(*                                                                         *)
(* The other writers of the same rows are modelled with it: heartbeat,     *)
(* release, the revocation of a device, the removal of a member, the       *)
(* administrator's change of an account's status, and a crash of the       *)
(* server, which forgets the requests in flight.                           *)
(***************************************************************************)
EXTENDS Naturals, FiniteSets

CONSTANTS
    Users,
    Devices,
    Accounts,
    OwnerOf,    \* OwnerOf[d]: column userId of device d, never updated
    AccountOf,  \* AccountOf[d]: column accountId of device d, never updated
    Requests,   \* calls of acquire; a call inserts at most one row, named after it
    None        \* the columns of a call that has not started

ASSUME UsageAssumption ==
    /\ OwnerOf \in [Devices -> Users]
    /\ AccountOf \in [Devices -> Accounts]
    /\ None \notin Users \cup Devices

VARIABLES
    activeDevices,  \* the devices with a row whose column status is ACTIVE
    accountStatus,  \* ACTIVE, or SUSPENDED for every status that is not ACTIVE
    usage,          \* column status of the row each request inserted, or NONE
    fresh,          \* the rows whose lastHeartbeatAt is within the stale window
    acquire,        \* the call of acquire each request is, and where it is in it
    sweeping,       \* accounts whose status was changed and whose rows are to be revoked
    notified,       \* <<r, s>>: request r told the device of row s it was replaced
    missed,         \* history: rows inserted between the UPDATE and the commit of r
    deviceLost,     \* history: requests whose device was revoked after they read it
    accountLost     \* history: requests whose account left ACTIVE after they read it,
                    \* or rows whose revocation was forgotten by a crash

rowVars == <<activeDevices, accountStatus, usage, fresh>>
historyVars == <<missed, deviceLost, accountLost>>
vars == <<activeDevices, accountStatus, usage, fresh, acquire, sweeping, notified,
          missed, deviceLost, accountLost>>

AccountStatus == {"ACTIVE", "SUSPENDED"}
UsageStatus == {"NONE", "ACTIVE", "REVOKED", "RELEASED"}
Steps == {"idle", "policy", "read", "update", "commit", "emit", "done", "failed"}

Call == [pc : Steps,
         userId : Users \cup {None},
         deviceId : Devices \cup {None},
         previous : SUBSET Requests,   \* previousActive
         snapshot : SUBSET Requests]   \* rows the UPDATE of the transaction saw

CallOf(u, d, pc) == [pc |-> pc, userId |-> u, deviceId |-> d,
                     previous |-> {}, snapshot |-> {}]
NoCall(pc) == CallOf(None, None, pc)

-----------------------------------------------------------------------------
\* Rows of the table UsageSession.

UserOf(s) == acquire[s].userId
DeviceOf(s) == acquire[s].deviceId

Active(s) == usage[s] = "ACTIVE"

\* Faulty variants of ActiveOn and ActiveIn: rows without a recent heartbeat are left out.
FreshOn(d) == {s \in fresh : Active(s) /\ DeviceOf(s) = d}
FreshIn(a) == {s \in fresh : Active(s) /\ AccountOf[DeviceOf(s)] = a}

ActiveOf(u) == {s \in Requests : Active(s) /\ UserOf(s) = u}
ActiveOn(d) == {s \in Requests : Active(s) /\ DeviceOf(s) = d}
ActiveIn(a) == {s \in Requests : Active(s) /\ AccountOf[DeviceOf(s)] = a}

\* Faulty variant of Revoked: a status that no reader of the table knows is written.
RevokedAsSuspended(rows) ==
    [s \in Requests |-> IF s \in rows /\ Active(s) THEN "SUSPENDED" ELSE usage[s]]

\* updateMany({ where: ..., status: 'ACTIVE' }, data: { status: 'REVOKED' })
Revoked(rows) == [s \in Requests |-> IF s \in rows /\ Active(s) THEN "REVOKED" ELSE usage[s]]

\* A call that has read its device and has not yet inserted its row.
InFlight(r) == acquire[r].pc \in {"policy", "read", "update", "commit"}

\* A call whose account was read as ACTIVE and that has not yet inserted its row.
PolicyPassed(r) == acquire[r].pc \in {"read", "update", "commit"}

Goto(r, pc) == acquire' = [acquire EXCEPT ![r] = [@ EXCEPT !.pc = pc]]
Fail(r) == acquire' = [acquire EXCEPT ![r] = NoCall("failed")]

-----------------------------------------------------------------------------
\* AcquireUsageSessionUseCase.execute, one action for each await.

\* device.findFirst({ id, userId, status: 'ACTIVE' }), or DEVICE_NOT_AUTHORIZED.
FindDevice(r, u, d) ==
    /\ acquire[r].pc = "idle"
    /\ \/ /\ d \in activeDevices
          /\ OwnerOf[d] = u
          /\ acquire' = [acquire EXCEPT ![r] = CallOf(u, d, "policy")]
       \/ /\ d \notin activeDevices \/ OwnerOf[d] # u
          /\ Fail(r)
    /\ UNCHANGED <<rowVars, sweeping, notified, historyVars>>

\* policy.resolve(device.accountId): the account must be ACTIVE; whether its
\* subscription gives access is left open.
ResolvePolicy(r) ==
    /\ acquire[r].pc = "policy"
    /\ \/ /\ accountStatus[AccountOf[DeviceOf(r)]] = "ACTIVE"
          /\ Goto(r, "read")
       \/ Fail(r)
    /\ UNCHANGED <<rowVars, sweeping, notified, historyVars>>

\* Faulty variant of ReadPrevious: the row of the calling device is not left out.
ReadPreviousAnyDevice(r) ==
    /\ acquire[r].pc = "read"
    /\ acquire' = [acquire EXCEPT ![r] =
          [@ EXCEPT !.pc = "update", !.previous = ActiveOf(UserOf(r)) \cap fresh]]
    /\ UNCHANGED <<rowVars, sweeping, notified, historyVars>>

\* usageSession.findMany of the person's ACTIVE rows, then previousActive.
ReadPrevious(r) ==
    /\ acquire[r].pc = "read"
    /\ acquire' = [acquire EXCEPT ![r] = [@ EXCEPT
          !.pc = "update",
          !.previous = {s \in ActiveOf(UserOf(r)) \cap fresh : DeviceOf(s) # DeviceOf(r)}]]
    /\ UNCHANGED <<rowVars, sweeping, notified, historyVars>>

\* Faulty variant of UpdatePrevious: only the turn on the same device is taken over.
UpdateSameDevice(r) ==
    /\ acquire[r].pc = "update"
    /\ acquire' = [acquire EXCEPT ![r] =
          [@ EXCEPT !.pc = "commit", !.snapshot = ActiveOn(DeviceOf(r))]]
    /\ UNCHANGED <<rowVars, sweeping, notified, historyVars>>

\* tx.usageSession.updateMany: the rows the UPDATE will revoke at the commit.
UpdatePrevious(r) ==
    /\ acquire[r].pc = "update"
    /\ acquire' = [acquire EXCEPT ![r] =
          [@ EXCEPT !.pc = "commit", !.snapshot = ActiveOf(UserOf(r))]]
    /\ UNCHANGED <<rowVars, sweeping, notified, historyVars>>

\* tx.usageSession.create and the commit of the transaction.
CommitAcquire(r) ==
    /\ acquire[r].pc = "commit"
    /\ usage' = [Revoked(acquire[r].snapshot) EXCEPT ![r] = "ACTIVE"]
    /\ fresh' = fresh \cup {r}
    /\ acquire' = [acquire EXCEPT ![r] = [@ EXCEPT !.pc = "emit", !.snapshot = {}]]
    /\ missed' = [q \in Requests |->
          IF q # r /\ acquire[q].pc = "commit" /\ UserOf(q) = UserOf(r)
          THEN missed[q] \cup {r} ELSE missed[q]]
    /\ UNCHANGED <<activeDevices, accountStatus, sweeping, notified,
                   deviceLost, accountLost>>

\* realtime.emitDevice to the device of every row in previousActive.
EmitRevoked(r) ==
    /\ acquire[r].pc = "emit"
    /\ notified' = notified \cup ({r} \X acquire[r].previous)
    /\ acquire' = [acquire EXCEPT ![r] = [@ EXCEPT !.pc = "done", !.previous = {}]]
    /\ UNCHANGED <<rowVars, sweeping, historyVars>>

-----------------------------------------------------------------------------
\* The other use cases of the component.

\* HeartbeatUsageSessionUseCase: updateMany({ id, userId, status: 'ACTIVE' }).
Heartbeat(u, s) ==
    /\ s \in ActiveOf(u)
    /\ fresh' = fresh \cup {s}
    /\ UNCHANGED <<activeDevices, accountStatus, usage, acquire, sweeping, notified, historyVars>>

\* USAGE_SESSION_STALE_SECONDS pass without a heartbeat of row s.
HeartbeatLapses(s) ==
    /\ s \in fresh
    /\ Active(s)
    /\ fresh' = fresh \ {s}
    /\ UNCHANGED <<activeDevices, accountStatus, usage, acquire, sweeping, notified, historyVars>>

\* ReleaseUsageSessionUseCase: updateMany({ id, userId, status: 'ACTIVE' }).
Release(u, s) ==
    /\ s \in ActiveOf(u)
    /\ usage' = [usage EXCEPT ![s] = "RELEASED"]
    /\ UNCHANGED <<activeDevices, accountStatus, fresh, acquire, sweeping, notified, historyVars>>

-----------------------------------------------------------------------------
\* Devices come and go.

\* RegisterDeviceUseCase, seen from here: the row becomes ACTIVE (Devices.tla).
RegisterDevice(d) ==
    /\ d \notin activeDevices
    /\ activeDevices' = activeDevices \cup {d}
    /\ UNCHANGED <<accountStatus, usage, fresh, acquire, sweeping, notified, historyVars>>

\* The requests that have read one of the devices ds and go on without reading it again.
Overtaken(ds) == {r \in Requests : InFlight(r) /\ DeviceOf(r) \in ds}

\* RevokeDeviceUseCase and RegisterDeviceUseCase.revokeDevice: one transaction revokes
\* the device and its usage sessions.  The device was read as ACTIVE some steps before
\* (Devices.tla) and may be revoked already.
RevokeDevice(d) ==
    /\ activeDevices' = activeDevices \ {d}
    /\ usage' = Revoked(ActiveOn(d))
    /\ deviceLost' = deviceLost \cup Overtaken({d})
    /\ UNCHANGED <<accountStatus, fresh, acquire, sweeping, notified, missed, accountLost>>

\* RemoveMemberUseCase: one transaction revokes the devices whose ids were read before
\* it (some of the person's, a newer one may be missing), and every usage session of
\* the person.
RemoveMember(u, ds) ==
    /\ \A d \in ds : OwnerOf[d] = u
    /\ activeDevices' = activeDevices \ ds
    /\ usage' = Revoked(ActiveOf(u))
    /\ deviceLost' = deviceLost \cup Overtaken(ds)
    /\ UNCHANGED <<accountStatus, fresh, acquire, sweeping, notified, missed, accountLost>>

-----------------------------------------------------------------------------
\* AdminController.status: account.update, auditLog.create, then the sweep.

SetAccountStatus(a, status) ==
    /\ accountStatus' = [accountStatus EXCEPT ![a] = status]
    /\ sweeping' = IF status = "ACTIVE" THEN sweeping ELSE sweeping \cup {a}
    /\ accountLost' = IF status = "ACTIVE" THEN accountLost
                      ELSE accountLost \cup {r \in Requests :
                                               PolicyPassed(r) /\ AccountOf[DeviceOf(r)] = a}
    /\ UNCHANGED <<activeDevices, usage, fresh, acquire, notified,
                   missed, deviceLost>>

\* usageSession.updateMany({ device: { accountId }, status: 'ACTIVE' }).
SweepAccount(a) ==
    /\ a \in sweeping
    /\ sweeping' = sweeping \ {a}
    /\ usage' = Revoked(ActiveIn(a))
    /\ UNCHANGED <<activeDevices, accountStatus, fresh, acquire, notified, historyVars>>

-----------------------------------------------------------------------------
\* The process stops and starts again: the requests in flight are gone, an open
\* transaction is rolled back, the committed rows stay.
Crash ==
    /\ acquire' = [r \in Requests |->
          IF InFlight(r) THEN NoCall("failed")
          ELSE IF acquire[r].pc = "emit"
               THEN [acquire[r] EXCEPT !.pc = "done", !.previous = {}]
               ELSE acquire[r]]
    /\ sweeping' = {}
    /\ accountLost' = accountLost \cup UNION {ActiveIn(a) : a \in sweeping}
    /\ UNCHANGED <<rowVars, notified, missed, deviceLost>>

-----------------------------------------------------------------------------
Init ==
    /\ activeDevices = {}
    /\ accountStatus = [a \in Accounts |-> "ACTIVE"]
    /\ usage = [r \in Requests |-> "NONE"]
    /\ fresh = {}
    /\ acquire = [r \in Requests |-> NoCall("idle")]
    /\ sweeping = {}
    /\ notified = {}
    /\ missed = [r \in Requests |-> {}]
    /\ deviceLost = {}
    /\ accountLost = {}

AcquireStep(r) ==
    \/ ResolvePolicy(r)
    \/ ReadPrevious(r)
    \/ UpdatePrevious(r)
    \/ CommitAcquire(r)
    \/ EmitRevoked(r)

Next ==
    \/ \E r \in Requests :
          \/ \E u \in Users, d \in Devices : FindDevice(r, u, d)
          \/ AcquireStep(r)
    \/ \E s \in Requests :
          \/ \E u \in Users : Heartbeat(u, s) \/ Release(u, s)
          \/ HeartbeatLapses(s)
    \/ \E d \in Devices : RegisterDevice(d) \/ RevokeDevice(d)
    \/ \E u \in Users, ds \in SUBSET Devices : RemoveMember(u, ds)
    \/ \E a \in Accounts :
          \/ \E status \in AccountStatus : SetAccountStatus(a, status)
          \/ SweepAccount(a)
    \/ Crash

Spec == Init /\ [][Next]_vars

-----------------------------------------------------------------------------
(***************************************************************************)
(* Properties.                                                             *)
(***************************************************************************)

TypeOK ==
    /\ activeDevices \subseteq Devices
    /\ accountStatus \in [Accounts -> AccountStatus]
    /\ usage \in [Requests -> UsageStatus]
    /\ fresh \subseteq Requests
    /\ acquire \in [Requests -> Call]
    /\ sweeping \subseteq Accounts
    /\ notified \subseteq Requests \X Requests
    /\ missed \in [Requests -> SUBSET Requests]
    /\ deviceLost \subseteq Requests
    /\ accountLost \subseteq Requests

\* The turn is shared only by rows of overlapping calls.  Two ACTIVE rows of one
\* person exist only when one was committed while the transaction of the other was
\* open: a call that starts its UPDATE after a commit always ends that row's turn
\* (acquire-usage-session.use-case.ts, updateMany before create).
OnlyOverlapSharesTurn ==
    \A s, t \in Requests :
        s # t /\ Active(s) /\ Active(t) /\ UserOf(s) = UserOf(t)
            => s \in missed[t] \/ t \in missed[s]

\* A revoked device keeps an ACTIVE row only when the revocation overtook the call of
\* acquire that had already read the device: every row committed before the
\* revocation ends with it, whoever revokes (the owner, the automatic replacement,
\* the removal of the member).
RevokedDeviceWasOvertaken ==
    \A s \in Requests :
        Active(s) /\ DeviceOf(s) \notin activeDevices => s \in deviceLost

\* An account that is not ACTIVE keeps an ACTIVE row only while the second statement
\* of AdminController.status is still to come, or when the change overtook the call
\* of acquire, or when the process stopped between the two statements.
SuspendedAccountIsSwept ==
    \A s \in Requests :
        Active(s) /\ accountStatus[AccountOf[DeviceOf(s)]] # "ACTIVE"
            => AccountOf[DeviceOf(s)] \in sweeping \/ s \in accountLost

\* A device is told that it was replaced only about a row of the same person, on
\* another device, whose turn is really over when the event is sent.
OnlyReplacedDevicesAreTold ==
    \A p \in notified :
        /\ ~Active(p[2])
        /\ UserOf(p[2]) = UserOf(p[1])
        /\ DeviceOf(p[2]) # DeviceOf(p[1])

\* A row that was revoked or released keeps that status for ever: a heartbeat, a
\* release or a revocation that comes late changes nothing.
EndedTurnStaysEnded ==
    [][\A s \in Requests : usage[s] \in {"REVOKED", "RELEASED"} => usage'[s] = usage[s]]_usage

\* A call of acquire ends the turn of its own person only, whatever it read before
\* (an account has up to five people, each with a turn).
AcquireEndsOwnTurnOnly ==
    [][\A r, s \in Requests :
          /\ acquire[r].pc = "commit" /\ acquire'[r].pc = "emit"
          /\ s # r /\ usage'[s] # usage[s]
          => UserOf(s) = UserOf(r)]_vars

-----------------------------------------------------------------------------
(***************************************************************************)
(* What the documentation says and the code does not do.                   *)
(***************************************************************************)

\* "El plan V1 permite una por persona": one ACTIVE usage session for each person.
OneTurnPerPerson == \A u \in Users : Cardinality(ActiveOf(u)) <= 1

=============================================================================
