--------------------------- MODULE Subscriptions ---------------------------
(***************************************************************************)
(* The subscriptions of one account: who writes them, and who decides from *)
(* them whether the account has access.                                    *)
(*                                                                         *)
(* A grant comes from an activation code or from a manual payment.  In one *)
(* transaction it reads the newest live subscription, cancels it and       *)
(* creates the next one, which continues it when the plan is the same.     *)
(* SubscriptionPolicyService.resolve reads the same row from everywhere    *)
(* (acquire, leases, devices, invitations) and writes what the time has    *)
(* made of it, PAST_DUE or EXPIRED, some awaits later.  An administrator   *)
(* edits rows.  Transactions run at READ COMMITTED: their reads see what   *)
(* is committed, their writes show at the commit.                          *)
(***************************************************************************)
EXTENDS Naturals, FiniteSets

CONSTANTS
    Plans,
    LifetimePlans,  \* plans whose billingInterval is LIFETIME
    Codes,
    KindOf,         \* TRIAL, PREPAID (COMPLIMENTARY codes behave alike) or LIFETIME
    PlanOf,         \* the plan of a code
    LengthOf,       \* the duration of a code, None for the unit LIFETIME
    Period,         \* the duration a manual payment buys
    Grace,          \* PAYMENT_GRACE_HOURS
    MaxTime,        \* bound on the time
    Grants,         \* calls that grant; a subscription is named after its call
    Readers,        \* calls of resolve that may run at a time
    Edits,          \* calls of AdminController.updateSubscription
    None

ASSUME SubscriptionsAssumption ==
    /\ IsFiniteSet(Grants)
    /\ LifetimePlans \subseteq Plans
    /\ KindOf \in [Codes -> {"TRIAL", "PREPAID", "LIFETIME"}]
    /\ PlanOf \in [Codes -> Plans]
    /\ LengthOf \in [Codes -> Nat \cup {None}]
    \* GenerateActivationCodesUseCase: LIFETIME codes, and they alone, are for LIFETIME plans.
    /\ \A c \in Codes : KindOf[c] = "LIFETIME" <=> PlanOf[c] \in LifetimePlans
    /\ \A c \in Codes : KindOf[c] = "LIFETIME" => LengthOf[c] = None
    /\ Period \in Nat \ {0} /\ Grace \in Nat /\ MaxTime \in Nat
    /\ None \notin Nat \cup Plans \cup Codes \cup Grants

VARIABLES
    subscription,   \* the row each grant created
    created,        \* rows created so far: the order of column createdAt
    redeemed,       \* codes whose status is REDEEMED
    now,
    grant,          \* the calls that grant: where they are, and what they have read
    reader,         \* the calls of resolve
    edit,           \* the calls of updateSubscription
    sinceTrial,     \* history: trials granted since the call looked for an earlier one
    sinceRead,      \* history: grants committed since the call read the current subscription
    revived,        \* history: rows that were over when PAST_DUE was written
    edited          \* history: rows an administrator wrote

calls == <<grant, reader, edit>>
historyVars == <<sinceTrial, sinceRead, revived, edited>>
vars == <<subscription, created, redeemed, now, grant, reader, edit,
          sinceTrial, sinceRead, revived, edited>>

LiveStatus == {"ACTIVE", "TRIALING", "PAST_DUE"}
Status == LiveStatus \cup {"NONE", "EXPIRED", "CANCELLED"}
Time == Nat \cup {None}

Subscription == [status : Status,
                 planId : Plans \cup {None},
                 permanent : BOOLEAN,       \* billingMode is PERMANENT
                 currentPeriodEnd : Time,
                 trialEndsAt : Time,
                 createdAt : Nat]

Grant == [pc : {"idle", "trial", "lock", "read", "commit", "done", "failed"},
          code : Codes \cup {None},         \* None: a manual payment
          planId : Plans \cup {None},
          current : Grants \cup {None},
          end : Time]

Reader == [pc : {"idle", "expire", "pastdue"}, row : Grants \cup {None}]
Edit == [pc : {"idle", "write", "done"}, row : Grants \cup {None}, end : Time]

NoSubscription == [status |-> "NONE", planId |-> None, permanent |-> FALSE,
                   currentPeriodEnd |-> None, trialEndsAt |-> None, createdAt |-> 0]
NoGrant(pc) == [pc |-> pc, code |-> None, planId |-> None, current |-> None, end |-> None]
NoReader == [pc |-> "idle", row |-> None]

-----------------------------------------------------------------------------
Live(s) == subscription[s].status \in LiveStatus
LiveRows == {s \in Grants : Live(s)}

\* findFirst of the live rows, orderBy createdAt desc: one row, or none.
Current == {s \in LiveRows : \A t \in LiveRows : subscription[s].createdAt >= subscription[t].createdAt}

\* endDate: no end for the unit LIFETIME.
EndDate(start, length) == IF length = None THEN None ELSE start + length

LengthOfGrant(g) ==
    IF grant[g].code # None THEN LengthOf[grant[g].code]
    ELSE IF grant[g].planId \in LifetimePlans THEN None ELSE Period

\* Faulty variant of StartDate: the time that is left is not added to.
StartNow(s, plan) == now

\* A subscription to the same plan that has not ended is continued.
StartDate(s, plan) ==
    IF /\ subscription[s].planId = plan
       /\ subscription[s].currentPeriodEnd # None
       /\ subscription[s].currentPeriodEnd > now
    THEN subscription[s].currentPeriodEnd ELSE now

IsTrial(g) == grant[g].code # None /\ KindOf[grant[g].code] = "TRIAL"
IsPermanent(g) ==
    IF grant[g].code # None THEN KindOf[grant[g].code] = "LIFETIME"
    ELSE grant[g].planId \in LifetimePlans

At(g, pc) == grant[g].pc = pc
Goto(g, pc) == grant' = [grant EXCEPT ![g] = [@ EXCEPT !.pc = pc]]
Fail(g) == grant' = [grant EXCEPT ![g] = NoGrant("failed")]

GrantReads == UNCHANGED <<subscription, created, redeemed, now, reader, edit, historyVars>>

-----------------------------------------------------------------------------
\* RedeemActivationCodeUseCase.execute and ManualPaymentService.record.

\* activationCode.findUnique; a code past redemptionExpiresAt, or a caller who does not
\* own the account, is refused, which is left open.
FindCode(g, c) ==
    /\ At(g, "idle")
    /\ \/ /\ c \notin redeemed
          /\ grant' = [grant EXCEPT ![g] =
                [@ EXCEPT !.pc = IF KindOf[c] = "TRIAL" THEN "trial" ELSE "lock",
                          !.code = c, !.planId = PlanOf[c]]]
       \/ Fail(g)
    /\ GrantReads

\* Faulty variant of CheckTrial: only the code itself is looked for.
CheckThisTrial(g) ==
    /\ At(g, "trial")
    /\ IF grant[g].code \in redeemed THEN Fail(g) ELSE Goto(g, "lock")
    /\ GrantReads

\* activationRedemption.findFirst of a TRIAL code, or TRIAL_ALREADY_USED.
CheckTrial(g) ==
    /\ At(g, "trial")
    /\ IF \E c \in redeemed : KindOf[c] = "TRIAL" THEN Fail(g) ELSE Goto(g, "lock")
    /\ GrantReads

\* Another transaction has written the row of the code and is not committed.
LockedByAnother(g) ==
    \E h \in Grants \ {g} : grant[h].pc \in {"read", "commit"} /\ grant[h].code = grant[g].code

\* Faulty variant of LockCode: the status is not part of the condition.
LockAnyway(g) ==
    /\ At(g, "lock")
    /\ ~LockedByAnother(g)
    /\ Goto(g, "read")
    /\ GrantReads

\* tx.activationCode.updateMany where status AVAILABLE: it waits for the transaction
\* that holds the row, then looks at the status again.
LockCode(g) ==
    /\ At(g, "lock")
    /\ ~LockedByAnother(g)
    /\ IF grant[g].code \in redeemed THEN Fail(g) ELSE Goto(g, "read")
    /\ GrantReads

\* plan.findUniqueOrThrow of a manual payment.
FindPlan(g, plan) ==
    /\ At(g, "idle")
    /\ grant' = [grant EXCEPT ![g] = [@ EXCEPT !.pc = "read", !.planId = plan]]
    /\ GrantReads

\* SubscriptionGrantService.execute up to the end date.
ReadCurrent(g) ==
    /\ At(g, "read")
    /\ \/ /\ Current = {}
          /\ grant' = [grant EXCEPT ![g] =
                [@ EXCEPT !.pc = "commit", !.end = EndDate(now, LengthOfGrant(g))]]
       \/ \E s \in Current :
             grant' = [grant EXCEPT ![g] =
                [@ EXCEPT !.pc = "commit", !.current = s,
                          !.end = EndDate(StartDate(s, grant[g].planId), LengthOfGrant(g))]]
    /\ GrantReads

\* The row a grant creates.
NewSubscription(g) ==
    [status |-> IF IsTrial(g) THEN "TRIALING" ELSE "ACTIVE",
     planId |-> grant[g].planId,
     permanent |-> IsPermanent(g),
     currentPeriodEnd |-> grant[g].end,
     trialEndsAt |-> IF IsTrial(g) THEN grant[g].end ELSE None,
     createdAt |-> created + 1]

\* Faulty variant of Cancelled: a trial is left to run out.
CancelledUnlessTrial(s) ==
    [subscription EXCEPT ![s] =
        [@ EXCEPT !.status = IF @ = "TRIALING" THEN @ ELSE "CANCELLED"]]

Cancelled(s) == [subscription EXCEPT ![s] = [@ EXCEPT !.status = "CANCELLED"]]

\* Faulty variant of Redeemed: a manual payment redeems the code it does not have.
RedeemedAnyway(g) == redeemed \cup {grant[g].code}

\* A manual payment comes without a code.
Redeemed(g) == redeemed \cup ({grant[g].code} \cap Codes)

\* subscription.update of the current row, subscription.create, the redemption and the
\* payment, and the commit.
CommitGrant(g) ==
    /\ At(g, "commit")
    /\ subscription' =
          [IF grant[g].current = None THEN subscription ELSE Cancelled(grant[g].current)
              EXCEPT ![g] = NewSubscription(g)]
    /\ created' = created + 1
    /\ redeemed' = Redeemed(g)
    /\ sinceTrial' = [h \in Grants |->
          IF h # g /\ IsTrial(g) /\ IsTrial(h) /\ grant[h].pc \in {"lock", "read", "commit"}
          THEN sinceTrial[h] \cup {g} ELSE sinceTrial[h]]
    /\ sinceRead' = [h \in Grants |->
          IF h # g /\ At(h, "commit") THEN sinceRead[h] \cup {g} ELSE sinceRead[h]]
    /\ grant' = [grant EXCEPT ![g] = [@ EXCEPT !.pc = "done", !.current = None, !.end = None]]
    /\ UNCHANGED <<now, reader, edit, revived, edited>>

-----------------------------------------------------------------------------
\* SubscriptionPolicyService.resolve for an ACTIVE account.

Permanent(s) == subscription[s].permanent \/ subscription[s].planId \in LifetimePlans

BaseEnd(s) ==
    IF subscription[s].status = "TRIALING" /\ subscription[s].trialEndsAt # None
    THEN subscription[s].trialEndsAt ELSE subscription[s].currentPeriodEnd

\* Faulty variant of ValidUntil: the grace is not given.
ValidUntilBaseEnd(s) == BaseEnd(s)

ValidUntil(s) == IF subscription[s].status = "TRIALING" THEN BaseEnd(s) ELSE BaseEnd(s) + Grace

\* Access is over, and resolve answers EXPIRED.
Lapsed(s) == ~Permanent(s) /\ BaseEnd(s) # None /\ ValidUntil(s) <= now

\* Within the grace, and not marked yet.
Overdue(s) ==
    /\ ~Permanent(s) /\ BaseEnd(s) # None
    /\ ValidUntil(s) > now /\ BaseEnd(s) <= now
    /\ subscription[s].status = "ACTIVE"

\* subscription.findFirst and the decision.  Every other answer writes nothing.
Resolve(r) ==
    /\ reader[r].pc = "idle"
    /\ \E s \in Current :
          \/ Lapsed(s) /\ reader' = [reader EXCEPT ![r] = [pc |-> "expire", row |-> s]]
          \/ Overdue(s) /\ reader' = [reader EXCEPT ![r] = [pc |-> "pastdue", row |-> s]]
    /\ UNCHANGED <<subscription, created, redeemed, now, grant, edit, historyVars>>

\* subscription.updateMany where the status is not EXPIRED.
MarkExpired(r) ==
    /\ reader[r].pc = "expire"
    /\ subscription' = [subscription EXCEPT ![reader[r].row] = [@ EXCEPT !.status = "EXPIRED"]]
    /\ reader' = [reader EXCEPT ![r] = NoReader]
    /\ UNCHANGED <<created, redeemed, now, grant, edit, historyVars>>

\* subscription.update where id: the status is not looked at again.
MarkPastDue(r) ==
    /\ reader[r].pc = "pastdue"
    /\ subscription' = [subscription EXCEPT ![reader[r].row] = [@ EXCEPT !.status = "PAST_DUE"]]
    /\ revived' = IF Live(reader[r].row) THEN revived ELSE revived \cup {reader[r].row}
    /\ reader' = [reader EXCEPT ![r] = NoReader]
    /\ UNCHANGED <<created, redeemed, now, grant, edit, sinceTrial, sinceRead, edited>>

-----------------------------------------------------------------------------
\* AdminController.updateSubscription.

FindSubscription(e, s) ==
    /\ edit[e].pc = "idle"
    /\ subscription[s].status # "NONE"
    /\ edit' = [edit EXCEPT ![e] = [pc |-> "write", row |-> s,
          end |-> IF subscription[s].currentPeriodEnd = None THEN now
                  ELSE subscription[s].currentPeriodEnd]]
    /\ UNCHANGED <<subscription, created, redeemed, now, grant, reader, historyVars>>

\* subscription.update: a status, a plan, an end extended by one from what was read, or
\* some of them.  The other statuses that end access are like CANCELLED.
WriteSubscription(e, status, plan, extend) ==
    /\ edit[e].pc = "write"
    /\ LET s == edit[e].row
           row == subscription[s]
       IN  /\ subscription' = [subscription EXCEPT ![s] =
                 [row EXCEPT !.status = IF status = None THEN row.status ELSE status,
                             !.planId = IF plan = None THEN row.planId ELSE plan,
                             !.currentPeriodEnd = IF extend THEN edit[e].end + 1
                                                  ELSE row.currentPeriodEnd]]
           /\ edited' = edited \cup {s}
    /\ edit' = [edit EXCEPT ![e] = [@ EXCEPT !.pc = "done"]]
    /\ UNCHANGED <<created, redeemed, now, grant, reader, sinceTrial, sinceRead, revived>>

-----------------------------------------------------------------------------
Tick ==
    /\ now < MaxTime
    /\ now' = now + 1
    /\ UNCHANGED <<subscription, created, redeemed, calls, historyVars>>

\* The process stops and starts again: open transactions are rolled back.
Crash ==
    /\ grant' = [g \in Grants |-> IF grant[g].pc \in {"idle", "done", "failed"} THEN grant[g]
                                  ELSE NoGrant("failed")]
    /\ reader' = [r \in Readers |-> NoReader]
    /\ edit' = [e \in Edits |-> IF edit[e].pc = "write" THEN [edit[e] EXCEPT !.pc = "done"]
                                ELSE edit[e]]
    /\ UNCHANGED <<subscription, created, redeemed, now, historyVars>>

Init ==
    /\ subscription = [s \in Grants |-> NoSubscription]
    /\ created = 0
    /\ redeemed = {}
    /\ now = 0
    /\ grant = [g \in Grants |-> NoGrant("idle")]
    /\ reader = [r \in Readers |-> NoReader]
    /\ edit = [e \in Edits |-> [pc |-> "idle", row |-> None, end |-> None]]
    /\ sinceTrial = [g \in Grants |-> {}]
    /\ sinceRead = [g \in Grants |-> {}]
    /\ revived = {}
    /\ edited = {}

GrantStep(g) == CheckTrial(g) \/ LockCode(g) \/ ReadCurrent(g) \/ CommitGrant(g)
ReaderStep(r) == Resolve(r) \/ MarkExpired(r) \/ MarkPastDue(r)

Next ==
    \/ \E g \in Grants :
          \/ \E c \in Codes : FindCode(g, c)
          \/ \E plan \in Plans : FindPlan(g, plan)
          \/ GrantStep(g)
    \/ \E r \in Readers : ReaderStep(r)
    \/ \E e \in Edits :
          \/ \E s \in Grants : FindSubscription(e, s)
          \/ \E status \in {None, "ACTIVE", "CANCELLED"}, plan \in Plans \cup {None},
                extend \in BOOLEAN : WriteSubscription(e, status, plan, extend)
    \/ Tick
    \/ Crash

Spec == Init /\ [][Next]_vars

-----------------------------------------------------------------------------
\* Properties.

TypeOK ==
    /\ subscription \in [Grants -> Subscription]
    /\ created \in Nat
    /\ redeemed \subseteq Codes
    /\ now \in 0 .. MaxTime
    /\ grant \in [Grants -> Grant]
    /\ reader \in [Readers -> Reader]
    /\ edit \in [Edits -> Edit]
    /\ sinceTrial \in [Grants -> SUBSET Grants]
    /\ sinceRead \in [Grants -> SUBSET Grants]
    /\ revived \subseteq Grants
    /\ edited \subseteq Grants

\* An account is meant to have one live subscription: each grant cancels the one it
\* replaces.  Nothing in the schema says so, and the rest of the code always takes the
\* newest.  Every live row beyond the first has a cause: a grant that committed between
\* another grant's read and its commit, a PAST_DUE that was written on a row which was
\* over, or the hand of an administrator.
OneLiveSubscription ==
    Cardinality(LiveRows) <= 1 + Cardinality({g \in Grants : sinceRead[g] # {}})
                               + Cardinality(revived \cup edited)

\* An activation code gives one subscription, whatever calls redeem it at a time
\* (the status is looked at again by the update that takes the code).
CodeIsRedeemedOnce ==
    \A g, h \in Grants :
       At(g, "done") /\ At(h, "done") /\ grant[g].code \in Codes /\ grant[g].code = grant[h].code
       => g = h

\* A person has one trial (TRIAL_ALREADY_USED), unless two redemptions overlapped: the
\* earlier trial is looked for outside of the transaction.
SecondTrialOverlapped ==
    \A g, h \in Grants :
       g # h /\ At(g, "done") /\ At(h, "done") /\ IsTrial(g) /\ IsTrial(h)
       => g \in sinceTrial[h] \/ h \in sinceTrial[g]

\* However late the writes of resolve come, a row is EXPIRED only after its last day of
\* grace (a trial has none), and PAST_DUE only after its end, unless an administrator
\* wrote it: access that was paid for does not end early.
NotMarkedEarly ==
    \A s \in Grants \ edited :
       LET row == subscription[s]
       IN  /\ row.status = "EXPIRED" =>
                 now >= IF row.trialEndsAt # None THEN row.trialEndsAt
                        ELSE row.currentPeriodEnd + Grace
           /\ row.status = "PAST_DUE" => row.trialEndsAt = None /\ now >= row.currentPeriodEnd

\* A grant that continues the subscription of the account, in the same plan, adds its
\* whole length to the time that is left, unless two grants have overlapped: then a row
\* may stay live behind the newest, and the grant may have read that one.
PaidTimeIsKept ==
    [][\A g \in Grants, s \in Current \ (revived \cup edited) :
          (/\ At(g, "commit") /\ grant'[g].pc = "done"
           /\ \A h \in Grants : sinceRead[h] = {}
           /\ LengthOfGrant(g) # None
           /\ subscription[s].planId = grant[g].planId
           /\ subscription[s].currentPeriodEnd # None
           /\ subscription[s].currentPeriodEnd > now)
          => subscription'[g].currentPeriodEnd
               >= subscription[s].currentPeriodEnd + LengthOfGrant(g)]_vars

=============================================================================
