------------------------------ MODULE BackOffice ------------------------------
(***************************************************************************)
(* What the administration writes and reads besides the accounts           *)
(* (admin.controller.ts): the versions of the terms, the payments and the  *)
(* activation codes with the reports on them, the roles, and the lists     *)
(* that are read a page at a time.  What a grant does with the             *)
(* subscription is in Subscriptions.  An amount of money is abstracted to  *)
(* one unit, and a row of a table to its number, in the order of its       *)
(* creation.  A task is a request with several awaits.                     *)
(***************************************************************************)
EXTENDS Integers, FiniteSets, SequencesExt

CONSTANTS
    Clerks,          \* those who send the requests
    Days,            \* bound: the last day
    MetricDays,      \* the days metrics looks back
    PageSize,        \* pageSize of the lists
    Quantity         \* the codes of a batch

ASSUME BackOfficeAssumption ==
    {Days, PageSize, Quantity} \subseteq Nat \ {0} /\ MetricDays \in Nat

VARIABLES
    today,
    role,        \* adminRole of each clerk, "none" when isAdmin is false
    task,        \* what each clerk has under way
    terms,       \* TermsVersion
    payments,    \* Payment
    batches,     \* ActivationCodeBatch: its reseller, and the status of its codes
    walk,        \* a list that somebody reads page by page
    \* history
    settled,     \* the last publication was alone and complete
    hurried,     \* the terms whose version was read before others were written
    midnights    \* the payments that were recorded over a midnight

officeVars == <<today, role, task, terms, payments, batches, walk, settled, hurried, midnights>>

tables == <<terms, payments, batches>>

NoTask == [pc |-> "idle", of |-> 0, code |-> <<>>, status |-> "PAID", paid |-> 0, crossed |-> FALSE]

NoWalk == [pc |-> "none", list |-> "payments", status |-> "ALL", page |-> 1,
           seen |-> {}, due |-> {}, left |-> FALSE]

PaidAt(provider, created, paid) ==
    [provider |-> provider, status |-> "PAID", created |-> created, paid |-> paid]

\* Terms in force and a draft, two payments, and a batch that a reseller sells.
OfficeInit ==
    /\ today = 1
    /\ role = [c \in Clerks |-> "SUPER_ADMIN"]
    /\ task = [c \in Clerks |-> NoTask]
    /\ terms = <<[version |-> 1, published |-> TRUE, at |-> 1], [version |-> 2, published |-> FALSE, at |-> 0]>>
    /\ payments = <<PaidAt("MANUAL", 1, 1), PaidAt("MANUAL", 1, 1)>>
    /\ batches = <<[reseller |-> TRUE, codes |-> [k \in 1..Quantity |-> "AVAILABLE"]]>>
    /\ walk = NoWalk
    /\ settled = TRUE /\ hurried = {} /\ midnights = {}

\* AdminGuard and SuperAdminGuard: the role is read for each request, at its start.
Admitted(c) == task[c].pc = "idle" /\ role[c] # "none"

Supreme(c) == task[c].pc = "idle" /\ role[c] = "SUPER_ADMIN"

Doing(pc) == {c \in Clerks : task[c].pc = pc}

\* setRole: whoever is an administrator.
SetRole(c, d, new) ==
    /\ Admitted(c)
    /\ role' = [role EXCEPT ![d] = new]
    /\ UNCHANGED <<today, task, tables, walk, settled, hurried, midnights>>

(***************************************************************************)
(* Terms.                                                                  *)
(***************************************************************************)
NextOf(numbers) == 1 + CHOOSE m \in numbers \cup {0} : \A n \in numbers : n <= m

\* createTerms reads the newest version,
CreateTerms(c) ==
    /\ Admitted(c)
    /\ task' = [task EXCEPT ![c] = [NoTask EXCEPT !.pc = "terms",
                    !.of = NextOf({terms[i].version : i \in DOMAIN terms})]]
    /\ UNCHANGED <<today, role, tables, walk, settled, hurried, midnights>>

\* and writes a draft with the one after it.
WriteTerms(c) ==
    /\ task[c].pc = "terms"
    /\ terms' = Append(terms, [version |-> task[c].of, published |-> FALSE, at |-> 0])
    /\ hurried' = IF task[c].crossed THEN hurried \cup {Len(terms) + 1} ELSE hurried
    /\ task' = [d \in Clerks |->
            CASE d = c                            -> NoTask
              [] d # c /\ task[d].pc = "terms"   -> [task[d] EXCEPT !.crossed = TRUE]
              [] d # c /\ task[d].pc # "terms"   -> task[d]]
    /\ UNCHANGED <<today, role, payments, batches, walk, settled, midnights>>

\* Faulty variant of Unpublish: what is published stays so.
UnpublishNothing(c, id) ==
    /\ Admitted(c)
    /\ task' = [task EXCEPT ![c] = [NoTask EXCEPT !.pc = "publish", !.of = id]]
    /\ UNCHANGED <<today, role, tables, walk, settled, hurried, midnights>>

\* publishTerms first takes back whatever is published,
Unpublish(c, id) ==
    /\ Admitted(c)
    /\ terms' = [i \in DOMAIN terms |-> [terms[i] EXCEPT !.published = FALSE]]
    /\ task' = [d \in Clerks |->
            CASE d = c -> [NoTask EXCEPT !.pc = "publish", !.of = id, !.crossed = Doing("publish") # {}]
              [] d # c /\ task[d].pc = "publish"  -> [task[d] EXCEPT !.crossed = TRUE]
              [] d # c /\ task[d].pc # "publish"  -> task[d]]
    /\ UNCHANGED <<today, role, payments, batches, walk, settled, hurried, midnights>>

\* and then publishes the version it was asked to, or fails when there is none.
Publish(c) ==
    /\ task[c].pc = "publish"
    /\ LET id == task[c].of
       IN  IF id \in DOMAIN terms
           THEN /\ terms' = [terms EXCEPT ![id].published = TRUE,
                                          ![id].at = NextOf({terms[i].at : i \in DOMAIN terms})]
                /\ settled' = ~task[c].crossed
           ELSE UNCHANGED terms /\ settled' = FALSE
    /\ task' = [task EXCEPT ![c] = NoTask]
    /\ UNCHANGED <<today, role, payments, batches, walk, hurried, midnights>>

\* latestTerms, for everybody: the terms published last, or TERMS_NOT_FOUND.
LatestTerms ==
    {i \in DOMAIN terms : terms[i].published /\
        \A j \in DOMAIN terms : terms[j].published => terms[j].at <= terms[i].at}

(***************************************************************************)
(* Lists.                                                                  *)
(***************************************************************************)
\* The `where` of paymentsList, activationCodeBatches and activationCodesList.
MatchingPayments(ps, status) == {i \in DOMAIN ps : status \in {"ALL", ps[i].status}}

MatchingBatches(bs) == DOMAIN bs

MatchingCodes(bs, status) ==
    {c \in (DOMAIN bs) \X (1..Quantity) : status \in {"ALL", bs[c[1]].codes[c[2]]}}

Matching(ps, bs, list, status) ==
    CASE list = "payments" -> MatchingPayments(ps, status)
      [] list = "batches"  -> MatchingBatches(bs)
      [] list = "codes"    -> MatchingCodes(bs, status)

\* createdAt: the codes of a batch are created by one statement, with one instant.
Instant(list, x) == IF list = "codes" THEN x[1] ELSE x

\* Faulty variant of Positions: page counts from zero.
PositionsFromZero(page) == page * PageSize + 1..(page + 1) * PageSize

\* skip and take: the positions of a page.
Positions(page) == (page - 1) * PageSize + 1..page * PageSize

\* The pages a query may give of the rows S, the newest first: rows of one instant come
\* in any order.
Pages(list, S, page) ==
    LET newer(x) == {y \in S : Instant(list, y) > Instant(list, x)}
        tied(x)  == {y \in S : Instant(list, y) = Instant(list, x)}
        places(x) == LET n == Cardinality(newer(x)) IN n + 1..n + Cardinality(tied(x))
    IN  {P \in SUBSET S : \A x \in S :
            Cardinality(P \cap tied(x)) = Cardinality(places(x) \cap Positions(page))}

StartWalk(list, status) ==
    /\ walk.pc # "walking"
    /\ walk' = [NoWalk EXCEPT !.pc = "walking", !.list = list, !.status = status,
                              !.due = Matching(payments, batches, list, status)]
    /\ UNCHANGED <<today, role, task, tables, settled, hurried, midnights>>

\* A page and the total of that moment; the last page ends the walk.
ReadPage ==
    /\ walk.pc = "walking"
    /\ LET rows == Matching(payments, batches, walk.list, walk.status)
       IN  \E P \in Pages(walk.list, rows, walk.page) :
            walk' = [walk EXCEPT !.seen = @ \cup P, !.page = @ + 1,
                                 !.pc = IF walk.page * PageSize >= Cardinality(rows) THEN "done" ELSE @]
    /\ UNCHANGED <<today, role, task, tables, settled, hurried, midnights>>

\* History: a row of the list that is walked no longer matches.
Leaving(ps, bs) ==
    walk' = [walk EXCEPT !.left = @ \/ ~(Matching(payments, batches, walk.list, walk.status)
                                            \subseteq Matching(ps, bs, walk.list, walk.status))]

(***************************************************************************)
(* Payments and codes.                                                     *)
(***************************************************************************)
\* activationCodes, for a SUPER_ADMIN: a batch and its codes in one statement.
GenerateCodes(c, reseller) ==
    /\ Supreme(c)
    /\ batches' = Append(batches, [reseller |-> reseller, codes |-> [k \in 1..Quantity |-> "AVAILABLE"]])
    /\ UNCHANGED <<today, role, task, terms, payments, walk, settled, hurried, midnights>>

\* A manual payment, or the redemption of a code that is available and of a kind that is
\* paid for (a TRIAL records no payment): paidAt is the time of the server before the
\* row is created,
Pay(c, code) ==
    /\ task[c].pc = "idle"
    /\ code = <<>> => Admitted(c)
    /\ task' = [task EXCEPT ![c] = [NoTask EXCEPT !.pc = "pay", !.paid = today, !.code = code]]
    /\ UNCHANGED <<today, role, tables, walk, settled, hurried, midnights>>

\* and createdAt comes with the row.  A code that was taken meanwhile fails.
CommitPayment(c) ==
    /\ task[c].pc = "pay"
    /\ LET code == task[c].code
           ps   == Append(payments, PaidAt(IF code = <<>> THEN "MANUAL" ELSE "ACTIVATION_CODE", today, task[c].paid))
           bs   == IF code = <<>> THEN batches
                   ELSE [batches EXCEPT ![code[1]].codes[code[2]] = "REDEEMED"]
       IN  IF code = <<>> \/ batches[code[1]].codes[code[2]] = "AVAILABLE"
           THEN /\ payments' = ps /\ batches' = bs /\ Leaving(ps, bs)
                /\ midnights' = IF task[c].crossed THEN midnights \cup {Len(ps)} ELSE midnights
           ELSE UNCHANGED <<payments, batches, walk, midnights>>
    /\ task' = [task EXCEPT ![c] = NoTask]
    /\ UNCHANGED <<today, role, terms, settled, hurried>>

\* paymentStatus reads the payment (paidAt is 0 when it has none),
PaymentStatus(c, i, status) ==
    /\ Admitted(c) /\ i \in DOMAIN payments
    /\ task' = [task EXCEPT ![c] = [NoTask EXCEPT !.pc = "status", !.of = i, !.status = status,
                                                  !.paid = payments[i].paid]]
    /\ UNCHANGED <<today, role, tables, walk, settled, hurried, midnights>>

\* Faulty variant of WritePayment: paidAt is the last time the payment became PAID.
WritePaidAgain(c) ==
    /\ task[c].pc = "status"
    /\ LET i  == task[c].of
           st == task[c].status
           ps == [payments EXCEPT ![i].status = st, ![i].paid = IF st = "PAID" THEN today ELSE @]
       IN  payments' = ps /\ Leaving(ps, batches)
    /\ task' = [task EXCEPT ![c] = NoTask]
    /\ UNCHANGED <<today, role, terms, batches, settled, hurried, midnights>>

\* and writes the status, with paidAt when it becomes PAID for the first time.
WritePayment(c) ==
    /\ task[c].pc = "status"
    /\ LET i  == task[c].of
           st == task[c].status
           ps == [payments EXCEPT ![i].status = st,
                                  ![i].paid = IF st = "PAID" /\ task[c].paid = 0 THEN today ELSE @]
       IN  payments' = ps /\ Leaving(ps, batches)
    /\ task' = [task EXCEPT ![c] = NoTask]
    /\ UNCHANGED <<today, role, terms, batches, settled, hurried, midnights>>

(***************************************************************************)
(* Reports.                                                                *)
(***************************************************************************)
Count(S) == Cardinality(S)

PaidBetween(from, to) ==
    {i \in DOMAIN payments : payments[i].status = "PAID" /\ payments[i].created \in from..to}

\* The day a payment counts for: paidAt, or createdAt without it.
DayOf(p) == IF p.paid = 0 THEN p.created ELSE p.paid

\* revenue: the payments that were created in the days asked for, in total, for each
\* of these days, and by provider.
Revenue(from, to) ==
    LET paid == PaidBetween(from, to)
    IN  [income |-> Count(paid),
         daily |-> [d \in from..to |-> Count({i \in paid : DayOf(payments[i]) = d})],
         byProvider |-> [p \in {"MANUAL", "ACTIVATION_CODE"} |->
                            Count({i \in paid : payments[i].provider = p})]]

\* metrics: the same for the last days up to now.
Metrics ==
    LET from == IF today > MetricDays THEN today - MetricDays ELSE 1
        paid == PaidBetween(from, today)
    IN  [income |-> Count(paid),
         daily |-> [d \in from..today |-> Count({i \in paid : DayOf(payments[i]) = d})]]

CodesWith(b, status) == {k \in 1..Quantity : batches[b].codes[k] = status}

\* activationCodeBatches: what the list says of a batch.
BatchRow(b) == [total |-> Quantity, redeemed |-> Count(CodesWith(b, "REDEEMED"))]

\* activationCodeBatchDetail.
BatchDetail(b) ==
    [total |-> Quantity, available |-> Count(CodesWith(b, "AVAILABLE")),
     redeemed |-> Count(CodesWith(b, "REDEEMED")), expired |-> Count(CodesWith(b, "EXPIRED"))]

\* resellersSummary, of the one reseller.
ResellersSummary ==
    LET sold == {b \in DOMAIN batches : batches[b].reseller} \X (1..Quantity)
        with(status) == Count({c \in sold : batches[c[1]].codes[c[2]] = status})
    IN  [total |-> Count(sold), redeemed |-> with("REDEEMED"), available |-> with("AVAILABLE")]

(***************************************************************************)
(* The rest.                                                               *)
(***************************************************************************)
OfficeTick ==
    /\ today < Days
    /\ today' = today + 1
    /\ task' = [c \in Clerks |-> IF c \in Doing("pay") THEN [task[c] EXCEPT !.crossed = TRUE] ELSE task[c]]
    /\ UNCHANGED <<role, tables, walk, settled, hurried, midnights>>

\* The process ends, and every task where it is.
OfficeLost ==
    /\ settled' = (settled /\ Doing("publish") = {})
    /\ task' = [c \in Clerks |-> NoTask]
    /\ UNCHANGED <<today, role, tables, walk, hurried, midnights>>

OfficeStep ==
    \/ \E c \in Clerks : WriteTerms(c) \/ Publish(c) \/ CommitPayment(c) \/ WritePayment(c)
    \/ ReadPage
=============================================================================
