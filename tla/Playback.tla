------------------------------- MODULE Playback -------------------------------
(***************************************************************************)
(* Finding and resolving the sources of one title (playback.service.ts on  *)
(* top of the source registry, discovery and the resolvers).               *)
(*                                                                         *)
(* A flight is a key of singleFlight: a call whose key is in flight shares *)
(* its answer, so a flight is one computation at a time.  `resolve` has a  *)
(* flight per language, `prepare` one.  Each step of a flight ends at an   *)
(* await.  A report is a recordSuccess or a recordFailure: those of the    *)
(* application and the successes of a flight go on in the background, the  *)
(* failures of a flight are awaited.                                       *)
(***************************************************************************)
EXTENDS Resolvers

CONSTANTS
    Asked,          \* the languages `resolve` is called with
    LeaseTime,      \* LEASE_TTL_MS, of the server of each source
    MaxLeases,      \* MAX_LEASES
    BlockedSources, \* the sources whose URL purgeBlockedSources deletes
    MaxCalls,       \* bound: computations that start
    MaxEvents       \* bound: reports of the application, purges and ticks

ASSUME PlaybackAssumption ==
    /\ Asked \subseteq STRING /\ BlockedSources \subseteq Sources
    /\ LeaseTime \in [Sources -> Nat] /\ MaxLeases \in Nat \ {0} /\ MaxCalls \in Nat /\ MaxEvents \in Nat

VARIABLES
    now,       \* the clock
    row,       \* StreamSource
    negative,  \* DiscoveryNegativeCache: nextCheckAt, 0 when there is no entry
    flight,    \* the computation under way under each key
    asked,     \* what the discovery of a flight knows of each provider
    reports,   \* the reports that have read their row and have not written it
    active,    \* activeLeases
    calls, events,  \* calls and events so far
    \* history
    streak,    \* failures of a source since its last success or discovery
    crossed    \* the sources with a report that read its row before another write

vars == <<now, row, negative, flight, asked, reports, active, calls, events, streak, crossed>>

history == <<streak, crossed>>

Flights == {[scope |-> "resolve", lang |-> l] : l \in Asked}
               \cup {[scope |-> "prepare", lang |-> "*"]}

\* Who reports: a flight its failures, and these the rest.
App        == [scope |-> "app", lang |-> "*"]
Background == [scope |-> "background", lang |-> "*"]

ProviderSet == ToSet(Providers)

\* found is didDiscover; order and at are the loop over the candidates, leases
\* counts the leases of the answer and used has the sources that gave them (the
\* counts per language and per provider follow).
Idle == [pc |-> "idle", found |-> FALSE, forced |-> FALSE,
         order |-> <<>>, at |-> 1, used |-> {}, leases |-> 0]

NotAsked == [p \in ProviderSet |-> [st |-> "todo", found |-> {}]]

AllMarked == [p \in ProviderSet |-> [st |-> "done", found |-> {}]]

Init ==
    /\ now = 1 /\ calls = 0 /\ events = 0
    /\ row = [s \in Sources |-> NoRow]
    /\ negative = [p \in ProviderSet |-> 0]
    /\ flight = [f \in Flights |-> Idle]
    /\ asked = [f \in Flights |-> NotAsked]
    /\ reports = {}
    /\ active = EmptyBag
    /\ streak = [s \in Sources |-> 0]
    /\ crossed = {}

Event == events < MaxEvents /\ events' = events + 1 /\ UNCHANGED calls

(***************************************************************************)
(* A flight: prepare and resolveOnce.                                      *)
(***************************************************************************)
\* singleFlight: a key that is not in flight starts its computation.
Call(f) ==
    /\ flight[f].pc = "idle" /\ calls < MaxCalls
    /\ calls' = calls + 1
    /\ flight' = [flight EXCEPT ![f].pc = "find"]
    /\ UNCHANGED <<now, row, negative, asked, reports, active, events, history>>

\* Faulty variant of Diversify: the candidates are left in their order.
ByPriorityOnly(candidates) == candidates

\* The turn that diversify gives each candidate: the first of each language come
\* first, in the order of the candidates; then, for each provider in the order in
\* which the providers come, the first of its candidates that is left; then the rest.
Turn(candidates) ==
    LET firstOf(S, attribute) == {i \in S : \A j \in S :
            attribute[candidates[j]] = attribute[candidates[i]] => i <= j}
        round1    == firstOf(DOMAIN candidates, LanguageOf)
        round2    == firstOf(DOMAIN candidates \ round1, ProviderOf)
        leader(i) == CHOOSE j \in firstOf(DOMAIN candidates, ProviderOf) :
                        ProviderOf[candidates[j]] = ProviderOf[candidates[i]]
    IN  [i \in DOMAIN candidates |->
            CASE i \in round1 -> i
              [] i \in round2 -> Len(candidates) + leader(i)
              [] OTHER        -> 2 * Len(candidates) + i]

\* diversify: the candidates by turn.
Diversify(candidates) ==
    LET turn     == Turn(candidates)
        place(i) == Cardinality({j \in DOMAIN candidates : turn[j] <= turn[i]})
    IN  [k \in DOMAIN candidates |->
            candidates[CHOOSE i \in DOMAIN candidates : place(i) = k]]

\* findCandidates.  `prepare` ends when there is one, and both look for sources
\* when there is none.
Find(f) ==
    /\ flight[f].pc = "find"
    /\ \E q \in Candidates(row, f.lang, now) :
        flight' = [flight EXCEPT ![f] =
            CASE q = <<>>                             -> [@ EXCEPT !.pc = "discover"]
              [] q # <<>> /\ f.scope = "prepare"      -> Idle
              [] OTHER -> [@ EXCEPT !.pc = "resolve", !.order = Diversify(q)]]
    /\ UNCHANGED <<now, row, negative, asked, reports, active, calls, events, history>>

(***************************************************************************)
(* discoverAndSave.                                                        *)
(***************************************************************************)
\* discoverAll: there are as many workers as providers, so the negative cache is
\* read for all of them at once.  A provider it holds is left out unless this
\* discovery is forced, and so is one that fails.
Discover(f) ==
    /\ flight[f].pc = "discover"
    /\ \E d \in [ProviderSet -> UNION {Discoveries[p] : p \in ProviderSet}] :
        /\ \A p \in ProviderSet :
            IF ~flight[f].forced /\ Cached(negative[p], now) THEN d[p] = Failed
            ELSE d[p] \in Discoveries[p]
        /\ asked' = [asked EXCEPT ![f] = [p \in ProviderSet |->
                        [st |-> IF d[p].ok THEN "answered" ELSE "left out",
                         found |-> d[p].found]]]
    /\ flight' = [flight EXCEPT ![f].pc = "save"]
    /\ UNCHANGED <<now, row, negative, reports, active, calls, events, history>>

\* The discovery is over: `prepare` answers, and `resolve` tries the candidates
\* there are now.
Discovered(f) ==
    /\ flight[f].pc = "save" /\ asked[f] = AllMarked
    /\ \E q \in Candidates(row, f.lang, now) :
        flight' = [flight EXCEPT ![f] =
            IF f.scope = "prepare" THEN Idle
            ELSE [@ EXCEPT !.pc = "resolve", !.order = Diversify(q)]]
    /\ asked' = [asked EXCEPT ![f] = NotAsked]
    /\ UNCHANGED <<now, row, negative, reports, active, calls, events, history>>

\* The rows of S are written while the reports of R are under way; `resets` says
\* that what they held of failures before is gone.
Cross(R, S, resets) ==
    LET underWay == {r.source : r \in R} \cap S
    IN  crossed' = underWay \cup (IF resets THEN crossed \ S ELSE crossed)

\* saveSources of the sources of a provider that has some.
Save(f, p) ==
    /\ flight[f].pc = "save" /\ asked[f][p].found # {}
    /\ LET S == asked[f][p].found IN
        /\ row' = [s \in Sources |-> IF s \in S THEN SavedRow(row[s]) ELSE row[s]]
        /\ streak' = [s \in Sources |-> IF s \in S THEN 0 ELSE streak[s]]
        /\ Cross(reports, S, TRUE)
    /\ asked' = [asked EXCEPT ![f][p] = [st |-> "done", found |-> {}]]
    /\ flight' = [flight EXCEPT ![f].found = TRUE]
    /\ UNCHANGED <<now, negative, reports, active, calls, events>>

\* markNotFound, in the order of the providers and after the sources are saved,
\* of a provider that gave none: for long if it answered so, for a short time
\* if it was left out.
Mark(f, p) ==
    /\ flight[f].pc = "save" /\ asked[f][p].st \in {"answered", "left out"}
    /\ \A q \in ProviderSet :
        /\ asked[f][q].found = {}
        /\ asked[f][q].st # "done" => Rank(p) <= Rank(q)
    /\ negative' = [negative EXCEPT ![p] = CheckAgainAt(
                        IF asked[f][p].st = "answered" THEN "not_found" ELSE "transient_error", now)]
    /\ asked' = [asked EXCEPT ![f][p].st = "done"]
    /\ UNCHANGED <<now, row, flight, reports, active, calls, events, history>>

(***************************************************************************)
(* resolveCandidates.                                                      *)
(***************************************************************************)
UsedWith(f, attribute, s) == {t \in flight[f].used : attribute[t] = attribute[s]}

\* At most two sources of a language, and of a provider once there are two leases.
Capped(f, s) ==
    \/ Cardinality(UsedWith(f, LanguageOf, s)) >= 2
    \/ /\ Cardinality(UsedWith(f, ProviderOf, s)) >= 2
       /\ flight[f].leases >= 2

\* The candidates that are left: the loop passes over those that are capped.
Left(f) == {i \in flight[f].at..Len(flight[f].order) : ~Capped(f, flight[f].order[i])}

Over(f) == flight[f].leases >= MaxLeases \/ Left(f) = {}

Trying(f, i) ==
    flight[f].pc = "resolve" /\ ~Over(f) /\ i \in Left(f) /\ \A j \in Left(f) : i <= j

\* A report reads its row; with no row it ends here.
Reading(s, report, by) ==
    IF row[s] = NoRow THEN reports
    ELSE reports \cup {[source |-> s, by |-> by, success |-> report.success,
                        fails |-> report.fails, score |-> report.score]}

\* leaseTtl: the life of a lease depends on the server.
LeaseTtl(s) == now + LeaseTime[s]

\* The source gives URLs that pass the validation: the success is recorded in
\* the background, and there is a lease for each that has room in the answer.
Resolve(f, i) ==
    /\ Trying(f, i)
    /\ LET s    == flight[f].order[i]
           room == MaxLeases - flight[f].leases
       IN  /\ \E n \in ValidLeases[ProviderOf[s]] :
                LET given == IF n > room THEN room ELSE n
                IN  /\ flight' = [flight EXCEPT ![f].leases = @ + given, ![f].used = @ \cup {s},
                                                ![f].at = i + 1]
                    /\ active' = active (+) [l \in {[source |-> s, until |-> LeaseTtl(s)]} |-> given]
           /\ reports' = Reading(s, SuccessFrom(row[s]), Background)
    /\ UNCHANGED <<now, row, negative, asked, calls, events, history>>

\* The resolver throws, times out or gives nothing that is valid: the failure is
\* recorded, and awaited (with no row there is nothing to wait for).
Fail(f, i) ==
    /\ Trying(f, i)
    /\ LET s == flight[f].order[i] IN
        /\ \E class \in FailuresOf(ProviderOf[s]) :
            reports' = Reading(s, FailureFrom(row[s], class), f)
        /\ flight' = [flight EXCEPT ![f].pc = IF row[s] = NoRow THEN "resolve" ELSE "failing",
                                    ![f].at = i + 1]
    /\ UNCHANGED <<now, row, negative, asked, active, calls, events, history>>

\* The leases that have not expired.
Unexpired == [l \in {x \in DOMAIN active : x.until >= now} |-> active[l]]

\* Faulty variant of Finish: a computation looks for the sources again however
\* often it has.
FinishUnlessForced(f) ==
    /\ flight[f].pc = "resolve"
    /\ active' = Unexpired
    /\ IF Over(f) /\ flight[f].leases = 0
       THEN flight' = [flight EXCEPT ![f] = [Idle EXCEPT !.pc = "discover", !.forced = TRUE]]
       ELSE flight' = [flight EXCEPT ![f] = Idle]
    /\ UNCHANGED <<now, row, negative, asked, reports, calls, events, history>>

\* The loop ends, by itself or because the forty seconds of a resolution are
\* spent, and the leases that have expired are dropped.  With no lease, no
\* discovery and some time left, the sources are looked for again, whatever the
\* negative cache says; otherwise this is the answer.
Finish(f) ==
    /\ flight[f].pc = "resolve"
    /\ active' = Unexpired
    /\ \/ /\ Over(f) /\ flight[f].leases = 0 /\ ~flight[f].found /\ ~flight[f].forced
          /\ flight' = [flight EXCEPT ![f] = [Idle EXCEPT !.pc = "discover", !.forced = TRUE]]
       \/ flight' = [flight EXCEPT ![f] = Idle]
    /\ UNCHANGED <<now, row, negative, asked, reports, calls, events, history>>

(***************************************************************************)
(* Reports.                                                                *)
(***************************************************************************)
\* reportSuccess, reportFailure: the application reports a lease it was given,
\* once; nothing asks whether the lease has expired.
Report(l) ==
    /\ Event
    /\ BagIn(l, active)
    /\ active' = active (-) SetToBag({l})
    /\ \/ reports' = Reading(l.source, SuccessFrom(row[l.source]), App)
       \/ \E class \in FailureClasses :
            reports' = Reading(l.source, FailureFrom(row[l.source], class), App)
    /\ UNCHANGED <<now, row, negative, flight, asked, history>>

\* The report writes what it computed; a flight goes on after its failure.
Write(r) ==
    LET s == r.source
    IN  /\ row[s] # NoRow
        /\ row' = [row EXCEPT ![s] = ReportedRow(row[s], r, now)]
        /\ reports' = reports \ {r}
        /\ streak' = [streak EXCEPT ![s] = IF r.success THEN 0 ELSE @ + 1]
        /\ Cross(reports \ {r}, {s}, r.success)
        /\ flight' = IF r.by \in Flights THEN [flight EXCEPT ![r.by].pc = "resolve"] ELSE flight
        /\ UNCHANGED <<now, negative, asked, active, calls, events>>

\* The row is gone, and the update throws: a failure rejects its flight, the
\* report of the application is swallowed, and nothing handles the success of a
\* flight: the process ends, and starts again with nothing in memory.
Missed(r) ==
    /\ row[r.source] = NoRow
    /\ IF r.by = Background
       THEN /\ reports' = {} /\ active' = EmptyBag
            /\ flight' = [f \in Flights |-> Idle] /\ asked' = [f \in Flights |-> NotAsked]
       ELSE /\ reports' = reports \ {r} /\ UNCHANGED active
            /\ flight' = [f \in Flights |-> IF f = r.by THEN Idle ELSE flight[f]]
            /\ UNCHANGED asked
    /\ UNCHANGED <<now, row, negative, calls, events, history>>

(***************************************************************************)
(* The rest.                                                               *)
(***************************************************************************)
\* purgeBlockedSources of the administration.
Purge ==
    /\ Event
    /\ \E s \in BlockedSources : row[s] # NoRow
    /\ row' = [s \in Sources |-> IF s \in BlockedSources THEN NoRow ELSE row[s]]
    /\ streak' = [s \in Sources |-> IF s \in BlockedSources THEN 0 ELSE streak[s]]
    /\ Cross(reports, BlockedSources, TRUE)
    /\ UNCHANGED <<now, negative, flight, asked, reports, active>>

Tick ==
    /\ Event
    /\ now' = now + 1
    /\ UNCHANGED <<row, negative, flight, asked, reports, active, history>>

Step(f) ==
    \/ Find(f) \/ Discover(f) \/ Discovered(f)
    \/ \E p \in ProviderSet : Save(f, p) \/ Mark(f, p)
    \/ \E i \in DOMAIN flight[f].order : Resolve(f, i) \/ Fail(f, i)
    \/ Finish(f)

Recorded == \E r \in reports : Write(r) \/ Missed(r)

UnderWay == Recorded \/ \E f \in Flights : Step(f)

Next ==
    \/ \E f \in Flights : Call(f)
    \/ UnderWay
    \/ \E l \in DOMAIN active : Report(l)
    \/ Purge
    \/ Tick

\* Every request to a provider carries a timeout and every query ends, so a
\* process with something under way does not stop.
Fairness == WF_vars(UnderWay)

Spec == Init /\ [][Next]_vars /\ Fairness

-----------------------------------------------------------------------------
Reports == [source : Sources, success : BOOLEAN, score : 0..MaxScore, fails : Nat,
            by : Flights \cup {App, Background}]

\* The types, with the range of the score (recordSuccess, recordFailure) and the
\* size of an answer (resolveCandidates).
TypeOK ==
    /\ now \in 1..(MaxEvents + 1) /\ calls \in 0..MaxCalls /\ events \in 0..MaxEvents
    /\ \A s \in Sources : row[s] # NoRow => row[s] \in [score : 0..MaxScore, fails : Nat, until : Nat]
    /\ negative \in [ProviderSet -> Nat]
    /\ \A f \in Flights :
        /\ flight[f].pc \in {"idle", "find", "discover", "save", "resolve", "failing"}
        /\ flight[f].leases \in 0..MaxLeases
        /\ flight[f].used \subseteq ToSet(flight[f].order)
    /\ reports \subseteq Reports /\ crossed \subseteq Sources
    /\ IsABag(active)

\* recordFailure, recordSuccess, saveSources: the breaker of a source has been
\* opened exactly if its last reports were so many failures in a row, with no
\* success and no discovery since; unless a report was written over another
\* that it had not read.
BreakerFollowsFailures ==
    \A s \in Sources : row[s] # NoRow /\ s \notin crossed =>
        (row[s].until # 0 <=> streak[s] >= CircuitBreakerFailures)

\* diversify and the caps of resolveCandidates: an answer has two sources of one
\* language only if every language of the candidates has been tried.
LanguagesComeFirst ==
    \A f \in Flights :
        LET fl == flight[f]
            tried == {fl.order[i] : i \in 1..(fl.at - 1)}
        IN  (\E s \in fl.used : UsedWith(f, LanguageOf, s) # {s}) =>
                \A t \in ToSet(fl.order) : \E u \in tried : LanguageOf[u] = LanguageOf[t]

\* resolveCandidates and discoverAndSave: what a flight waits for is there.  One whose
\* failure is awaited has one report of it under way, and no other flight has any; one that
\* saves has sources to save or a provider to mark, until all of them are done.
NoFlightIsStuck ==
    \A f \in Flights :
        LET own == {r \in reports : r.by = f}
        IN  /\ flight[f].pc = "failing" => \E r \in own : own = {r}
            /\ flight[f].pc # "failing" => own = {}
            /\ flight[f].pc = "save" /\ asked[f] # AllMarked =>
                   \E p \in ProviderSet :
                       \/ asked[f][p].found # {}
                       \/ /\ asked[f][p].st \in {"answered", "left out"}
                          /\ \A q \in ProviderSet : /\ asked[f][q].found = {}
                                                    /\ asked[f][q].st # "done" => Rank(p) <= Rank(q)

\* singleFlight and resolveOnce: however its providers answer, every computation
\* under way ends, and its key is free again.
FlightsEnd ==
    (\E f \in Flights : flight[f].pc # "idle") ~> \A f \in Flights : flight[f].pc = "idle"
=============================================================================
