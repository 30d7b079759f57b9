--------------------------- MODULE SourceRegistry ---------------------------
(***************************************************************************)
(* The known sources of one title (one film, or one episode): a row of     *)
(* StreamSource per language, provider and server, with its score and its  *)
(* circuit breaker, and the negative cache of discovery, one entry per     *)
(* provider.  This module holds what source-registry.service.ts computes   *)
(* from a row; Playback holds the variables and the steps.                 *)
(*                                                                         *)
(* Time counts in units no shorter than the window of the breaker.  An     *)
(* instant of 0 is NULL.  Scores count in units of five points.            *)
(***************************************************************************)
EXTENDS Integers, Sequences, FiniteSets, SequencesExt

CONSTANTS
    Sources,            \* the natural keys (language, provider, server) a provider can list
    LanguageOf,         \* languageCode of each source
    ProviderOf,         \* providerId of each source
    Providers,          \* knownProviders, in the order of their priority
    CircuitBreakerFailures, BreakerTime, NotFoundTime, TransientTime,
    MaxScore, StartScore,
    Take                \* `take` of the query: the rows it returns at most

ASSUME SourceRegistryAssumption ==
    /\ IsFiniteSet(Sources)
    /\ Providers \in Seq(STRING)
    /\ LanguageOf \in [Sources -> STRING]
    /\ ProviderOf \in [Sources -> ToSet(Providers)]
    /\ {CircuitBreakerFailures, BreakerTime, NotFoundTime, TransientTime, Take}
           \subseteq Nat \ {0}
    /\ TransientTime < NotFoundTime
    /\ MaxScore \in Nat /\ StartScore \in 0..MaxScore

NoRow == [score |-> 0, fails |-> -1, until |-> 0]

\* What `create` writes: score 50 and the other defaults of the schema.
FreshRow == [score |-> StartScore, fails |-> 0, until |-> 0]

\* saveSources: a row that exists is enabled again, its breaker is closed and
\* its failures are forgotten; its score is not.
SavedRow(r) == IF r = NoRow THEN FreshRow ELSE [r EXCEPT !.fails = 0, !.until = 0]

\* classify and the penalty of recordFailure, in units of five points.
FailureClasses == {"http_403", "timeout", "other"}

Penalty(class) == CASE class = "http_403" -> 3
                    [] class = "timeout"  -> 2
                    [] OTHER              -> 1

\* Faulty variant of SuccessFrom: the score has no ceiling.
UncappedSuccess(read) == [success |-> TRUE, fails |-> 0, score |-> read.score + 1]

\* recordSuccess and recordFailure read the row, and write numbers computed from
\* what they read; only an open breaker is left as it is by a failure that does
\* not open it.
SuccessFrom(read) ==
    [success |-> TRUE, fails |-> 0,
     score |-> IF read.score + 1 > MaxScore THEN MaxScore ELSE read.score + 1]

FailureFrom(read, class) ==
    [success |-> FALSE, fails |-> read.fails + 1,
     score |-> IF read.score < Penalty(class) THEN 0 ELSE read.score - Penalty(class)]

\* Faulty variant of ReportedRow: the breaker opens one failure late.
LateBreaker(current, report, now) ==
    [score |-> report.score, fails |-> report.fails,
     until |-> IF report.success THEN 0
               ELSE IF report.fails > CircuitBreakerFailures THEN now + BreakerTime
               ELSE current.until]

ReportedRow(current, report, now) ==
    [score |-> report.score, fails |-> report.fails,
     until |-> IF report.success THEN 0
               ELSE IF report.fails >= CircuitBreakerFailures THEN now + BreakerTime
               ELSE current.until]

\* The WHERE of findCandidates.
Selectable(r, now) == r # NoRow /\ (r.until = 0 \/ r.until < now)

\* The place of a provider among the known ones, and the priority it gives.
Rank(p) == CHOOSE i \in DOMAIN Providers : Providers[i] = p

ProviderPriority(s) == Rank(ProviderOf[s])

\* The comparison of findCandidates: the language asked for, then the priority
\* of the provider, then the score.
Before(row, lang, s, t) ==
    LET rank(x) == IF LanguageOf[x] = lang THEN 0 ELSE 1
    IN  \/ rank(s) < rank(t)
        \/ /\ rank(s) = rank(t)
           /\ \/ ProviderPriority(s) < ProviderPriority(t)
              \/ /\ ProviderPriority(s) = ProviderPriority(t)
                 /\ row[s].score > row[t].score

\* The answers findCandidates may give: the `Take` best scores among the rows
\* that can be selected, in the order of the comparison (ties in any order).
Candidates(row, lang, now) ==
    LET rows    == {s \in Sources : Selectable(row[s], now)}
        fits(S) == /\ Cardinality(S) = IF Cardinality(rows) < Take THEN Cardinality(rows) ELSE Take
                   /\ \A s \in S, t \in rows \ S : row[s].score >= row[t].score
    IN  {q \in UNION {SetToSeqs(S) : S \in {T \in SUBSET rows : fits(T)}} :
            \A i, j \in DOMAIN q : i < j => ~Before(row, lang, q[j], q[i])}

\* isNegativeCached.
Cached(until, now) == until > now

\* markNotFound: six hours for a title the provider does not have, ten minutes
\* for a provider that failed.
CheckAgainAt(reason, now) ==
    now + IF reason = "transient_error" THEN TransientTime ELSE NotFoundTime
=============================================================================
