--------------------------- MODULE PlaybackProofs ---------------------------
(***************************************************************************)
(* Proofs about Playback, for any sources, providers, languages and        *)
(* limits: the circuit breakers, the order in which candidates are tried,  *)
(* the types, and what a flight waits for.                                 *)
(***************************************************************************)
EXTENDS Playback, FiniteSetTheorems, WellFoundedInduction, TLAPS

Known(s) == row[s] # NoRow

RowsAreTyped ==
    /\ now \in Nat \ {0}
    /\ DOMAIN row = Sources /\ streak \in [Sources -> Nat]
    /\ \A s \in Sources : Known(s) => row[s].fails \in Nat /\ row[s].until \in Nat
    /\ \A r \in reports : /\ r.source \in Sources => r.fails \in Nat
                          /\ r.success => r.fails = 0

\* A source that no report has crossed: its row counts the failures there were, and its
\* breaker is open as the count says;
RowsCountFailures ==
    \A s \in Sources \ crossed : Known(s) =>
        /\ row[s].fails = streak[s]
        /\ row[s].until # 0 <=> row[s].fails >= CircuitBreakerFailures

\* and its reports under way have read the row as it is.
ReportsAreFresh ==
    \A r \in reports : r.source \in Sources \ crossed =>
        /\ Known(r.source)
        /\ r.fails = IF r.success THEN 0 ELSE row[r.source].fails + 1

BreakerIInv == RowsAreTyped /\ RowsCountFailures /\ ReportsAreFresh

-----------------------------------------------------------------------------
LEMMA Numbers ==
  /\ CircuitBreakerFailures \in Nat \ {0} /\ BreakerTime \in Nat \ {0}
  /\ NoRow.fails = -1
  BY SourceRegistryAssumption DEF NoRow

LEMMA Initially == Init => BreakerIInv
  BY DEF Init, BreakerIInv, RowsAreTyped, RowsCountFailures, ReportsAreFresh, Known

-----------------------------------------------------------------------------
\* Steps that write no row, and begin no report.
LEMMA QuietKeeps ==
  ASSUME BreakerIInv, UNCHANGED <<row, streak, crossed>>, reports' \subseteq reports,
         now' \in {now, now + 1}
  PROVE  BreakerIInv'
  BY DEF BreakerIInv, RowsAreTyped, RowsCountFailures, ReportsAreFresh, Known

\* A report reads its row.
LEMMA ReadingKeeps ==
  ASSUME BreakerIInv, UNCHANGED <<now, row, streak, crossed>>, NEW s, NEW by, NEW class,
         \/ reports' = Reading(s, SuccessFrom(row[s]), by)
         \/ reports' = Reading(s, FailureFrom(row[s], class), by)
  PROVE  BreakerIInv'
  <1>1. CASE row[s] = NoRow
    <2>1. reports' = reports
      BY <1>1 DEF Reading
    <2> QED
      BY <2>1, QuietKeeps
  <1>2. CASE row[s] # NoRow
    <2>0. \E new : /\ reports' = reports \cup {new} /\ new.source = s
                   /\ new.fails = IF new.success THEN 0 ELSE row[s].fails + 1
      <3>1. CASE reports' = Reading(s, SuccessFrom(row[s]), by)
        <4> DEFINE new == [source |-> s, by |-> by, success |-> TRUE, fails |-> 0,
                           score |-> SuccessFrom(row[s]).score]
        <4>1. reports' = reports \cup {new}
          BY <1>2, <3>1 DEF Reading, SuccessFrom
        <4>2. new.source = s /\ new.fails = IF new.success THEN 0 ELSE row[s].fails + 1
          OBVIOUS
        <4> HIDE DEF new
        <4> QED
          BY <4>1, <4>2
      <3>2. CASE reports' = Reading(s, FailureFrom(row[s], class), by)
        <4> DEFINE new == [source |-> s, by |-> by, success |-> FALSE, fails |-> row[s].fails + 1,
                           score |-> FailureFrom(row[s], class).score]
        <4>1. reports' = reports \cup {new}
          BY <1>2, <3>2 DEF Reading, FailureFrom
        <4>2. new.source = s /\ new.fails = IF new.success THEN 0 ELSE row[s].fails + 1
          OBVIOUS
        <4> HIDE DEF new
        <4> QED
          BY <4>1, <4>2
      <3> QED
        BY <3>1, <3>2
    <2>1. PICK new : /\ reports' = reports \cup {new} /\ new.source = s
                     /\ new.fails = IF new.success THEN 0 ELSE row[s].fails + 1
      BY <2>0
    <2>2. RowsAreTyped'
      <3>1. (s \in Sources => new.fails \in Nat) /\ (new.success => new.fails = 0)
        BY <1>2, <2>1 DEF BreakerIInv, RowsAreTyped, Known
      <3> QED
        BY <2>1, <3>1 DEF BreakerIInv, RowsAreTyped, Known
    <2>3. RowsCountFailures'
      BY DEF BreakerIInv, RowsCountFailures, Known
    <2>4. ReportsAreFresh'
      <3>1. /\ s \in Sources \ crossed => Known(s)
            /\ new.fails = IF new.success THEN 0 ELSE row[s].fails + 1
        BY <1>2, <2>1 DEF Known
      <3> QED
        BY <2>1, <3>1 DEF BreakerIInv, ReportsAreFresh, Known
    <2> QED
      BY <2>2, <2>3, <2>4 DEF BreakerIInv
  <1> QED
    BY <1>1, <1>2

\* Rows that are written with no failure and a closed breaker, or deleted.
LEMMA ResetsKeep ==
  ASSUME BreakerIInv, NEW S, UNCHANGED <<now, reports>>,
         DOMAIN row' = Sources, streak' \in [Sources -> Nat],
         \A s \in Sources : IF s \in S THEN /\ streak'[s] = 0
                                            /\ row'[s] # NoRow => row'[s].fails = 0 /\ row'[s].until = 0
                            ELSE row'[s] = row[s] /\ streak'[s] = streak[s],
         Cross(reports, S, TRUE)
  PROVE  BreakerIInv'
  <1>1. /\ \A r \in reports : r.source \in S => r.source \in crossed'
        /\ \A s \in crossed : s \in S \/ s \in crossed'
    BY DEF Cross
  <1>2. RowsAreTyped'
    BY DEF BreakerIInv, RowsAreTyped, Known
  <1>3. RowsCountFailures'
    <2>1. ASSUME NEW s \in Sources \ crossed', row'[s] # NoRow
          PROVE  /\ row'[s].fails = streak'[s]
                 /\ row'[s].until # 0 <=> row'[s].fails >= CircuitBreakerFailures
      <3>1. CASE s \in S
        BY <2>1, <3>1, Numbers
      <3>2. CASE s \notin S
        BY <1>1, <2>1, <3>2 DEF BreakerIInv, RowsCountFailures, Known
      <3> QED
        BY <3>1, <3>2
    <2> QED
      BY <2>1 DEF RowsCountFailures, Known
  <1>4. ReportsAreFresh'
    <2>1. ASSUME NEW r \in reports, r.source \in Sources \ crossed'
          PROVE  /\ row'[r.source] # NoRow
                 /\ r.fails = IF r.success THEN 0 ELSE row'[r.source].fails + 1
      BY <1>1, <2>1 DEF BreakerIInv, ReportsAreFresh, Known
    <2> QED
      BY <2>1 DEF ReportsAreFresh, Known
  <1> QED
    BY <1>2, <1>3, <1>4 DEF BreakerIInv

LEMMA SaveKeeps ==
  ASSUME BreakerIInv, NEW f \in Flights, NEW p \in ProviderSet, Save(f, p)
  PROVE  BreakerIInv'
  <1> DEFINE S == asked[f][p].found
  <1>1. /\ row' = [s \in Sources |-> IF s \in S THEN SavedRow(row[s]) ELSE row[s]]
        /\ streak' = [s \in Sources |-> IF s \in S THEN 0 ELSE streak[s]]
        /\ Cross(reports, S, TRUE) /\ UNCHANGED <<now, reports>>
    BY DEF Save
  <1> HIDE DEF S
  <1>2. \A s \in Sources : SavedRow(row[s]).fails = 0 /\ SavedRow(row[s]).until = 0
    BY DEF SavedRow, FreshRow
  <1> QED
    BY <1>1, <1>2, ResetsKeep DEF BreakerIInv, RowsAreTyped

LEMMA PurgeKeeps ==
  ASSUME BreakerIInv, Purge
  PROVE  BreakerIInv'
  <1>1. /\ row' = [s \in Sources |-> IF s \in BlockedSources THEN NoRow ELSE row[s]]
        /\ streak' = [s \in Sources |-> IF s \in BlockedSources THEN 0 ELSE streak[s]]
        /\ Cross(reports, BlockedSources, TRUE) /\ UNCHANGED <<now, reports>>
    BY DEF Purge
  <1> QED
    BY <1>1, ResetsKeep DEF BreakerIInv, RowsAreTyped

\* A report of a source that is not crossed counts one failure more, or none; and it crosses
\* the source when others are under way.
LEMMA WriteKeeps ==
  ASSUME BreakerIInv, NEW r \in reports, Write(r)
  PROVE  BreakerIInv'
  <1> DEFINE s == r.source
             new == ReportedRow(row[s], r, now)
  <1>1. /\ row[s] # NoRow /\ row' = [row EXCEPT ![s] = new]
        /\ reports' = reports \ {r} /\ now' = now
        /\ streak' = [streak EXCEPT ![s] = IF r.success THEN 0 ELSE @ + 1]
        /\ Cross(reports \ {r}, {s}, r.success)
    BY DEF Write
  <1>2. /\ new.fails = r.fails
        /\ new.until = IF r.success THEN 0
                       ELSE IF r.fails >= CircuitBreakerFailures THEN now + BreakerTime
                       ELSE row[s].until
    BY DEF ReportedRow
  <1> HIDE DEF new
  <1>3. \A q \in Sources : /\ q # s => row'[q] = row[q] /\ streak'[q] = streak[q]
                           /\ q = s => row'[q] = new /\ streak'[q] = IF r.success THEN 0 ELSE streak[q] + 1
    BY <1>1 DEF BreakerIInv, RowsAreTyped
  <1>4. /\ \A q \in reports' : q.source = s => s \in crossed'
        /\ crossed \ {s} \subseteq crossed'
        /\ r.success \/ crossed \subseteq crossed'
    <2>1. crossed' = ({q.source : q \in reports'} \cap {s})
                     \cup (IF r.success THEN crossed \ {s} ELSE crossed)
      BY <1>1 DEF Cross
    <2>2. ASSUME NEW q \in reports', q.source = s
          PROVE  s \in crossed'
      BY <2>1, <2>2
    <2>3. r.success \/ crossed \subseteq crossed'
      BY <2>1
    <2>4. crossed \ {s} \subseteq crossed'
      BY <2>1
    <2> QED
      BY <2>2, <2>3, <2>4
  <1>5. RowsAreTyped'
    <2>0. \A q \in Sources : streak'[q] \in Nat
      BY <1>3 DEF BreakerIInv, RowsAreTyped
    <2>1. DOMAIN row' = Sources /\ streak' \in [Sources -> Nat]
      BY <1>1, <2>0 DEF BreakerIInv, RowsAreTyped
    <2>2. s \in Sources => new.fails \in Nat /\ new.until \in Nat
      BY <1>1, <1>2, Numbers DEF BreakerIInv, RowsAreTyped, Known
    <2>3. \A q \in Sources : row'[q] # NoRow => row'[q].fails \in Nat /\ row'[q].until \in Nat
      BY <1>3, <2>2 DEF BreakerIInv, RowsAreTyped, Known
    <2> QED
      BY <1>1, <2>1, <2>3 DEF BreakerIInv, RowsAreTyped, Known
  <1>6. RowsCountFailures'
    <2>1. ASSUME NEW q \in Sources \ crossed', row'[q] # NoRow
          PROVE  /\ row'[q].fails = streak'[q]
                 /\ row'[q].until # 0 <=> row'[q].fails >= CircuitBreakerFailures
      <3>1. CASE q # s
        BY <1>3, <1>4, <2>1, <3>1 DEF BreakerIInv, RowsCountFailures, Known
      <3>2. CASE q = s /\ r.success
        BY <1>2, <1>3, <2>1, <3>2, Numbers DEF BreakerIInv, RowsAreTyped
      <3>3. CASE q = s /\ ~r.success
        <4>1. s \in Sources \ crossed
          BY <1>4, <2>1, <3>3
        <4>2. /\ r.fails = row[s].fails + 1 /\ row[s].fails = streak[s]
              /\ row[s].until # 0 <=> row[s].fails >= CircuitBreakerFailures
          BY <1>1, <3>3, <4>1 DEF BreakerIInv, ReportsAreFresh, RowsCountFailures, Known
        <4>3. row[s].fails \in Nat /\ row[s].until \in Nat /\ streak[s] \in Nat /\ now \in Nat \ {0}
          BY <1>1, <4>1 DEF BreakerIInv, RowsAreTyped, Known
        <4> QED
          BY <1>2, <1>3, <3>3, <4>1, <4>2, <4>3, Numbers
      <3> QED
        BY <3>1, <3>2, <3>3
    <2> QED
      BY <2>1 DEF RowsCountFailures, Known
  <1>7. ReportsAreFresh'
    <2>1. ASSUME NEW q \in reports', q.source \in Sources \ crossed'
          PROVE  /\ row'[q.source] # NoRow
                 /\ q.fails = IF q.success THEN 0 ELSE row'[q.source].fails + 1
      <3>1. q \in reports /\ q.source # s /\ q.source \in Sources \ crossed
        BY <1>1, <1>4, <2>1
      <3> QED
        BY <1>3, <3>1 DEF BreakerIInv, ReportsAreFresh, Known
    <2> QED
      BY <2>1 DEF ReportsAreFresh, Known
  <1> QED
    BY <1>5, <1>6, <1>7 DEF BreakerIInv

LEMMA StepKeeps == BreakerIInv /\ [Next]_vars => BreakerIInv'
  <1> SUFFICES ASSUME BreakerIInv, [Next]_vars PROVE BreakerIInv'
    OBVIOUS
  <1>1. ASSUME NEW f \in Flights, Call(f) \/ Find(f) \/ Discover(f) \/ Discovered(f) \/ Finish(f)
        PROVE  BreakerIInv'
    BY <1>1, QuietKeeps DEF Call, Find, Discover, Discovered, Finish, history
  <1>2. ASSUME NEW f \in Flights, NEW p \in ProviderSet, Mark(f, p)
        PROVE  BreakerIInv'
    BY <1>2, QuietKeeps DEF Mark, history
  <1>3. ASSUME NEW f \in Flights, NEW p \in ProviderSet, Save(f, p)
        PROVE  BreakerIInv'
    BY <1>3, SaveKeeps
  <1>4. ASSUME NEW f \in Flights, NEW i, Resolve(f, i)
        PROVE  BreakerIInv'
    BY <1>4, ReadingKeeps DEF Resolve, history
  <1>5. ASSUME NEW f \in Flights, NEW i, Fail(f, i)
        PROVE  BreakerIInv'
    BY <1>5, ReadingKeeps DEF Fail, history
  <1>6. ASSUME NEW l, Report(l)
        PROVE  BreakerIInv'
    BY <1>6, ReadingKeeps DEF Report, history
  <1>7. ASSUME NEW r \in reports, Write(r)
        PROVE  BreakerIInv'
    BY <1>7, WriteKeeps
  <1>8. ASSUME NEW r \in reports, Missed(r)
        PROVE  BreakerIInv'
    <2>1. reports' \subseteq reports /\ UNCHANGED <<now, row, streak, crossed>>
      BY <1>8 DEF Missed, history
    <2> QED
      BY <2>1, QuietKeeps
  <1>9. CASE Purge
    BY <1>9, PurgeKeeps
  <1>10. CASE Tick
    BY <1>10, QuietKeeps DEF Tick, history
  <1>11. CASE UNCHANGED vars
    BY <1>11, QuietKeeps DEF vars
  <1> QED
    BY <1>1, <1>2, <1>3, <1>4, <1>5, <1>6, <1>7, <1>8, <1>9, <1>10, <1>11
    DEF Next, UnderWay, Recorded, Step

\* recordSuccess and recordFailure, which write what they computed from an earlier read: the
\* breaker of a source that no report has crossed is open exactly after so many failures in
\* a row.
THEOREM BreakersFollowFailures == Spec => []BreakerFollowsFailures
<1>1. BreakerIInv => BreakerFollowsFailures
  BY DEF BreakerIInv, RowsAreTyped, RowsCountFailures, BreakerFollowsFailures, Known
<1> QED
  BY Initially, StepKeeps, <1>1, PTL DEF Spec

-----------------------------------------------------------------------------
\* A set of natural numbers that is not empty has a least element.
LEMMA LeastOf ==
  ASSUME NEW S \in SUBSET Nat, S # {}
  PROVE  \E i \in S : \A j \in S : i <= j
  <1> DEFINE R == {ss \in Nat \X Nat : ss[1] < ss[2]}
  <1>1. IsWellFoundedOn(R, Nat)
    BY NatLessThanWellFounded, Zenon DEF OpToRel
  <1>2. \A i, j \in Nat : <<j, i>> \in R <=> j < i
    OBVIOUS
  <1> HIDE DEF R
  <1>3. PICK i \in S : \A j \in S : <<j, i>> \notin R
    BY <1>1, WFMin
  <1>4. \A j \in S : ~(j < i)
    BY <1>2, <1>3
  <1> QED
    BY <1>4


-----------------------------------------------------------------------------
(***************************************************************************)
(* diversify.  The place of a candidate counts the turns up to its own, so *)
(* that each of the places has exactly one candidate.                      *)
(***************************************************************************)
Place(turn, n, i) == Cardinality({j \in 1..n : turn[j] <= turn[i]})

\* Different turns give different places, in the order of the turns, and fill all of them.
LEMMA PlacesAreAPermutation ==
  ASSUME NEW n \in Nat, NEW turn \in [1..n -> Nat],
         \A i, j \in 1..n : turn[i] = turn[j] => i = j
  PROVE  /\ \A i \in 1..n : Place(turn, n, i) \in 1..n
         /\ \A i, j \in 1..n : Place(turn, n, i) < Place(turn, n, j) <=> turn[i] < turn[j]
         /\ \A k \in 1..n : \E i \in 1..n : Place(turn, n, i) = k
  <1> DEFINE upTo(i) == {j \in 1..n : turn[j] <= turn[i]}
  <1>1. IsFiniteSet(1..n) /\ Cardinality(1..n) = n
    BY FS_Interval
  <1>2. ASSUME NEW i \in 1..n
        PROVE  /\ IsFiniteSet(upTo(i)) /\ Cardinality(upTo(i)) \in 1..n
               /\ Place(turn, n, i) = Cardinality(upTo(i))
    <2>1. upTo(i) \in SUBSET (1..n) /\ i \in upTo(i)
      OBVIOUS
    <2> HIDE DEF upTo
    <2>2. IsFiniteSet(upTo(i)) /\ Cardinality(upTo(i)) <= n
      BY <1>1, <2>1, FS_Subset
    <2>3. Cardinality(upTo(i)) \in Nat /\ Cardinality(upTo(i)) # 0
      BY <2>1, <2>2, FS_CardinalityType, FS_EmptySet
    <2> QED
      BY <2>2, <2>3 DEF Place, upTo
  <1>3. ASSUME NEW i \in 1..n, NEW j \in 1..n, turn[i] < turn[j]
        PROVE  Place(turn, n, i) < Place(turn, n, j)
    <2>1. upTo(i) \in SUBSET upTo(j) /\ j \in upTo(j) /\ j \notin upTo(i)
      BY <1>3
    <2> HIDE DEF upTo
    <2>2. /\ Cardinality(upTo(i)) <= Cardinality(upTo(j))
          /\ Cardinality(upTo(i)) # Cardinality(upTo(j))
      BY <1>2, <2>1, FS_Subset
    <2>3. Cardinality(upTo(i)) \in Nat /\ Cardinality(upTo(j)) \in Nat
      BY <1>2
    <2> QED
      BY <1>2, <2>2, <2>3
  <1> HIDE DEF upTo
  <1>4. \A i, j \in 1..n : Place(turn, n, i) < Place(turn, n, j) <=> turn[i] < turn[j]
    <2>1. ASSUME NEW i \in 1..n, NEW j \in 1..n, Place(turn, n, i) < Place(turn, n, j)
          PROVE  turn[i] < turn[j]
      <3>1. CASE turn[j] < turn[i]
        BY <1>2, <1>3, <2>1, <3>1
      <3>2. CASE turn[i] = turn[j]
        BY <1>2, <2>1, <3>2
      <3> QED
        BY <3>1, <3>2
    <2> QED
      BY <1>3, <2>1
  <1>5. \A k \in 1..n : \E i \in 1..n : Place(turn, n, i) = k
    <2> DEFINE f == [i \in 1..n |-> Place(turn, n, i)]
    <2>1. f \in [1..n -> 1..n]
      BY <1>2
    <2>2. ASSUME NEW i \in 1..n, NEW j \in 1..n, f[i] = f[j]
          PROVE  i = j
      <3>1. ~(turn[i] < turn[j]) /\ ~(turn[j] < turn[i])
        <4>1. Place(turn, n, i) = Place(turn, n, j)
          BY <2>2
        <4>2. Place(turn, n, i) \in 1..n
          BY <1>2
        <4> QED
          BY <1>3, <4>1, <4>2
      <3> QED
        BY <3>1
    <2>3. \A k \in 1..n : f[k] = Place(turn, n, k)
      OBVIOUS
    <2> HIDE DEF f
    <2>4. f \in Injection(1..n, 1..n)
      BY <2>1, <2>2, Zenon DEF Injection, IsInjective
    <2>5. f \in Surjection(1..n, 1..n)
      BY <1>1, <2>4, FS_Injection
    <2> QED
      BY <2>3, <2>5 DEF Surjection
  <1> QED
    BY <1>2, <1>4, <1>5

\* Two candidates of one language come only after every language.
LanguagesLead(order) ==
    \A i, j \in DOMAIN order : i < j /\ LanguageOf[order[i]] = LanguageOf[order[j]] =>
        \A t \in DOMAIN order : \E u \in DOMAIN order :
            u < j /\ LanguageOf[order[u]] = LanguageOf[order[t]]

FirstOf(q, S, attribute) ==
    {i \in S : \A j \in S : attribute[q[j]] = attribute[q[i]] => i <= j}

\* Each of S has a first one with its attribute, and no two of these share theirs.
LEMMA FirstsLead ==
  ASSUME NEW q, NEW S \in SUBSET Nat, NEW attribute
  PROVE  /\ \A i \in S : \E j \in FirstOf(q, S, attribute) : attribute[q[j]] = attribute[q[i]]
         /\ \A i, j \in FirstOf(q, S, attribute) : attribute[q[i]] = attribute[q[j]] => i = j
  <1>1. ASSUME NEW i \in S
        PROVE  \E j \in FirstOf(q, S, attribute) : attribute[q[j]] = attribute[q[i]]
    <2> DEFINE alike == {j \in S : attribute[q[j]] = attribute[q[i]]}
    <2>1. alike \in SUBSET Nat /\ alike # {}
      OBVIOUS
    <2>2. PICK j \in alike : \A k \in alike : j <= k
      <3> HIDE DEF alike
      <3> QED
        BY <2>1, LeastOf
    <2> QED
      BY <2>2 DEF FirstOf
  <1>2. \A i, j \in FirstOf(q, S, attribute) : attribute[q[i]] = attribute[q[j]] => i = j
    BY DEF FirstOf
  <1> QED
    BY <1>1, <1>2

\* Turn gives every candidate a turn of its own, the first of a language before the rest.
LEMMA TurnsDiffer ==
  ASSUME NEW q \in Seq(Sources)
  PROVE  /\ Turn(q) \in [1..Len(q) -> Nat]
         /\ \A i, j \in 1..Len(q) : Turn(q)[i] = Turn(q)[j] => i = j
         /\ \A i \in FirstOf(q, DOMAIN q, LanguageOf) : Turn(q)[i] <= Len(q)
         /\ \A i \in DOMAIN q \ FirstOf(q, DOMAIN q, LanguageOf) : Turn(q)[i] > Len(q)
  <1> DEFINE I      == DOMAIN q
             round1 == FirstOf(q, I, LanguageOf)
             round2 == FirstOf(q, I \ round1, ProviderOf)
             lead   == FirstOf(q, I, ProviderOf)
             leader(i) == CHOOSE j \in lead : ProviderOf[q[j]] = ProviderOf[q[i]]
  <1>1. /\ Len(q) \in Nat /\ I = 1..Len(q) /\ I \in SUBSET Nat /\ I \ round1 \in SUBSET Nat
        /\ round1 \subseteq I /\ round2 \subseteq I \ round1 /\ lead \subseteq I
    BY DEF FirstOf
  <1>2. DOMAIN Turn(q) = I /\ \A i \in I :
            /\ i \in round1 => Turn(q)[i] = i
            /\ i \in round2 => Turn(q)[i] = Len(q) + leader(i)
            /\ i \notin round1 /\ i \notin round2 => Turn(q)[i] = 2 * Len(q) + i
    <2>1. Turn(q) = [i \in I |-> CASE i \in round1 -> i
                                  [] i \in round2 -> Len(q) + leader(i)
                                  [] OTHER        -> 2 * Len(q) + i]
      BY Zenon DEF Turn, FirstOf
    <2>2. \A i \in I : i \in round2 => i \notin round1
      BY <1>1
    <2> HIDE DEF I, round1, round2, lead, leader
    <2> QED
      BY <2>1, <2>2
  <1>3. /\ \A i \in I : leader(i) \in lead /\ ProviderOf[q[leader(i)]] = ProviderOf[q[i]]
        /\ \A i, j \in round1 : LanguageOf[q[i]] = LanguageOf[q[j]] => i = j
        /\ \A i, j \in round2 : ProviderOf[q[i]] = ProviderOf[q[j]] => i = j
    <2>1. \A i \in I : \E j \in lead : ProviderOf[q[j]] = ProviderOf[q[i]]
      <3>1. I \in SUBSET Nat
        BY <1>1
      <3> HIDE DEF I
      <3>2. \A i \in I : \E j \in FirstOf(q, I, ProviderOf) : ProviderOf[q[j]] = ProviderOf[q[i]]
        BY ONLY <3>1, FirstsLead, Zenon
      <3> QED
        BY <3>2
    <2>2. \A i, j \in round2 : ProviderOf[q[i]] = ProviderOf[q[j]] => i = j
      <3> DEFINE J == I \ round1
      <3>1. J \in SUBSET Nat
        BY <1>1
      <3> HIDE DEF J
      <3>2. \A i, j \in FirstOf(q, J, ProviderOf) : ProviderOf[q[i]] = ProviderOf[q[j]] => i = j
        BY <3>1, FirstsLead, Zenon
      <3> QED
        BY <3>2 DEF J
    <2>3. \A i, j \in round1 : LanguageOf[q[i]] = LanguageOf[q[j]] => i = j
      <3>1. I \in SUBSET Nat
        BY <1>1
      <3> HIDE DEF I
      <3>2. \A i, j \in FirstOf(q, I, LanguageOf) : LanguageOf[q[i]] = LanguageOf[q[j]] => i = j
        BY ONLY <3>1, FirstsLead, Zenon
      <3> QED
        BY <3>2
    <2> HIDE DEF I, round1, round2, lead
    <2> QED
      BY <2>1, <2>2, <2>3
  <1> HIDE DEF I, round1, round2, lead, leader
  <1>4. \A i \in I : leader(i) \in 1..Len(q)
    BY <1>1, <1>3
  <1>5. Turn(q) \in [1..Len(q) -> Nat]
    <2>1. ASSUME NEW i \in I
          PROVE  Turn(q)[i] \in Nat
      <3>1. i \in Nat /\ leader(i) \in Nat
        BY <1>1, <1>4
      <3> QED
        BY <1>1, <1>2, <3>1
    <2>2. Turn(q) = [i \in I |-> Turn(q)[i]]
      BY <1>2 DEF Turn
    <2> QED
      BY <1>1, <2>1, <2>2
  <1>6. ASSUME NEW i \in I, NEW j \in I, Turn(q)[i] = Turn(q)[j]
        PROVE  i = j
    <2>1. CASE i \in round2 /\ j \in round2
      <3>1. leader(i) = leader(j)
        BY <1>1, <1>2, <1>4, <1>6, <2>1
      <3> QED
        BY <1>3, <2>1, <3>1
    <2>2. CASE ~(i \in round2 /\ j \in round2)
      <3>1. i \in 1..Len(q) /\ j \in 1..Len(q) /\ leader(i) \in 1..Len(q) /\ leader(j) \in 1..Len(q)
        BY <1>1, <1>4
      <3>2. i \in round1 => i \notin round2
        BY <1>1
      <3>3. j \in round1 => j \notin round2
        BY <1>1
      <3> DEFINE a == leader(i)
                 b == leader(j)
      <3>4. /\ i \in round1 => Turn(q)[i] = i
            /\ i \in round2 => Turn(q)[i] = Len(q) + a
            /\ i \notin round1 /\ i \notin round2 => Turn(q)[i] = 2 * Len(q) + i
            /\ j \in round1 => Turn(q)[j] = j
            /\ j \in round2 => Turn(q)[j] = Len(q) + b
            /\ j \notin round1 /\ j \notin round2 => Turn(q)[j] = 2 * Len(q) + j
        BY <1>2
      <3> HIDE DEF a, b
      <3>5. a \in 1..Len(q) /\ b \in 1..Len(q)
        BY <3>1 DEF a, b
      <3> QED
        BY <1>1, <1>6, <2>2, <3>1, <3>2, <3>3, <3>4, <3>5
    <2> QED
      BY <2>1, <2>2
  <1>7. /\ \A i \in round1 : Turn(q)[i] <= Len(q)
        /\ \A i \in I \ round1 : Turn(q)[i] > Len(q)
    <2>1. ASSUME NEW i \in round1
          PROVE  Turn(q)[i] <= Len(q)
      BY <1>1, <1>2
    <2>2. ASSUME NEW i \in I \ round1
          PROVE  Turn(q)[i] > Len(q)
      <3>1. i \in 1..Len(q) /\ leader(i) \in 1..Len(q)
        BY <1>1, <1>4
      <3>2. CASE i \in round2
        BY <1>1, <1>2, <3>1, <3>2
      <3>3. CASE i \notin round2
        BY <1>1, <1>2, <3>1, <3>3
      <3> QED
        BY <3>2, <3>3
    <2> QED
      BY <2>1, <2>2
  <1> QED
    BY <1>1, <1>5, <1>6, <1>7 DEF I, round1

\* diversify: the candidates are all there, and an order in which the languages lead.
LEMMA DiversityComesFirst ==
  ASSUME NEW q \in Seq(Sources)
  PROVE  /\ Diversify(q) \in Seq(Sources) /\ Len(Diversify(q)) = Len(q)
         /\ ToSet(Diversify(q)) = ToSet(q)
         /\ LanguagesLead(Diversify(q))
  <1> DEFINE n      == Len(q)
             turn   == Turn(q)
             round1 == FirstOf(q, DOMAIN q, LanguageOf)
             at     == [k \in 1..n |-> CHOOSE i \in 1..n : Place(turn, n, i) = k]
  <1>1. /\ n \in Nat /\ DOMAIN q = 1..n /\ \A i \in 1..n : q[i] \in Sources
        /\ round1 \subseteq 1..n
    BY DEF FirstOf
  <1>2. /\ turn \in [1..n -> Nat] /\ \A i, j \in 1..n : turn[i] = turn[j] => i = j
        /\ \A i \in round1 : turn[i] <= n
        /\ \A i \in 1..n \ round1 : turn[i] > n
    BY <1>1, TurnsDiffer
  <1>a. DOMAIN q \in SUBSET Nat
    BY <1>1
  <1>3. \A i \in 1..n : \E j \in round1 : LanguageOf[q[j]] = LanguageOf[q[i]]
    <2>1. \A i \in DOMAIN q : \E j \in round1 : LanguageOf[q[j]] = LanguageOf[q[i]]
      BY <1>a, FirstsLead, Zenon
    <2> QED
      BY <1>1, <2>1
  <1>4. \A i, j \in round1 : LanguageOf[q[i]] = LanguageOf[q[j]] => i = j
    BY <1>a, FirstsLead, Zenon
  <1>5. Diversify(q) = [k \in 1..n |-> q[at[k]]]
    <2>1. Diversify(q) = [k \in 1..n |-> q[CHOOSE i \in 1..n : Place(turn, n, i) = k]]
      <3>1. DOMAIN q = 1..n
        BY <1>1
      <3> HIDE DEF n
      <3> QED
        BY <3>1 DEF Diversify, Place
    <2> QED
      BY <2>1
  <1> HIDE DEF turn, n, round1
  <1>6. /\ \A i \in 1..n : Place(turn, n, i) \in 1..n
        /\ \A i, j \in 1..n : Place(turn, n, i) < Place(turn, n, j) <=> turn[i] < turn[j]
        /\ \A k \in 1..n : \E i \in 1..n : Place(turn, n, i) = k
    BY <1>1, <1>2, PlacesAreAPermutation
  <1>7. \A k \in 1..n : at[k] \in 1..n /\ Place(turn, n, at[k]) = k
    BY <1>6
  <1> HIDE DEF at
  <1>8. \A i \in 1..n : at[Place(turn, n, i)] = i
    <2> SUFFICES ASSUME NEW i \in 1..n PROVE at[Place(turn, n, i)] = i
      OBVIOUS
    <2> DEFINE j == at[Place(turn, n, i)]
    <2>1. j \in 1..n /\ Place(turn, n, j) = Place(turn, n, i)
      BY <1>6, <1>7
    <2> HIDE DEF j
    <2>2. ~(turn[i] < turn[j]) /\ ~(turn[j] < turn[i])
      BY <1>6, <2>1
    <2>3. turn[i] = turn[j]
      BY <1>2, <2>1, <2>2
    <2> QED
      BY <1>2, <2>1, <2>3 DEF j
  <1> DEFINE D == Diversify(q)
  <1>9. /\ D \in Seq(Sources) /\ Len(D) = n /\ DOMAIN D = 1..n
        /\ \A k \in 1..n : D[k] = q[at[k]]
    BY <1>1, <1>5, <1>7
  <1> HIDE DEF D
  <1>10. ToSet(D) = ToSet(q)
    <2>1. \A k \in 1..n : \E i \in 1..n : D[k] = q[i]
      BY <1>7, <1>9
    <2>2. \A i \in 1..n : \E k \in 1..n : D[k] = q[i]
      <3> SUFFICES ASSUME NEW i \in 1..n PROVE \E k \in 1..n : D[k] = q[i]
        OBVIOUS
      <3> DEFINE k == Place(turn, n, i)
      <3>1. k \in 1..n /\ at[k] = i
        BY <1>6, <1>8
      <3> HIDE DEF k
      <3> QED
        BY <1>9, <3>1
    <2>3. ToSet(D) = {D[k] : k \in 1..n} /\ ToSet(q) = {q[i] : i \in 1..n}
      BY <1>1, <1>9 DEF ToSet
    <2> QED
      BY <2>1, <2>2, <2>3
  <1>11. ASSUME NEW i \in 1..n, NEW j \in 1..n, i < j,
                LanguageOf[D[i]] = LanguageOf[D[j]], NEW t \in 1..n
         PROVE  \E u \in 1..n : u < j /\ LanguageOf[D[u]] = LanguageOf[D[t]]
    <2>1. turn[at[i]] < turn[at[j]]
      BY <1>6, <1>7, <1>11
    <2>2. turn[at[j]] > n
      <3> SUFFICES ASSUME ~(turn[at[j]] > n) PROVE FALSE
        OBVIOUS
      <3>1. turn[at[j]] <= n /\ turn[at[i]] <= n
        BY <1>1, <1>2, <1>7, <2>1
      <3>2. at[i] \in round1 /\ at[j] \in round1
        BY <1>1, <1>2, <1>7, <3>1
      <3>3. at[i] = at[j]
        BY <1>4, <1>9, <1>11, <3>2
      <3> QED
        BY <1>7, <1>11, <3>3
    <2>3. PICK a \in round1 : LanguageOf[q[a]] = LanguageOf[q[at[t]]]
      BY <1>3, <1>7
    <2>4. a \in 1..n /\ turn[a] < turn[at[j]]
      BY <1>1, <1>2, <1>7, <2>2, <2>3
    <2> DEFINE u == Place(turn, n, a)
    <2>5. u \in 1..n /\ u < j /\ at[u] = a
      <3>1. u \in 1..n /\ at[u] = a
        BY <1>6, <1>8, <2>4
      <3>2. at[j] \in 1..n /\ Place(turn, n, at[j]) = j
        BY <1>7
      <3>3. u < Place(turn, n, at[j])
        BY <1>6, <2>4, <3>2
      <3> QED
        BY <3>1, <3>2, <3>3
    <2> HIDE DEF u
    <2>6. LanguageOf[D[u]] = LanguageOf[D[t]]
      BY <1>9, <2>3, <2>5
    <2> QED
      BY <2>5, <2>6
  <1>12. LanguagesLead(D)
    <2>1. DOMAIN D = 1..n
      BY <1>9
    <2> QED
      <3>1. ASSUME NEW i \in DOMAIN D, NEW j \in DOMAIN D, i < j,
                   LanguageOf[D[i]] = LanguageOf[D[j]], NEW t \in DOMAIN D
            PROVE  \E u \in DOMAIN D : u < j /\ LanguageOf[D[u]] = LanguageOf[D[t]]
        <4>1. i \in 1..n /\ j \in 1..n /\ t \in 1..n
          BY <2>1
        <4>2. PICK u \in 1..n : u < j /\ LanguageOf[D[u]] = LanguageOf[D[t]]
          BY <1>11, <3>1, <4>1
        <4> QED
          BY <2>1, <4>2
      <3> QED
        BY <3>1 DEF LanguagesLead
  <1> QED
    BY <1>9, <1>10, <1>12 DEF D, n

-----------------------------------------------------------------------------
(***************************************************************************)
(* The types, and the answers.                                             *)
(***************************************************************************)
RowStates == [score : 0..MaxScore, fails : Nat, until : Nat]

FlightStates == [pc : {"idle", "find", "discover", "save", "resolve", "failing"},
                 found : BOOLEAN, forced : BOOLEAN, order : Seq(Sources), at : Nat \ {0},
                 used : SUBSET Sources, leases : 0..MaxLeases]

\* Nothing is used before there is an order, which is never changed; what was used has been
\* tried, and in the order the languages lead.
FlightFits(fl) ==
    /\ fl \in FlightStates
    /\ fl.pc \notin {"resolve", "failing"} => fl.at = 1 /\ fl.used = {} /\ fl.leases = 0
    /\ fl.used \subseteq {fl.order[i] : i \in DOMAIN fl.order \cap 1..(fl.at - 1)}
    /\ LanguagesLead(fl.order)

StoredTypes ==
    /\ calls \in 0..MaxCalls /\ events \in 0..MaxEvents /\ now \in 1..(events + 1)
    /\ DOMAIN row = Sources /\ \A s \in Sources : row[s] # NoRow => row[s] \in RowStates
    /\ negative \in [ProviderSet -> Nat]
    /\ reports \subseteq Reports /\ crossed \subseteq Sources

LeaseTypes == IsABag(active) /\ \A l \in DOMAIN active : l.source \in Sources

FlightTypes == DOMAIN flight = Flights /\ \A f \in Flights : FlightFits(flight[f])

AnswerIInv == StoredTypes /\ LeaseTypes /\ FlightTypes

-----------------------------------------------------------------------------
\* The answers of a resolver are finitely many URLs.
LEMMA AnswersAreFinite ==
  ASSUME NEW p \in ToSet(Providers), NEW urls \in Resolutions[p]
  PROVE  IsFiniteSet(urls)
  <1> DEFINE All == Urls \cup Qualities \cup {ProxyUrl(q) : q \in Qualities}
  <1>1. IsFiniteSet(All)
    <2>1. All = {"hls"} \cup {"mp4"} \cup {"audio"} \cup {"fake"} \cup {"360p"} \cup {"1080p"}
                    \cup {ProxyUrl("360p")} \cup {ProxyUrl("1080p")}
      BY DEF Urls, Qualities
    <2> HIDE DEF All
    <2> QED
      BY <2>1, FS_Singleton, FS_Union
  <1>2. urls \in SUBSET All
    <2>1. CASE p = "unlimplay"
      <3>1. PICK one \in Pages, two \in Pages, three \in Pages :
              \E a \in Tier1(one), b \in Tier2(two), c \in ViaFlareSolverr(three) :
                urls = UnlimplayLeases(a, b, c)
        BY <2>1 DEF Resolutions
      <3>2. PICK a \in Tier1(one), b \in Tier2(two), c \in ViaFlareSolverr(three) :
              urls = UnlimplayLeases(a, b, c)
        BY <3>1
      <3>3. \A page \in Pages : /\ page.plain \subseteq Urls /\ page.packed \subseteq Urls
                                /\ PlainPlaylists(page) \subseteq Urls
        BY DEF Pages, PlainPlaylists
      <3>4. \A page \in Pages : \A x \in ExtractFromPacked(page) : x \subseteq Urls
        <4> SUFFICES ASSUME NEW page \in Pages, NEW x \in ExtractFromPacked(page)
                     PROVE  x \subseteq Urls
          OBVIOUS
        <4> DEFINE first == IF PlainPlaylists(page) # {} THEN PlainPlaylists(page) ELSE page.plain
        <4>1. first \subseteq Urls
          BY <3>3
        <4>2. x = page.packed \/ \E u \in first : x = {u}
          BY DEF ExtractFromPacked
        <4> HIDE DEF first
        <4> QED
          BY <3>3, <4>1, <4>2
      <3>5. a \subseteq Urls
        <4>1. PICK packed \in ExtractFromPacked(one) :
                a \subseteq packed \cup PlainPlaylists(one)
          BY DEF Tier1
        <4> QED
          BY <3>3, <3>4, <4>1
      <3>6. b \subseteq Urls
        BY <3>3 DEF Tier2, StreamWish, Filemoon, Dood, GenericMedia
      <3>7. c \subseteq Urls
        <4>1. PICK packed \in ExtractFromPacked(three), d \in SUBSET PlainPlaylists(three) :
                c = packed \cup d
          BY DEF ViaFlareSolverr
        <4> QED
          BY <3>3, <3>4, <4>1
      <3>8. urls \in {a, b, c, {}}
        BY <3>2, ResolversAssumption DEF UnlimplayLeases
      <3> QED
        BY <3>5, <3>6, <3>7, <3>8
    <2>2. CASE p = "nsrplay"
      <3>1. urls \subseteq {"hls"}
        BY <2>2 DEF Resolutions, NsrplayLeases
      <3> QED
        BY <3>1 DEF Urls
    <2>3. CASE p # "unlimplay" /\ p # "nsrplay"
      <3>1. \E playlist \in BOOLEAN, q \in SUBSET Qualities, r \in SUBSET Qualities :
               urls = VidlinkLeases(playlist, q, r)
        BY <2>3 DEF Resolutions
      <3> QED
        BY <3>1 DEF VidlinkLeases, Urls
    <2> QED
      BY <2>1, <2>2, <2>3
  <1> HIDE DEF All
  <1> QED
    BY <1>1, <1>2, FS_Subset

\* An answer that counts has one lease or more.
LEMMA LeasesAreCounted == \A p \in ToSet(Providers) : ValidLeases[p] \subseteq Nat \ {0}
  <1> SUFFICES ASSUME NEW p \in ToSet(Providers), NEW n \in ValidLeases[p]
               PROVE  n \in Nat \ {0}
    OBVIOUS
  <1>1. PICK urls \in Resolutions[p] : \E v \in Validated(urls) : n = Cardinality(v) /\ n # 0
    BY DEF ValidLeases
  <1>2. PICK v \in SUBSET urls : n = Cardinality(v) /\ n # 0
    BY <1>1 DEF Validated
  <1>3. IsFiniteSet(v)
    BY <1>2, AnswersAreFinite, FS_Subset
  <1> QED
    BY <1>2, <1>3, FS_CardinalityType

\* findCandidates answers with sources.
LEMMA CandidatesAreSources ==
  ASSUME NEW rows, NEW lang, NEW time, NEW q \in Candidates(rows, lang, time)
  PROVE  q \in Seq(Sources)
  <1>1. PICK S \in SUBSET Sources : q \in SetToSeqs(S)
    BY DEF Candidates
  <1>2. IsFiniteSet(S) /\ Cardinality(S) \in Nat
    BY SourceRegistryAssumption, FS_Subset, FS_CardinalityType
  <1>3. q \in [1..Cardinality(S) -> S]
    BY <1>1 DEF SetToSeqs
  <1> QED
    BY <1>2, <1>3

-----------------------------------------------------------------------------
LEMMA FlightChanges ==
  ASSUME FlightTypes, NEW f \in Flights, NEW new, FlightFits(new),
         flight' = [flight EXCEPT ![f] = new]
  PROVE  FlightTypes'
  BY DEF FlightTypes

LEMMA IdleFits == FlightFits(Idle) /\ FlightFits([Idle EXCEPT !.pc = "discover", !.forced = TRUE])
  <1> DEFINE again == [Idle EXCEPT !.pc = "discover", !.forced = TRUE]
  <1>1. 0 \in 0..MaxLeases /\ 1 \in Nat \ {0} /\ {} \in SUBSET Sources
    BY PlaybackAssumption
  <1>2. <<>> \in Seq(Sources) /\ DOMAIN <<>> = {}
    OBVIOUS
  <1>3. /\ Idle \in FlightStates /\ Idle.at = 1 /\ Idle.used = {} /\ Idle.leases = 0
        /\ Idle.order = <<>>
    BY <1>1, <1>2 DEF Idle, FlightStates
  <1>4. /\ again \in FlightStates /\ again.at = 1 /\ again.used = {} /\ again.leases = 0
        /\ again.order = <<>>
    BY <1>3 DEF FlightStates
  <1> HIDE DEF again
  <1>5. LanguagesLead(<<>>)
    BY <1>2 DEF LanguagesLead
  <1>6. FlightFits(Idle)
    BY <1>3, <1>5 DEF FlightFits
  <1>7. FlightFits(again)
    BY <1>4, <1>5 DEF FlightFits
  <1> QED
    BY <1>6, <1>7 DEF again

LEMMA GoesOn ==
  ASSUME NEW fl, FlightFits(fl),
         NEW pc \in {"idle", "find", "discover", "save", "resolve", "failing"},
         fl.pc \in {"resolve", "failing"} => pc \in {"resolve", "failing"}
  PROVE  FlightFits([fl EXCEPT !.pc = pc])
  BY DEF FlightFits, FlightStates

LEMMA OrderIsSet ==
  ASSUME NEW fl, FlightFits(fl), fl.pc \notin {"resolve", "failing"}, NEW q \in Seq(Sources)
  PROVE  FlightFits([fl EXCEPT !.pc = "resolve", !.order = Diversify(q)])
  <1> DEFINE D == Diversify(q)
             new == [fl EXCEPT !.pc = "resolve", !.order = D]
  <1>1. D \in Seq(Sources) /\ LanguagesLead(D)
    BY DiversityComesFirst
  <1> HIDE DEF D
  <1>2. /\ new \in FlightStates /\ new.used = {} /\ new.order = D /\ new.pc = "resolve"
    BY <1>1 DEF FlightFits, FlightStates
  <1> HIDE DEF new
  <1>3. FlightFits(new)
    BY <1>1, <1>2 DEF FlightFits
  <1> QED
    BY <1>3 DEF new, D

\* A candidate is tried, and may give leases.
LEMMA CandidateIsTried ==
  ASSUME NEW fl, FlightFits(fl), NEW pc \in {"resolve", "failing"}, fl.pc = "resolve",
         NEW i \in fl.at..Len(fl.order), NEW leases \in 0..MaxLeases,
         NEW used \in {fl.used, fl.used \cup {fl.order[i]}}
  PROVE  FlightFits([fl EXCEPT !.pc = pc, !.leases = leases, !.used = used, !.at = i + 1])
  <1> DEFINE new == [fl EXCEPT !.pc = pc, !.leases = leases, !.used = used, !.at = i + 1]
  <1>1. fl \in FlightStates
    BY DEF FlightFits
  <1>2. /\ fl.order \in Seq(Sources) /\ fl.at \in Nat \ {0} /\ fl.used \in SUBSET Sources
        /\ Len(fl.order) \in Nat /\ DOMAIN fl.order = 1..Len(fl.order)
    BY <1>1 DEF FlightStates
  <1>3. i \in DOMAIN fl.order /\ i + 1 \in Nat \ {0} /\ fl.order[i] \in Sources
    BY <1>2
  <1>4. /\ new \in FlightStates /\ new.pc = pc /\ new.used = used /\ new.at = i + 1
        /\ new.order = fl.order
    BY <1>1, <1>2, <1>3 DEF FlightStates
  <1> HIDE DEF new
  <1>5. used \subseteq {fl.order[j] : j \in DOMAIN fl.order \cap 1..i}
    <2>1. ASSUME NEW s \in fl.used
          PROVE  \E j \in DOMAIN fl.order \cap 1..i : s = fl.order[j]
      <3>1. PICK j \in DOMAIN fl.order \cap 1..(fl.at - 1) : s = fl.order[j]
        BY <2>1 DEF FlightFits
      <3>2. j \in 1..i
        BY <1>2, <3>1
      <3> QED
        BY <3>1, <3>2
    <2>2. i \in DOMAIN fl.order \cap 1..i
      BY <1>2, <1>3
    <2> QED
      BY <2>1, <2>2
  <1>6. new.at - 1 = i
    BY <1>3, <1>4
  <1>7. LanguagesLead(new.order)
    BY <1>4 DEF FlightFits
  <1>8. FlightFits(new)
    BY <1>4, <1>5, <1>6, <1>7 DEF FlightFits
  <1> QED
    BY <1>8 DEF new

-----------------------------------------------------------------------------
LEMMA ReadingIsTyped ==
  ASSUME StoredTypes, NEW s \in Sources, NEW by \in Flights \cup {App, Background}, NEW report,
         row[s] # NoRow => /\ report.success \in BOOLEAN /\ report.fails \in Nat
                           /\ report.score \in 0..MaxScore,
         reports' = Reading(s, report, by)
  PROVE  reports' \subseteq Reports
  <1>1. CASE row[s] = NoRow
    BY <1>1 DEF Reading, StoredTypes
  <1>2. CASE row[s] # NoRow
    <2> DEFINE new == [source |-> s, by |-> by, success |-> report.success,
                       fails |-> report.fails, score |-> report.score]
    <2>1. new \in Reports
      BY <1>2 DEF Reports
    <2>2. reports' = reports \cup {new}
      BY <1>2 DEF Reading
    <2> HIDE DEF new
    <2> QED
      BY <2>1, <2>2 DEF StoredTypes
  <1> QED
    BY <1>1, <1>2

\* What a report computes from the row it read.
LEMMA ReportsAreTyped ==
  ASSUME StoredTypes, NEW s \in Sources, NEW by \in Flights \cup {App, Background},
         \/ reports' = Reading(s, SuccessFrom(row[s]), by)
         \/ \E class \in FailureClasses : reports' = Reading(s, FailureFrom(row[s], class), by)
  PROVE  reports' \subseteq Reports
  <1>1. row[s] # NoRow => row[s].fails \in Nat /\ row[s].score \in 0..MaxScore
    BY DEF StoredTypes, RowStates
  <1>2. MaxScore \in Nat
    BY SourceRegistryAssumption
  <1>3. CASE reports' = Reading(s, SuccessFrom(row[s]), by)
    <2> DEFINE report == SuccessFrom(row[s])
    <2>1. report.success \in BOOLEAN /\ report.fails \in Nat
      BY DEF SuccessFrom
    <2>2. row[s] # NoRow => report.score \in 0..MaxScore
      BY <1>1, <1>2 DEF SuccessFrom
    <2>3. reports' = Reading(s, report, by)
      BY <1>3
    <2> HIDE DEF report
    <2>4. row[s] # NoRow => /\ report.success \in BOOLEAN /\ report.fails \in Nat
                            /\ report.score \in 0..MaxScore
      BY <2>1, <2>2
    <2> QED
      BY <2>3, <2>4, ReadingIsTyped
  <1>4. ASSUME NEW class \in FailureClasses, reports' = Reading(s, FailureFrom(row[s], class), by)
        PROVE  reports' \subseteq Reports
    <2> DEFINE report == FailureFrom(row[s], class)
    <2>1. Penalty(class) \in {1, 2, 3}
      BY DEF Penalty
    <2>2. report.success \in BOOLEAN /\ (row[s] # NoRow => report.fails \in Nat)
      BY <1>1 DEF FailureFrom
    <2>3. row[s] # NoRow => report.score \in 0..MaxScore
      BY <1>1, <1>2, <2>1 DEF FailureFrom
    <2>4. reports' = Reading(s, report, by)
      BY <1>4
    <2> HIDE DEF report
    <2>5. row[s] # NoRow => /\ report.success \in BOOLEAN /\ report.fails \in Nat
                            /\ report.score \in 0..MaxScore
      BY <1>1, <2>2, <2>3
    <2> QED
      BY <2>4, <2>5, ReadingIsTyped
  <1> QED
    BY <1>3, <1>4

\* Steps that touch no row.
LEMMA StoredStays ==
  ASSUME StoredTypes, UNCHANGED <<calls, events, now, row, negative, crossed>>,
         reports' \subseteq Reports
  PROVE  StoredTypes'
  BY DEF StoredTypes

LEMMA CallKeepsTypes ==
  ASSUME AnswerIInv, NEW f \in Flights, Call(f)
  PROVE  AnswerIInv'
  <1>1. StoredTypes'
    BY PlaybackAssumption DEF Call, AnswerIInv, StoredTypes, history
  <1>2. FlightTypes'
    <2>1. FlightFits(flight[f])
      BY DEF AnswerIInv, FlightTypes
    <2>2. FlightFits([flight[f] EXCEPT !.pc = "find"])
      BY <2>1, GoesOn DEF Call
    <2>3. flight' = [flight EXCEPT ![f] = [flight[f] EXCEPT !.pc = "find"]]
      BY DEF Call
    <2> QED
      BY <2>2, <2>3, FlightChanges DEF AnswerIInv
  <1>3. LeaseTypes'
    BY DEF Call, AnswerIInv, LeaseTypes, IsABag
  <1> QED
    BY <1>1, <1>2, <1>3 DEF AnswerIInv

LEMMA FindKeepsTypes ==
  ASSUME AnswerIInv, NEW f \in Flights, Find(f)
  PROVE  AnswerIInv'
  <1>1. StoredTypes'
    BY StoredStays DEF Find, AnswerIInv, StoredTypes, history
  <1>2. FlightTypes'
    <2>1. PICK q \in Candidates(row, f.lang, now) :
            \/ flight' = [flight EXCEPT ![f] = [flight[f] EXCEPT !.pc = "discover"]]
            \/ flight' = [flight EXCEPT ![f] = Idle]
            \/ flight' = [flight EXCEPT ![f] = [flight[f] EXCEPT !.pc = "resolve", !.order = Diversify(q)]]
      <3>1. PICK q \in Candidates(row, f.lang, now) : flight' = [flight EXCEPT ![f] =
                CASE q = <<>>                             -> [@ EXCEPT !.pc = "discover"]
                  [] q # <<>> /\ f.scope = "prepare"      -> Idle
                  [] OTHER -> [@ EXCEPT !.pc = "resolve", !.order = Diversify(q)]]
        BY DEF Find
      <3>2. CASE q = <<>>
        BY <3>1, <3>2
      <3>3. CASE q # <<>> /\ f.scope = "prepare"
        BY <3>1, <3>3
      <3>4. CASE q # <<>> /\ f.scope # "prepare"
        BY <3>1, <3>4
      <3> QED
        BY <3>2, <3>3, <3>4
    <2>2. FlightFits(flight[f]) /\ flight[f].pc = "find"
      BY DEF AnswerIInv, FlightTypes, Find
    <2>3. q \in Seq(Sources)
      BY CandidatesAreSources
    <2>4. /\ FlightFits([flight[f] EXCEPT !.pc = "discover"])
          /\ FlightFits([flight[f] EXCEPT !.pc = "resolve", !.order = Diversify(q)])
      BY <2>2, <2>3, GoesOn, OrderIsSet
    <2> QED
      BY <2>1, <2>4, IdleFits, FlightChanges DEF AnswerIInv
  <1>3. LeaseTypes'
    BY DEF Find, AnswerIInv, LeaseTypes, IsABag
  <1> QED
    BY <1>1, <1>2, <1>3 DEF AnswerIInv

LEMMA DiscoveryKeepsTypes ==
  ASSUME AnswerIInv, NEW f \in Flights, Discover(f) \/ Discovered(f)
  PROVE  AnswerIInv'
  <1>1. StoredTypes'
    BY StoredStays DEF Discover, Discovered, AnswerIInv, StoredTypes, history
  <1>2. FlightTypes'
    <2>1. FlightFits(flight[f]) /\ flight[f].pc \in {"discover", "save"}
      BY DEF AnswerIInv, FlightTypes, Discover, Discovered
    <2>2. CASE Discover(f)
      <3>1. FlightFits([flight[f] EXCEPT !.pc = "save"])
        BY <2>1, GoesOn
      <3>2. flight' = [flight EXCEPT ![f] = [flight[f] EXCEPT !.pc = "save"]]
        BY <2>2 DEF Discover
      <3> QED
        BY <3>1, <3>2, FlightChanges DEF AnswerIInv
    <2>3. CASE Discovered(f)
      <3>1. PICK q \in Candidates(row, f.lang, now) :
              \/ flight' = [flight EXCEPT ![f] = Idle]
              \/ flight' = [flight EXCEPT ![f] = [flight[f] EXCEPT !.pc = "resolve", !.order = Diversify(q)]]
        BY <2>3 DEF Discovered
      <3>2. q \in Seq(Sources)
        BY CandidatesAreSources
      <3>3. FlightFits([flight[f] EXCEPT !.pc = "resolve", !.order = Diversify(q)])
        BY <2>1, <3>2, OrderIsSet
      <3> QED
        BY <3>1, <3>3, IdleFits, FlightChanges DEF AnswerIInv
    <2> QED
      BY <2>2, <2>3
  <1>3. LeaseTypes'
    BY DEF Discover, Discovered, AnswerIInv, LeaseTypes, IsABag
  <1> QED
    BY <1>1, <1>2, <1>3 DEF AnswerIInv

LEMMA CrossedAreSources ==
  ASSUME StoredTypes, NEW R \in SUBSET reports, NEW S, NEW resets \in BOOLEAN, Cross(R, S, resets)
  PROVE  crossed' \subseteq Sources
  BY DEF Cross, StoredTypes, Reports

LEMMA SaveKeepsTypes ==
  ASSUME AnswerIInv, NEW f \in Flights, NEW p \in ProviderSet, Save(f, p)
  PROVE  AnswerIInv'
  <1> DEFINE S == asked[f][p].found
  <1>1. /\ row' = [s \in Sources |-> IF s \in S THEN SavedRow(row[s]) ELSE row[s]]
        /\ Cross(reports, S, TRUE)
        /\ flight' = [flight EXCEPT ![f] = [flight[f] EXCEPT !.found = TRUE]]
        /\ UNCHANGED <<now, negative, reports, active, calls, events>>
    BY DEF Save
  <1> HIDE DEF S
  <1>2. StoredTypes'
    <2>1. crossed' \subseteq Sources
      BY <1>1, CrossedAreSources DEF AnswerIInv
    <2>2. ASSUME NEW s \in Sources, row'[s] # NoRow
          PROVE  row'[s] \in RowStates
      <3>1. CASE s \in S /\ row[s] = NoRow
        BY <1>1, <3>1, SourceRegistryAssumption DEF SavedRow, FreshRow, RowStates
      <3>2. CASE s \in S /\ row[s] # NoRow
        <4>1. row[s] \in RowStates
          BY <3>2 DEF AnswerIInv, StoredTypes
        <4>2. row'[s] = [row[s] EXCEPT !.fails = 0, !.until = 0]
          BY <1>1, <3>2 DEF SavedRow
        <4>3. row'[s].score = row[s].score /\ row'[s].fails = 0 /\ row'[s].until = 0
          BY <4>1, <4>2 DEF RowStates
        <4>4. row'[s] = [score |-> row[s].score, fails |-> 0, until |-> 0]
          BY <4>1, <4>2 DEF RowStates
        <4> QED
          BY <4>1, <4>4 DEF RowStates
      <3>3. CASE s \notin S
        BY <1>1, <2>2, <3>3 DEF AnswerIInv, StoredTypes
      <3> QED
        BY <3>1, <3>2, <3>3
    <2> QED
      BY <1>1, <2>1, <2>2 DEF AnswerIInv, StoredTypes
  <1>3. FlightTypes'
    <2>1. FlightFits(flight[f])
      BY DEF AnswerIInv, FlightTypes
    <2>2. FlightFits([flight[f] EXCEPT !.found = TRUE])
      <3> DEFINE fl  == flight[f]
                 new == [fl EXCEPT !.found = TRUE]
      <3>1. /\ new \in FlightStates /\ new.pc = fl.pc /\ new.at = fl.at /\ new.used = fl.used
            /\ new.leases = fl.leases /\ new.order = fl.order
        BY <2>1 DEF FlightFits, FlightStates
      <3> HIDE DEF fl, new
      <3>2. FlightFits(fl)
        BY <2>1 DEF fl
      <3>3. FlightFits(new)
        BY <3>1, <3>2 DEF FlightFits
      <3> QED
        BY <3>3 DEF fl, new
    <2> QED
      BY <1>1, <2>2, FlightChanges DEF AnswerIInv
  <1>4. LeaseTypes'
    BY <1>1 DEF AnswerIInv, LeaseTypes, IsABag
  <1> QED
    BY <1>2, <1>3, <1>4 DEF AnswerIInv

LEMMA MarkKeepsTypes ==
  ASSUME AnswerIInv, NEW f \in Flights, NEW p \in ProviderSet, Mark(f, p)
  PROVE  AnswerIInv'
  <1>1. StoredTypes'
    <2>1. PICK reason : negative' = [negative EXCEPT ![p] = CheckAgainAt(reason, now)]
      BY DEF Mark
    <2>2. now \in Nat
      BY DEF AnswerIInv, StoredTypes
    <2>3. CheckAgainAt(reason, now) \in Nat
      BY <2>2, SourceRegistryAssumption DEF CheckAgainAt
    <2>4. negative' \in [ProviderSet -> Nat]
      BY <2>1, <2>3 DEF AnswerIInv, StoredTypes
    <2> QED
      BY <2>4 DEF Mark, AnswerIInv, StoredTypes, history
  <1>2. FlightTypes' /\ LeaseTypes'
    BY DEF Mark, AnswerIInv, FlightTypes, LeaseTypes, IsABag
  <1> QED
    BY <1>1, <1>2 DEF AnswerIInv

\* A candidate that is tried is one of the order, and a source.
LEMMA TriedIsASource ==
  ASSUME FlightTypes, NEW f \in Flights, NEW i, Trying(f, i)
  PROVE  /\ FlightFits(flight[f]) /\ flight[f].pc = "resolve"
         /\ flight[f].leases \in 0..MaxLeases /\ flight[f].leases < MaxLeases
         /\ i \in flight[f].at..Len(flight[f].order) /\ flight[f].order[i] \in Sources
  <1>1. FlightFits(flight[f]) /\ flight[f] \in FlightStates
    BY DEF FlightTypes, FlightFits
  <1>2. /\ flight[f].pc = "resolve" /\ i \in flight[f].at..Len(flight[f].order)
        /\ ~(flight[f].leases >= MaxLeases)
    BY DEF Trying, Over, Left
  <1>3. /\ flight[f].leases \in 0..MaxLeases /\ flight[f].order \in Seq(Sources)
        /\ flight[f].at \in Nat \ {0}
    BY <1>1 DEF FlightStates
  <1>4. flight[f].order[i] \in Sources
    BY <1>2, <1>3
  <1> QED
    BY <1>1, <1>2, <1>3, <1>4, PlaybackAssumption

LEMMA ResolveKeepsTypes ==
  ASSUME AnswerIInv, NEW f \in Flights, NEW i, Resolve(f, i)
  PROVE  AnswerIInv'
  <1> DEFINE fl == flight[f]
             s  == flight[f].order[i]
             room == MaxLeases - flight[f].leases
  <1>1. /\ FlightFits(fl) /\ fl.pc = "resolve" /\ fl.leases \in 0..MaxLeases /\ fl.leases < MaxLeases
        /\ i \in fl.at..Len(fl.order) /\ s \in Sources /\ s = fl.order[i]
    BY TriedIsASource DEF Resolve, AnswerIInv
  <1>2. PICK n \in ValidLeases[ProviderOf[s]] :
          LET given == IF n > room THEN room ELSE n
          IN  /\ flight' = [flight EXCEPT ![f].leases = @ + given, ![f].used = @ \cup {s},
                                          ![f].at = i + 1]
              /\ active' = active (+) [l \in {[source |-> s, until |-> LeaseTtl(s)]} |-> given]
    BY Zenon DEF Resolve
  <1> DEFINE given == IF n > room THEN room ELSE n
  <1>3. given \in Nat \ {0} /\ fl.leases + given \in 0..MaxLeases
    <2>1. ProviderOf[s] \in ToSet(Providers)
      BY <1>1, SourceRegistryAssumption
    <2>2. n \in Nat \ {0}
      BY <2>1, LeasesAreCounted
    <2> QED
      BY <1>1, <2>2, PlaybackAssumption
  <1>4. /\ flight' = [flight EXCEPT ![f] = [fl EXCEPT !.leases = fl.leases + given,
                                                       !.used = fl.used \cup {s}, !.at = i + 1]]
        /\ active' = active (+) [l \in {[source |-> s, until |-> LeaseTtl(s)]} |-> given]
    <2>1. /\ flight' = [flight EXCEPT ![f].leases = @ + given, ![f].used = @ \cup {s},
                                      ![f].at = i + 1]
          /\ active' = active (+) [l \in {[source |-> s, until |-> LeaseTtl(s)]} |-> given]
      BY <1>2, Zenon
    <2> HIDE DEF given, s
    <2>2. f \in DOMAIN flight
      BY DEF AnswerIInv, FlightTypes
    <2> QED
      BY <2>1, <2>2
  <1> HIDE DEF given, room
  <1>5. StoredTypes'
    <2>1. Background \in Flights \cup {App, Background}
      OBVIOUS
    <2>2. reports' = Reading(s, SuccessFrom(row[s]), Background)
      BY DEF Resolve
    <2>3. reports' \subseteq Reports
      BY <1>1, <2>1, <2>2, ReportsAreTyped DEF AnswerIInv
    <2> QED
      BY <2>3, StoredStays DEF Resolve, AnswerIInv, history
  <1>6. FlightTypes'
    <2> DEFINE leases == fl.leases + given
               used == fl.used \cup {s}
               new == [fl EXCEPT !.pc = "resolve", !.leases = leases, !.used = used, !.at = i + 1]
    <2>1. FlightFits(new)
      <3>1. leases \in 0..MaxLeases /\ used \in {fl.used, fl.used \cup {fl.order[i]}}
        BY <1>1, <1>3
      <3> HIDE DEF leases, used, fl, s
      <3> QED
        BY <1>1, <3>1, CandidateIsTried
    <2>2. fl \in FlightStates
      BY <1>1 DEF FlightFits
    <2>3. new = [fl EXCEPT !.leases = leases, !.used = used, !.at = i + 1]
      <3> HIDE DEF leases, used, fl, s
      <3> QED
        BY <1>1, <2>2 DEF FlightStates
    <2>4. flight' = [flight EXCEPT ![f] = new]
      BY <1>4, <2>3
    <2> HIDE DEF new
    <2> QED
      BY <2>1, <2>4, FlightChanges DEF AnswerIInv
  <1>7. LeaseTypes'
    <2> DEFINE lease == [source |-> s, until |-> LeaseTtl(s)]
    <2>1. lease.source \in Sources
      BY <1>1
    <2>2. active' = active (+) [l \in {lease} |-> given]
      BY <1>4
    <2> HIDE DEF lease, s, fl
    <2>3. /\ DOMAIN active' = DOMAIN active \cup {lease}
          /\ active' = [e \in DOMAIN active \cup {lease} |-> active'[e]]
          /\ \A e \in DOMAIN active \cup {lease} :
                active'[e] = (IF e \in DOMAIN active THEN active[e] ELSE 0)
                             + (IF e = lease THEN given ELSE 0)
      BY <2>2 DEF (+)
    <2>4. \A e \in DOMAIN active : active[e] \in {n_1 \in Nat : n_1 > 0}
      BY DEF AnswerIInv, LeaseTypes, IsABag
    <2>5. \A e \in DOMAIN active' : active'[e] \in {n_1 \in Nat : n_1 > 0}
      BY <1>3, <2>3, <2>4
    <2>6. IsABag(active')
      BY <2>3, <2>5 DEF IsABag
    <2>7. \A l \in DOMAIN active' : l.source \in Sources
      BY <2>1, <2>3 DEF AnswerIInv, LeaseTypes
    <2> QED
      BY <2>6, <2>7 DEF LeaseTypes
  <1> QED
    BY <1>5, <1>6, <1>7 DEF AnswerIInv

LEMMA FailKeepsTypes ==
  ASSUME AnswerIInv, NEW f \in Flights, NEW i, Fail(f, i)
  PROVE  AnswerIInv'
  <1> DEFINE fl == flight[f]
             s  == flight[f].order[i]
             pc == IF row[s] = NoRow THEN "resolve" ELSE "failing"
  <1>1. /\ FlightFits(fl) /\ fl.pc = "resolve" /\ fl.leases \in 0..MaxLeases
        /\ i \in fl.at..Len(fl.order) /\ s \in Sources
    BY TriedIsASource DEF Fail, AnswerIInv
  <1>2. StoredTypes'
    <2>1. PICK class \in FailuresOf(ProviderOf[s]) : reports' = Reading(s, FailureFrom(row[s], class), f)
      BY DEF Fail
    <2>2. class \in FailureClasses
      BY DEF FailuresOf, FailureClasses
    <2>3. reports' \subseteq Reports
      BY <1>1, <2>1, <2>2, ReportsAreTyped DEF AnswerIInv
    <2> QED
      BY <2>3, StoredStays DEF Fail, AnswerIInv, history
  <1>3. FlightTypes'
    <2> DEFINE leases == fl.leases
               used == fl.used
               new == [fl EXCEPT !.pc = pc, !.leases = leases, !.used = used, !.at = i + 1]
    <2>1. FlightFits(new)
      <3>1. pc \in {"resolve", "failing"} /\ used \in {fl.used, fl.used \cup {fl.order[i]}}
        OBVIOUS
      <3>2. leases \in 0..MaxLeases
        BY <1>1
      <3> HIDE DEF leases, used, fl, s, pc
      <3> QED
        BY <1>1, <3>1, <3>2, CandidateIsTried
    <2>2. fl \in FlightStates
      BY <1>1 DEF FlightFits
    <2>3. new = [fl EXCEPT !.pc = pc, !.at = i + 1]
      <3> HIDE DEF fl, pc
      <3> QED
        BY <2>2 DEF FlightStates
    <2>4. flight' = [flight EXCEPT ![f] = [fl EXCEPT !.pc = pc, !.at = i + 1]]
      BY DEF Fail
    <2>5. flight' = [flight EXCEPT ![f] = new]
      BY <2>3, <2>4
    <2> HIDE DEF new
    <2> QED
      BY <2>1, <2>5, FlightChanges DEF AnswerIInv
  <1>4. LeaseTypes'
    BY DEF Fail, AnswerIInv, LeaseTypes, IsABag
  <1> QED
    BY <1>2, <1>3, <1>4 DEF AnswerIInv

LEMMA FinishKeepsTypes ==
  ASSUME AnswerIInv, NEW f \in Flights, Finish(f)
  PROVE  AnswerIInv'
  <1>1. StoredTypes'
    BY StoredStays DEF Finish, AnswerIInv, StoredTypes, history
  <1>2. FlightTypes'
    <2>1. \/ flight' = [flight EXCEPT ![f] = [Idle EXCEPT !.pc = "discover", !.forced = TRUE]]
          \/ flight' = [flight EXCEPT ![f] = Idle]
      BY DEF Finish
    <2> QED
      BY <2>1, IdleFits, FlightChanges DEF AnswerIInv
  <1>3. LeaseTypes'
    <2>1. /\ DOMAIN active' \subseteq DOMAIN active
          /\ active' = [l \in DOMAIN active' |-> active[l]]
      BY DEF Finish, Unexpired
    <2> QED
      BY <2>1 DEF AnswerIInv, LeaseTypes, IsABag
  <1> QED
    BY <1>1, <1>2, <1>3 DEF AnswerIInv

LEMMA ReportKeepsTypes ==
  ASSUME AnswerIInv, NEW l, Report(l)
  PROVE  AnswerIInv'
  <1>1. l \in DOMAIN active /\ l.source \in Sources
    BY DEF Report, BagIn, BagToSet, AnswerIInv, LeaseTypes
  <1>2. reports' \subseteq Reports
    <2>1. App \in Flights \cup {App, Background}
      OBVIOUS
    <2> QED
      BY <1>1, <2>1, ReportsAreTyped DEF Report, AnswerIInv
  <1>3. StoredTypes'
    BY <1>2, PlaybackAssumption DEF Report, Event, AnswerIInv, StoredTypes, history
  <1>4. LeaseTypes'
    <2> DEFINE left == {e \in DOMAIN active : (IF e = l THEN active[e] - 1 ELSE active[e]) > 0}
    <2>1. active' = [e \in left |-> IF e = l THEN active[e] - 1 ELSE active[e]]
      BY DEF Report, SetToBag, (-)
    <2>2. \A e \in DOMAIN active : active[e] \in Nat
      BY DEF AnswerIInv, LeaseTypes, IsABag
    <2>3. \A e \in left : /\ e \in DOMAIN active
                          /\ (IF e = l THEN active[e] - 1 ELSE active[e]) \in {n \in Nat : n > 0}
      BY <2>2
    <2> HIDE DEF left
    <2> QED
      BY <2>1, <2>3 DEF AnswerIInv, LeaseTypes, IsABag
  <1>5. FlightTypes'
    BY DEF Report, AnswerIInv, FlightTypes
  <1> QED
    BY <1>3, <1>4, <1>5 DEF AnswerIInv

LEMMA WriteKeepsTypes ==
  ASSUME AnswerIInv, NEW r \in reports, Write(r)
  PROVE  AnswerIInv'
  <1> DEFINE s == r.source
             new == ReportedRow(row[s], r, now)
  <1>1. /\ row' = [row EXCEPT ![s] = new] /\ reports' = reports \ {r} /\ row[s] # NoRow
        /\ Cross(reports \ {r}, {s}, r.success) /\ UNCHANGED <<now, negative, active, calls, events>>
        /\ flight' = IF r.by \in Flights THEN [flight EXCEPT ![r.by] = [flight[r.by] EXCEPT !.pc = "resolve"]]
                     ELSE flight
    BY DEF Write
  <1>2. r \in Reports
    BY DEF AnswerIInv, StoredTypes
  <1>3. StoredTypes'
    <2>1. row[s] \in RowStates /\ now \in Nat
      BY <1>1, <1>2 DEF Reports, AnswerIInv, StoredTypes
    <2>2. new \in RowStates
      <3>1. r.score \in 0..MaxScore /\ r.fails \in Nat /\ row[s].until \in Nat
        BY <1>2, <2>1 DEF Reports, RowStates
      <3>2. BreakerTime \in Nat
        BY SourceRegistryAssumption
      <3> DEFINE until == IF r.success THEN 0
                          ELSE IF r.fails >= CircuitBreakerFailures THEN now + BreakerTime
                          ELSE row[s].until
      <3>3. until \in Nat
        BY <2>1, <3>1, <3>2
      <3>4. new = [score |-> r.score, fails |-> r.fails, until |-> until]
        BY DEF ReportedRow
      <3> HIDE DEF until, new
      <3> QED
        BY <3>1, <3>3, <3>4 DEF RowStates
    <2>3. crossed' \subseteq Sources
      <3>1. r.success \in BOOLEAN
        BY <1>2 DEF Reports
      <3> QED
        BY <1>1, <3>1, CrossedAreSources DEF AnswerIInv
    <2> HIDE DEF new
    <2>4. \A x \in Sources : row'[x] # NoRow => row'[x] \in RowStates
      BY <1>1, <2>2 DEF AnswerIInv, StoredTypes
    <2> QED
      BY <1>1, <2>3, <2>4 DEF AnswerIInv, StoredTypes
  <1>4. FlightTypes'
    <2>1. CASE r.by \in Flights
      <3>1. FlightFits(flight[r.by])
        BY <2>1 DEF AnswerIInv, FlightTypes
      <3>2. FlightFits([flight[r.by] EXCEPT !.pc = "resolve"])
        BY <3>1, GoesOn
      <3> QED
        BY <1>1, <2>1, <3>2, FlightChanges DEF AnswerIInv
    <2>2. CASE r.by \notin Flights
      BY <1>1, <2>2 DEF AnswerIInv, FlightTypes
    <2> QED
      BY <2>1, <2>2
  <1>5. LeaseTypes'
    BY <1>1 DEF AnswerIInv, LeaseTypes, IsABag
  <1> QED
    BY <1>3, <1>4, <1>5 DEF AnswerIInv

LEMMA MissedKeepsTypes ==
  ASSUME AnswerIInv, NEW r \in reports, Missed(r)
  PROVE  AnswerIInv'
  <1>1. StoredTypes'
    <2>1. reports' \subseteq reports
      BY DEF Missed
    <2>2. reports' \subseteq Reports
      BY <2>1 DEF AnswerIInv, StoredTypes
    <2> QED
      BY <2>2, StoredStays DEF Missed, AnswerIInv, history
  <1>2. FlightTypes'
    <2>1. DOMAIN flight' = Flights /\ \A f \in Flights : flight'[f] \in {flight[f], Idle}
      BY DEF Missed
    <2> QED
      BY <2>1, IdleFits DEF AnswerIInv, FlightTypes
  <1>3. LeaseTypes'
    BY DEF Missed, EmptyBag, SetToBag, AnswerIInv, LeaseTypes, IsABag
  <1> QED
    BY <1>1, <1>2, <1>3 DEF AnswerIInv

LEMMA RestKeepsTypes ==
  ASSUME AnswerIInv, Purge \/ Tick
  PROVE  AnswerIInv'
  <1>1. FlightTypes' /\ LeaseTypes'
    BY DEF Purge, Tick, AnswerIInv, FlightTypes, LeaseTypes, IsABag
  <1>2. CASE Tick
    BY <1>1, <1>2, PlaybackAssumption DEF Tick, Event, AnswerIInv, StoredTypes, history
  <1>3. CASE Purge
    <2>1. crossed' \subseteq Sources
      BY <1>3, CrossedAreSources DEF Purge, AnswerIInv
    <2>2. DOMAIN row' = Sources /\ \A s \in Sources : row'[s] \in {row[s], NoRow}
      BY <1>3 DEF Purge
    <2>3. StoredTypes'
      BY <1>3, <2>1, <2>2, PlaybackAssumption DEF Purge, Event, AnswerIInv, StoredTypes
    <2> QED
      BY <1>1, <2>3 DEF AnswerIInv
  <1> QED
    BY <1>2, <1>3

LEMMA AnswersInitially == Init => AnswerIInv
  <1> SUFFICES ASSUME Init PROVE AnswerIInv
    OBVIOUS
  <1>1. StoredTypes
    BY PlaybackAssumption DEF Init, StoredTypes
  <1>2. LeaseTypes
    BY DEF Init, LeaseTypes, EmptyBag, SetToBag, IsABag
  <1>3. FlightTypes
    BY IdleFits DEF Init, FlightTypes
  <1> QED
    BY <1>1, <1>2, <1>3 DEF AnswerIInv

LEMMA StepKeepsTypes == AnswerIInv /\ [Next]_vars => AnswerIInv'
  <1> SUFFICES ASSUME AnswerIInv, [Next]_vars PROVE AnswerIInv'
    OBVIOUS
  <1>1. ASSUME NEW f \in Flights, Step(f)
        PROVE  AnswerIInv'
    BY <1>1, FindKeepsTypes, DiscoveryKeepsTypes, SaveKeepsTypes, MarkKeepsTypes,
       ResolveKeepsTypes, FailKeepsTypes, FinishKeepsTypes DEF Step
  <1>2. CASE Recorded
    BY <1>2, WriteKeepsTypes, MissedKeepsTypes DEF Recorded
  <1>3. CASE UNCHANGED vars
    BY <1>3 DEF vars, AnswerIInv, StoredTypes, LeaseTypes, IsABag, FlightTypes
  <1> QED
    BY <1>1, <1>2, <1>3, CallKeepsTypes, ReportKeepsTypes, RestKeepsTypes DEF Next, UnderWay

\* recordSuccess, recordFailure and saveSources write rows whose score is in its range, and
\* resolveCandidates gives no more leases than MAX_LEASES, whatever the discovery, the
\* resolvers and the application do.
THEOREM PlaybackIsTyped == Spec => []TypeOK
<1>1. AnswerIInv => TypeOK
  <2> SUFFICES ASSUME AnswerIInv PROVE TypeOK
    OBVIOUS
  <2>1. now \in 1..(MaxEvents + 1)
    BY PlaybackAssumption DEF AnswerIInv, StoredTypes
  <2>2. ASSUME NEW f \in Flights
        PROVE  /\ flight[f].pc \in {"idle", "find", "discover", "save", "resolve", "failing"}
               /\ flight[f].leases \in 0..MaxLeases
               /\ flight[f].used \subseteq ToSet(flight[f].order)
    <3>1. FlightFits(flight[f]) /\ flight[f] \in FlightStates
      BY DEF AnswerIInv, FlightTypes, FlightFits
    <3>2. flight[f].used \subseteq ToSet(flight[f].order)
      BY <3>1 DEF FlightFits, ToSet
    <3> QED
      BY <3>1, <3>2 DEF FlightStates
  <2> QED
    BY <2>1, <2>2 DEF AnswerIInv, StoredTypes, LeaseTypes, RowStates, TypeOK
<1> QED
  BY AnswersInitially, StepKeepsTypes, <1>1, PTL DEF Spec

\* diversify and the caps of resolveCandidates: an answer has two sources of one language only
\* when every language of the candidates has been tried, for any sources and any order that
\* findCandidates gives.
THEOREM LanguagesAreTriedFirst == Spec => []LanguagesComeFirst
<1>1. AnswerIInv => LanguagesComeFirst
  <2> SUFFICES ASSUME AnswerIInv, NEW f \in Flights, NEW s \in flight[f].used,
                      UsedWith(f, LanguageOf, s) # {s}, NEW t \in ToSet(flight[f].order)
               PROVE  \E u \in {flight[f].order[i] : i \in 1..(flight[f].at - 1)} :
                        LanguageOf[u] = LanguageOf[t]
    BY Zenon DEF LanguagesComeFirst
  <2> DEFINE order == flight[f].order
             at    == flight[f].at
  <2>1. /\ order \in Seq(Sources) /\ at \in Nat \ {0} /\ LanguagesLead(order)
        /\ flight[f].used \subseteq {order[i] : i \in DOMAIN order \cap 1..(at - 1)}
    BY DEF AnswerIInv, FlightTypes, FlightFits, FlightStates
  <2>2. PICK r \in flight[f].used : r # s /\ LanguageOf[r] = LanguageOf[s]
    BY DEF UsedWith
  <2>3. PICK k \in DOMAIN order : t = order[k]
    BY DEF ToSet
  <2> HIDE DEF order, at
  <2>4. PICK i \in DOMAIN order \cap 1..(at - 1), j \in DOMAIN order \cap 1..(at - 1) :
          s = order[i] /\ r = order[j]
    BY <2>1
  <2>5. DOMAIN order \subseteq Nat \ {0} /\ i # j
    BY <2>1, <2>2, <2>4
  <2>6. \E u \in DOMAIN order : u < at /\ LanguageOf[order[u]] = LanguageOf[order[k]]
    <3>1. CASE i < j
      <4>1. PICK u \in DOMAIN order : u < j /\ LanguageOf[order[u]] = LanguageOf[order[k]]
        BY <2>1, <2>2, <2>3, <2>4, <3>1 DEF LanguagesLead
      <4> QED
        BY <2>1, <2>4, <2>5, <4>1
    <3>2. CASE j < i
      <4>1. PICK u \in DOMAIN order : u < i /\ LanguageOf[order[u]] = LanguageOf[order[k]]
        BY <2>1, <2>2, <2>3, <2>4, <3>2 DEF LanguagesLead
      <4> QED
        BY <2>1, <2>4, <2>5, <4>1
    <3> QED
      BY <2>4, <2>5, <3>1, <3>2
  <2>7. PICK u \in DOMAIN order : u < at /\ LanguageOf[order[u]] = LanguageOf[t]
    BY <2>3, <2>6
  <2>8. u \in 1..(at - 1)
    BY <2>1, <2>5, <2>7
  <2> QED
    BY <2>7, <2>8 DEF order, at
<1> QED
  BY AnswersInitially, StepKeepsTypes, <1>1, PTL DEF Spec

-----------------------------------------------------------------------------
(***************************************************************************)
(* What a flight waits for.                                                *)
(***************************************************************************)
Own(f) == {r \in reports : r.by = f}

\* A record of a provider; while a flight saves, each has been asked, and one that is
\* done has nothing left to save.
Asking(a) == a = [st |-> a.st, found |-> a.found]

Listing(a) == a = [p \in ProviderSet |-> a[p]] /\ \A p \in ProviderSet : Asking(a[p])

Settled(a) == a.st \in {"answered", "left out", "done"} /\ (a.st = "done" => a.found = {})

WaitIInv ==
    /\ DOMAIN asked = Flights
    /\ \A f \in Flights :
        /\ flight[f].pc = "failing" => \E r \in Own(f) : Own(f) = {r}
        /\ flight[f].pc # "failing" => Own(f) = {}
        /\ Listing(asked[f])
        /\ flight[f].pc = "save" => \A p \in ProviderSet : Settled(asked[f][p])

\* A step that leaves the reports of the flights, and who waits for them.
LEMMA GoingOnKeepsWaits ==
  ASSUME WaitIInv,
         \A g \in Flights : Own(g)' = Own(g) /\ (flight'[g].pc = "failing" <=> flight[g].pc = "failing"),
         DOMAIN asked' = Flights,
         \A g \in Flights : Listing(asked'[g]),
         \A g \in Flights : flight'[g].pc = "save" => \A p \in ProviderSet : Settled(asked'[g][p])
  PROVE  WaitIInv'
  <1>1. ASSUME NEW g \in Flights
        PROVE  /\ flight'[g].pc = "failing" => \E r \in Own(g)' : Own(g)' = {r}
               /\ flight'[g].pc # "failing" => Own(g)' = {}
    BY DEF WaitIInv
  <1> QED
    BY <1>1 DEF WaitIInv

\* The same, when the providers stay as they are.
LEMMA OtherFlightsWait ==
  ASSUME WaitIInv, UNCHANGED asked,
         \A g \in Flights : Own(g)' = Own(g) /\ (flight'[g].pc = "failing" <=> flight[g].pc = "failing"),
         \A g \in Flights : flight'[g].pc = "save" => flight[g].pc = "save"
  PROVE  WaitIInv'
  <1>1. DOMAIN asked' = Flights
    BY DEF WaitIInv
  <1>2. \A g \in Flights : Listing(asked'[g])
    BY DEF WaitIInv
  <1>3. \A g \in Flights : flight'[g].pc = "save" => \A p \in ProviderSet : Settled(asked'[g][p])
    BY DEF WaitIInv
  <1> QED
    BY <1>1, <1>2, <1>3, GoingOnKeepsWaits

LEMMA OwnStays ==
  ASSUME NEW s, NEW report, NEW by, by \notin Flights, reports' = reports \/ reports' = Reading(s, report, by)
  PROVE  \A g \in Flights : Own(g)' = Own(g)
  BY DEF Own, Reading

LEMMA OthersAreNoFlights == App \notin Flights /\ Background \notin Flights
  BY DEF App, Background, Flights

LEMMA FlightBecomes ==
  ASSUME FlightTypes, NEW f \in Flights, NEW new, flight' = [flight EXCEPT ![f] = new]
  PROVE  flight'[f] = new /\ \A g \in Flights : g # f => flight'[g] = flight[g]
  BY DEF FlightTypes

LEMMA StateFields ==
  ASSUME NEW fl \in FlightStates, NEW pc, NEW x
  PROVE  /\ [fl EXCEPT !.pc = pc].pc = pc
         /\ [fl EXCEPT !.pc = pc, !.order = x].pc = pc
         /\ [fl EXCEPT !.pc = pc, !.at = x].pc = pc
         /\ [fl EXCEPT !.found = x].pc = fl.pc
  BY DEF FlightStates

LEMMA FlightFields ==
  ASSUME FlightTypes, NEW f \in Flights
  PROVE  flight[f] \in FlightStates
  BY DEF FlightTypes, FlightFits

LEMMA CallKeepsWaits ==
  ASSUME AnswerIInv, WaitIInv, NEW f \in Flights, Call(f) \/ Find(f)
  PROVE  WaitIInv'
  <1>1. PICK new : /\ flight' = [flight EXCEPT ![f] = new] /\ new.pc \notin {"save", "failing"}
    <2>1. CASE Call(f)
      <3>1. flight' = [flight EXCEPT ![f] = [flight[f] EXCEPT !.pc = "find"]]
        BY <2>1 DEF Call
      <3>2. [flight[f] EXCEPT !.pc = "find"].pc = "find"
        BY FlightFields, StateFields DEF AnswerIInv
      <3> QED
        BY <3>1, <3>2
    <2>2. CASE Find(f)
      <3>1. PICK q \in Candidates(row, f.lang, now) : flight' = [flight EXCEPT ![f] =
                CASE q = <<>>                             -> [@ EXCEPT !.pc = "discover"]
                  [] q # <<>> /\ f.scope = "prepare"      -> Idle
                  [] OTHER -> [@ EXCEPT !.pc = "resolve", !.order = Diversify(q)]]
        BY <2>2 DEF Find
      <3>2. \/ flight' = [flight EXCEPT ![f] = [flight[f] EXCEPT !.pc = "discover"]]
            \/ flight' = [flight EXCEPT ![f] = Idle]
            \/ flight' = [flight EXCEPT ![f] = [flight[f] EXCEPT !.pc = "resolve", !.order = Diversify(q)]]
        <4>1. CASE q = <<>>
          BY <3>1, <4>1
        <4>2. CASE q # <<>> /\ f.scope = "prepare"
          BY <3>1, <4>2
        <4>3. CASE q # <<>> /\ f.scope # "prepare"
          BY <3>1, <4>3
        <4> QED
          BY <4>1, <4>2, <4>3
      <3>3. /\ Idle.pc = "idle" /\ [flight[f] EXCEPT !.pc = "discover"].pc = "discover"
            /\ [flight[f] EXCEPT !.pc = "resolve", !.order = Diversify(q)].pc = "resolve"
        BY FlightFields, StateFields DEF AnswerIInv, Idle
      <3> QED
        BY <3>2, <3>3
    <2> QED
      BY <2>1, <2>2
  <1>2. flight[f].pc \in {"idle", "find"} /\ UNCHANGED <<asked, reports>>
    BY DEF Call, Find
  <1>3. flight'[f] = new /\ \A g \in Flights : g # f => flight'[g] = flight[g]
    BY <1>1, FlightBecomes DEF AnswerIInv
  <1>4. \A g \in Flights : Own(g)' = Own(g)
    BY <1>2 DEF Own
  <1> QED
    BY <1>1, <1>2, <1>3, <1>4, OtherFlightsWait

\* discoverAll: every provider has answered or is left out.
LEMMA DiscoverKeepsWaits ==
  ASSUME AnswerIInv, WaitIInv, NEW f \in Flights, Discover(f)
  PROVE  WaitIInv'
  <1>1. PICK d : asked' = [asked EXCEPT ![f] = [p \in ProviderSet |->
                              [st |-> IF d[p].ok THEN "answered" ELSE "left out", found |-> d[p].found]]]
    BY DEF Discover
  <1>2. /\ flight[f].pc = "discover" /\ UNCHANGED reports
        /\ flight' = [flight EXCEPT ![f] = [flight[f] EXCEPT !.pc = "save"]]
    BY DEF Discover
  <1>3. flight'[f].pc = "save" /\ \A g \in Flights : g # f => flight'[g] = flight[g]
    <2>1. [flight[f] EXCEPT !.pc = "save"].pc = "save"
      BY FlightFields, StateFields DEF AnswerIInv
    <2> QED
      BY <1>2, <2>1, FlightBecomes DEF AnswerIInv
  <1>4. \A g \in Flights : Own(g)' = Own(g)
    BY <1>2 DEF Own
  <1>5. DOMAIN asked' = Flights /\ \A g \in Flights : g # f => asked'[g] = asked[g]
    BY <1>1 DEF WaitIInv
  <1>6. Listing(asked'[f]) /\ \A p \in ProviderSet : Settled(asked'[f][p])
    BY <1>1 DEF WaitIInv, Listing, Asking, Settled
  <1>7. \A g \in Flights : Listing(asked'[g])
    BY <1>5, <1>6 DEF WaitIInv
  <1>8. \A g \in Flights : flight'[g].pc = "save" => \A p \in ProviderSet : Settled(asked'[g][p])
    BY <1>3, <1>5, <1>6 DEF WaitIInv
  <1> QED
    BY <1>2, <1>3, <1>4, <1>5, <1>7, <1>8, GoingOnKeepsWaits

LEMMA DiscoveredKeepsWaits ==
  ASSUME AnswerIInv, WaitIInv, NEW f \in Flights, Discovered(f)
  PROVE  WaitIInv'
  <1>1. PICK q \in Candidates(row, f.lang, now) :
          \/ flight' = [flight EXCEPT ![f] = Idle]
          \/ flight' = [flight EXCEPT ![f] = [flight[f] EXCEPT !.pc = "resolve", !.order = Diversify(q)]]
    BY DEF Discovered
  <1>2. PICK new : flight' = [flight EXCEPT ![f] = new] /\ new.pc \in {"idle", "resolve"}
    <2>1. /\ Idle.pc = "idle"
          /\ [flight[f] EXCEPT !.pc = "resolve", !.order = Diversify(q)].pc = "resolve"
      BY FlightFields, StateFields DEF AnswerIInv, Idle
    <2> QED
      BY <1>1, <2>1
  <1>3. flight[f].pc = "save" /\ UNCHANGED reports /\ asked' = [asked EXCEPT ![f] = NotAsked]
    BY DEF Discovered
  <1>4. flight'[f] = new /\ \A g \in Flights : g # f => flight'[g] = flight[g]
    BY <1>2, FlightBecomes DEF AnswerIInv
  <1>5. \A g \in Flights : Own(g)' = Own(g)
    BY <1>3 DEF Own
  <1>6. /\ DOMAIN asked' = Flights /\ \A g \in Flights : g # f => asked'[g] = asked[g]
        /\ asked'[f] = NotAsked
    BY <1>3 DEF WaitIInv
  <1>7. Listing(NotAsked)
    BY DEF NotAsked, Listing, Asking
  <1>8. \A g \in Flights : Listing(asked'[g])
    BY <1>6, <1>7 DEF WaitIInv
  <1>9. \A g \in Flights : flight'[g].pc = "save" => \A p \in ProviderSet : Settled(asked'[g][p])
    BY <1>2, <1>4, <1>6 DEF WaitIInv
  <1> QED
    BY <1>2, <1>3, <1>4, <1>5, <1>6, <1>8, <1>9, GoingOnKeepsWaits

\* saveSources and markNotFound: a provider is done, and has nothing left.
LEMMA SavingKeepsWaits ==
  ASSUME AnswerIInv, WaitIInv, NEW f \in Flights, NEW p \in ProviderSet, Save(f, p) \/ Mark(f, p)
  PROVE  WaitIInv'
  <1>1. asked' = [asked EXCEPT ![f] = [asked[f] EXCEPT ![p] = [st |-> "done", found |-> {}]]]
    <2>1. CASE Save(f, p)
      BY <2>1 DEF Save
    <2>2. CASE Mark(f, p)
      <3>1. asked[f][p] = [st |-> asked[f][p].st, found |-> {}]
        BY <2>2 DEF Mark, WaitIInv, Listing, Asking
      <3>2. [asked[f][p] EXCEPT !.st = "done"] = [st |-> "done", found |-> {}]
        BY <3>1
      <3> QED
        BY <2>2, <3>2 DEF Mark
    <2> QED
      BY <2>1, <2>2
  <1>2. /\ UNCHANGED reports /\ flight[f].pc = "save"
        /\ flight' = flight \/ flight' = [flight EXCEPT ![f] = [flight[f] EXCEPT !.found = TRUE]]
    BY DEF Save, Mark
  <1>3. \A g \in Flights : flight'[g].pc = flight[g].pc
    <2>1. [flight[f] EXCEPT !.found = TRUE].pc = flight[f].pc
      BY FlightFields, StateFields DEF AnswerIInv
    <2> QED
      BY <1>2, <2>1, FlightBecomes DEF AnswerIInv
  <1>4. \A g \in Flights : Own(g)' = Own(g)
    BY <1>2 DEF Own
  <1>5. DOMAIN asked' = Flights /\ \A g \in Flights : g # f => asked'[g] = asked[g]
    BY <1>1 DEF WaitIInv
  <1>6. /\ asked'[f] = [q \in ProviderSet |-> asked'[f][q]]
        /\ \A q \in ProviderSet : asked'[f][q] = IF q = p THEN [st |-> "done", found |-> {}] ELSE asked[f][q]
    BY <1>1 DEF WaitIInv, Listing
  <1>7. Asking([st |-> "done", found |-> {}]) /\ Settled([st |-> "done", found |-> {}])
    BY DEF Asking, Settled
  <1>8. \A g \in Flights : Listing(asked'[g])
    BY <1>5, <1>6, <1>7 DEF WaitIInv, Listing
  <1>9. \A g \in Flights : flight'[g].pc = "save" => \A q \in ProviderSet : Settled(asked'[g][q])
    <2> SUFFICES ASSUME NEW g \in Flights, flight[g].pc = "save", NEW q \in ProviderSet
                 PROVE  Settled(asked'[g][q])
      BY <1>3
    <2>1. Settled(asked[g][q])
      BY DEF WaitIInv
    <2>2. asked'[g][q] \in {asked[g][q], [st |-> "done", found |-> {}]}
      BY <1>5, <1>6
    <2> QED
      BY <1>7, <2>1, <2>2
  <1> QED
    BY <1>3, <1>4, <1>5, <1>8, <1>9, GoingOnKeepsWaits

\* resolveCandidates: a success goes on in the background.
LEMMA ResolveKeepsWaits ==
  ASSUME AnswerIInv, WaitIInv, NEW f \in Flights, NEW i, Resolve(f, i)
  PROVE  WaitIInv'
  <1> DEFINE s    == flight[f].order[i]
             room == MaxLeases - flight[f].leases
  <1>1. PICK n : flight' = [flight EXCEPT ![f].leases = @ + (IF n > room THEN room ELSE n),
                                          ![f].used = @ \cup {s}, ![f].at = i + 1]
    BY Zenon DEF Resolve
  <1>2. UNCHANGED asked /\ reports' = Reading(s, SuccessFrom(row[s]), Background)
    BY DEF Resolve
  <1>3. \A g \in Flights : flight'[g].pc = flight[g].pc
    <2> DEFINE given == IF n > room THEN room ELSE n
               new   == [flight[f] EXCEPT !.leases = flight[f].leases + given,
                                          !.used = flight[f].used \cup {s}, !.at = i + 1]
    <2>1. flight[f] \in FlightStates
      BY FlightFields DEF AnswerIInv
    <2>2. f \in DOMAIN flight
      BY DEF AnswerIInv, FlightTypes
    <2>3. flight' = [flight EXCEPT ![f].leases = @ + given, ![f].used = @ \cup {s}, ![f].at = i + 1]
      BY <1>1, Zenon
    <2> HIDE DEF given, s
    <2>4. flight' = [flight EXCEPT ![f] = new]
      BY <2>2, <2>3
    <2>5. new.pc = flight[f].pc
      BY <2>1 DEF FlightStates
    <2> HIDE DEF new
    <2> QED
      BY <2>4, <2>5, FlightBecomes DEF AnswerIInv
  <1>4. \A g \in Flights : Own(g)' = Own(g)
    <2> DEFINE report == SuccessFrom(row[s])
    <2>1. reports' = Reading(s, report, Background)
      BY <1>2
    <2> HIDE DEF s, report
    <2> QED
      BY <2>1, OwnStays, OthersAreNoFlights
  <1> QED
    BY <1>2, <1>3, <1>4, OtherFlightsWait

\* A failure is awaited: it is the one report of its flight.
LEMMA FailKeepsWaits ==
  ASSUME AnswerIInv, WaitIInv, NEW f \in Flights, NEW i, Fail(f, i)
  PROVE  WaitIInv'
  <1> DEFINE s  == flight[f].order[i]
             pc == IF row[s] = NoRow THEN "resolve" ELSE "failing"
  <1>1. flight[f].pc = "resolve" /\ UNCHANGED asked
    BY DEF Fail, Trying
  <1>2. PICK class : reports' = Reading(s, FailureFrom(row[s], class), f)
    BY DEF Fail
  <1>3. flight'[f].pc = pc /\ \A g \in Flights : g # f => flight'[g] = flight[g]
    <2>1. flight' = [flight EXCEPT ![f] = [flight[f] EXCEPT !.pc = pc, !.at = i + 1]]
      BY DEF Fail
    <2>2. flight[f] \in FlightStates
      BY FlightFields DEF AnswerIInv
    <2> HIDE DEF pc
    <2>3. [flight[f] EXCEPT !.pc = pc, !.at = i + 1].pc = pc
      BY <2>2, StateFields
    <2> QED
      BY <2>1, <2>3, FlightBecomes DEF AnswerIInv
  <1> DEFINE report == FailureFrom(row[s], class)
             new    == [source |-> s, by |-> f, success |-> report.success,
                        fails |-> report.fails, score |-> report.score]
  <1>4. reports' = IF row[s] = NoRow THEN reports ELSE reports \cup {new}
    BY <1>2 DEF Reading
  <1>5. new.by = f
    OBVIOUS
  <1>6. Own(f) = {}
    BY <1>1 DEF WaitIInv
  <1> HIDE DEF s, new
  <1>7. \A g \in Flights : g # f => Own(g)' = Own(g)
    BY <1>4, <1>5 DEF Own
  <1>8. /\ flight'[f].pc = "failing" => Own(f)' = {new}
        /\ flight'[f].pc # "failing" => Own(f)' = {}
    BY <1>3, <1>4, <1>5, <1>6 DEF Own
  <1>9. flight'[f].pc = "failing" => \E r \in Own(f)' : Own(f)' = {r}
    BY <1>8
  <1>10. flight'[f].pc # "save"
    BY <1>3
  <1>11. DOMAIN asked' = Flights
    BY <1>1 DEF WaitIInv
  <1>12. ASSUME NEW g \in Flights
         PROVE  /\ flight'[g].pc = "failing" => \E r \in Own(g)' : Own(g)' = {r}
                /\ flight'[g].pc # "failing" => Own(g)' = {}
                /\ Listing(asked'[g])
                /\ flight'[g].pc = "save" => \A p \in ProviderSet : Settled(asked'[g][p])
    <2>1. CASE g = f
      BY <1>1, <1>8, <1>9, <1>10, <2>1 DEF WaitIInv
    <2>2. CASE g # f
      BY <1>1, <1>3, <1>7, <2>2 DEF WaitIInv
    <2> QED
      BY <2>1, <2>2
  <1> QED
    BY <1>11, <1>12 DEF WaitIInv

LEMMA FinishKeepsWaits ==
  ASSUME AnswerIInv, WaitIInv, NEW f \in Flights, Finish(f)
  PROVE  WaitIInv'
  <1>1. PICK new : flight' = [flight EXCEPT ![f] = new] /\ new.pc \in {"idle", "discover"}
    <2>1. Idle.pc = "idle" /\ [Idle EXCEPT !.pc = "discover", !.forced = TRUE].pc = "discover"
      BY DEF Idle
    <2> QED
      BY <2>1 DEF Finish
  <1>2. flight[f].pc = "resolve" /\ UNCHANGED <<asked, reports>>
    BY DEF Finish
  <1>3. flight'[f] = new /\ \A g \in Flights : g # f => flight'[g] = flight[g]
    BY <1>1, FlightBecomes DEF AnswerIInv
  <1>4. \A g \in Flights : Own(g)' = Own(g)
    BY <1>2 DEF Own
  <1> QED
    BY <1>1, <1>2, <1>3, <1>4, OtherFlightsWait

LEMMA ReportKeepsWaits ==
  ASSUME AnswerIInv, WaitIInv, NEW l, Report(l)
  PROVE  WaitIInv'
  <1>1. UNCHANGED <<flight, asked>>
    BY DEF Report
  <1>2. PICK report : reports' = Reading(l.source, report, App)
    BY DEF Report
  <1>3. \A g \in Flights : Own(g)' = Own(g)
    BY <1>2, OwnStays, OthersAreNoFlights
  <1> QED
    BY <1>1, <1>3, OtherFlightsWait

\* A flight whose failure is recorded goes on, and has no report any more.
LEMMA WriteKeepsWaits ==
  ASSUME AnswerIInv, WaitIInv, NEW r \in reports, Write(r)
  PROVE  WaitIInv'
  <1>1. UNCHANGED asked /\ reports' = reports \ {r}
    BY DEF Write
  <1>2. \A g \in Flights : Own(g)' = Own(g) \ {r}
    BY <1>1 DEF Own
  <1>3. CASE r.by \notin Flights
    <2>1. flight' = flight
      BY <1>3 DEF Write
    <2>2. \A g \in Flights : Own(g)' = Own(g)
      BY <1>2, <1>3 DEF Own
    <2> QED
      BY <1>1, <2>1, <2>2, OtherFlightsWait
  <1>4. CASE r.by \in Flights
    <2> DEFINE f == r.by
    <2>1. flight' = [flight EXCEPT ![f] = [flight[f] EXCEPT !.pc = "resolve"]]
      BY <1>4 DEF Write
    <2>2. [flight[f] EXCEPT !.pc = "resolve"].pc = "resolve"
      BY <1>4, FlightFields, StateFields DEF AnswerIInv
    <2>3. flight'[f].pc = "resolve" /\ \A g \in Flights : g # f => flight'[g] = flight[g]
      <3> DEFINE new == [flight[f] EXCEPT !.pc = "resolve"]
      <3>1. f \in Flights /\ flight' = [flight EXCEPT ![f] = new] /\ new.pc = "resolve"
        BY <1>4, <2>1, <2>2
      <3> HIDE DEF new, f
      <3> QED
        BY <3>1, FlightBecomes DEF AnswerIInv
    <2>4. Own(f) = {r}
      BY <1>4 DEF WaitIInv, Own
    <2>5. Own(f)' = {} /\ \A g \in Flights : g # f => Own(g)' = Own(g)
      BY <1>2, <1>4, <2>4 DEF Own
    <2>6. DOMAIN asked' = Flights
      BY <1>1 DEF WaitIInv
    <2> HIDE DEF f
    <2>7. ASSUME NEW g \in Flights
          PROVE  /\ flight'[g].pc = "failing" => \E q \in Own(g)' : Own(g)' = {q}
                 /\ flight'[g].pc # "failing" => Own(g)' = {}
                 /\ Listing(asked'[g])
                 /\ flight'[g].pc = "save" => \A p \in ProviderSet : Settled(asked'[g][p])
      <3>1. CASE g = f
        BY <1>1, <2>3, <2>5, <3>1 DEF WaitIInv
      <3>2. CASE g # f
        BY <1>1, <2>3, <2>5, <3>2 DEF WaitIInv
      <3> QED
        BY <3>1, <3>2
    <2> QED
      BY <2>6, <2>7 DEF WaitIInv
  <1> QED
    BY <1>3, <1>4

\* The row is gone: a flight is rejected with its report, and a process that ends
\* leaves none of either.
LEMMA MissedKeepsWaits ==
  ASSUME AnswerIInv, WaitIInv, NEW r \in reports, Missed(r)
  PROVE  WaitIInv'
  <1>1. Idle.pc = "idle" /\ Listing(NotAsked)
    BY DEF Idle, NotAsked, Listing, Asking
  <1>2. CASE r.by = Background
    <2>1. /\ reports' = {} /\ flight' = [f \in Flights |-> Idle]
          /\ asked' = [f \in Flights |-> NotAsked]
      BY <1>2 DEF Missed
    <2>2. DOMAIN asked' = Flights /\ \A g \in Flights :
              Own(g)' = {} /\ flight'[g] = Idle /\ asked'[g] = NotAsked
      BY <2>1 DEF Own
    <2> QED
      BY <1>1, <2>2 DEF WaitIInv
  <1>3. CASE r.by # Background
    <2>1. /\ reports' = reports \ {r} /\ UNCHANGED asked
          /\ flight' = [f \in Flights |-> IF f = r.by THEN Idle ELSE flight[f]]
      BY <1>3 DEF Missed
    <2>2. \A g \in Flights : Own(g)' = Own(g) \ {r}
      BY <2>1 DEF Own
    <2>3. r \in Own(r.by)
      BY DEF Own
    <2>4. ASSUME NEW g \in Flights
          PROVE  /\ flight'[g].pc = "failing" => \E q \in Own(g)' : Own(g)' = {q}
                 /\ flight'[g].pc # "failing" => Own(g)' = {}
                 /\ Listing(asked'[g])
                 /\ flight'[g].pc = "save" => \A p \in ProviderSet : Settled(asked'[g][p])
      <3>1. CASE g = r.by
        <4>1. Own(g) = {r}
          BY <2>3, <3>1 DEF WaitIInv
        <4>2. Own(g)' = {} /\ flight'[g] = Idle
          BY <2>1, <2>2, <3>1, <4>1
        <4> QED
          BY <1>1, <2>1, <4>2 DEF WaitIInv
      <3>2. CASE g # r.by
        <4>1. flight'[g] = flight[g]
          BY <2>1, <3>2
        <4>2. r \notin Own(g)
          BY <3>2 DEF Own
        <4>3. Own(g)' = Own(g)
          BY <2>2, <4>2
        <4> QED
          BY <2>1, <4>1, <4>3 DEF WaitIInv
      <3> QED
        BY <3>1, <3>2
    <2>5. DOMAIN asked' = Flights
      BY <2>1 DEF WaitIInv
    <2> QED
      BY <2>4, <2>5 DEF WaitIInv
  <1> QED
    BY <1>2, <1>3

LEMMA WaitsInitially == Init => WaitIInv
  <1> SUFFICES ASSUME Init
               PROVE  WaitIInv
    OBVIOUS
  <1>1. DOMAIN asked = Flights /\ \A g \in Flights :
            Own(g) = {} /\ flight[g] = Idle /\ asked[g] = NotAsked
    BY DEF Init, Own
  <1>2. Idle.pc = "idle" /\ Listing(NotAsked)
    BY DEF Idle, NotAsked, Listing, Asking
  <1> QED
    BY <1>1, <1>2 DEF WaitIInv

LEMMA StepKeepsWaits == AnswerIInv /\ WaitIInv /\ [Next]_vars => WaitIInv'
  <1> SUFFICES ASSUME AnswerIInv, WaitIInv, [Next]_vars
               PROVE  WaitIInv'
    OBVIOUS
  <1>1. CASE UNCHANGED <<flight, asked, reports>>
    <2>1. \A g \in Flights : Own(g)' = Own(g)
      BY <1>1 DEF Own
    <2> QED
      BY <1>1, <2>1, OtherFlightsWait
  <1>2. CASE UNCHANGED vars
    BY <1>1, <1>2 DEF vars
  <1>3. CASE Purge \/ Tick
    BY <1>1, <1>3 DEF Purge, Tick
  <1>4. CASE \E f \in Flights : Call(f)
    BY <1>4, CallKeepsWaits
  <1>5. CASE \E l \in DOMAIN active : Report(l)
    BY <1>5, ReportKeepsWaits
  <1>6. CASE Recorded
    BY <1>6, WriteKeepsWaits, MissedKeepsWaits DEF Recorded
  <1>7. CASE \E f \in Flights : Step(f)
    BY <1>7, CallKeepsWaits, DiscoverKeepsWaits, DiscoveredKeepsWaits, SavingKeepsWaits,
       ResolveKeepsWaits, FailKeepsWaits, FinishKeepsWaits DEF Step
  <1> QED
    BY <1>2, <1>3, <1>4, <1>5, <1>6, <1>7 DEF Next, UnderWay

LEMMA RanksAreNumbers == \A p \in ProviderSet : Rank(p) \in Nat
  <1>1. Providers \in Seq(STRING)
    BY SourceRegistryAssumption
  <1>2. \A p \in ProviderSet : \E i \in DOMAIN Providers : Providers[i] = p
    BY <1>1 DEF ProviderSet, ToSet
  <1>3. DOMAIN Providers \subseteq Nat
    BY <1>1
  <1> QED
    BY <1>2, <1>3 DEF Rank

\* resolveCandidates, discoverAndSave: nothing a flight waits for is missing, for any
\* providers, sources, languages and bounds: the failure it awaits has its report under way,
\* and while it saves there is a provider to save the sources of, or one to mark.
THEOREM NoFlightWaitsInVain == Spec => []NoFlightIsStuck
<1>1. AnswerIInv /\ WaitIInv => NoFlightIsStuck
  <2> SUFFICES ASSUME WaitIInv, NEW f \in Flights
               PROVE  /\ flight[f].pc = "failing" => \E r \in Own(f) : Own(f) = {r}
                      /\ flight[f].pc # "failing" => Own(f) = {}
                      /\ flight[f].pc = "save" /\ asked[f] # AllMarked =>
                             \E p \in ProviderSet :
                                 \/ asked[f][p].found # {}
                                 \/ /\ asked[f][p].st \in {"answered", "left out"}
                                    /\ \A q \in ProviderSet :
                                          /\ asked[f][q].found = {}
                                          /\ asked[f][q].st # "done" => Rank(p) <= Rank(q)
    BY Zenon DEF NoFlightIsStuck, Own
  <2>1. ASSUME flight[f].pc = "save", asked[f] # AllMarked,
               \A p \in ProviderSet : asked[f][p].found = {}
        PROVE  \E p \in ProviderSet :
                 /\ asked[f][p].st \in {"answered", "left out"}
                 /\ \A q \in ProviderSet : asked[f][q].st # "done" => Rank(p) <= Rank(q)
    <3> DEFINE Todo == {p \in ProviderSet : asked[f][p].st # "done"}
               Ranks == {Rank(p) : p \in Todo}
    <3>1. Todo # {}
      <4> SUFFICES ASSUME \A p \in ProviderSet : asked[f][p].st = "done"
                   PROVE  FALSE
        OBVIOUS
      <4>1. \A p \in ProviderSet : asked[f][p] = [st |-> "done", found |-> {}]
        BY <2>1 DEF WaitIInv, Listing, Asking
      <4>2. asked[f] = [p \in ProviderSet |-> asked[f][p]]
        BY DEF WaitIInv, Listing
      <4> QED
        BY <2>1, <4>1, <4>2 DEF AllMarked
    <3>2. \A p \in ProviderSet : Rank(p) \in Nat
      BY RanksAreNumbers
    <3>3. Ranks # {} /\ Ranks \in SUBSET Nat
      BY <3>1, <3>2
    <3>4. PICK k \in Ranks : \A j \in Ranks : k <= j
      <4> HIDE DEF Ranks
      <4> QED
        BY <3>3, LeastOf
    <3>5. PICK p \in Todo : Rank(p) = k
      BY <3>4
    <3>6. Settled(asked[f][p])
      BY <2>1, <3>5 DEF WaitIInv
    <3>7. \A q \in Todo : Rank(p) <= Rank(q)
      BY <3>4, <3>5
    <3> QED
      BY <3>5, <3>6, <3>7 DEF Settled
  <2> QED
    BY <2>1 DEF WaitIInv
<1> QED
  BY AnswersInitially, StepKeepsTypes, WaitsInitially, StepKeepsWaits, <1>1, PTL DEF Spec
=============================================================================
