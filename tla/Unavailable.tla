----------------------------- MODULE Unavailable -----------------------------
(***************************************************************************)
(* The titles that are hidden because nobody provides them                 *)
(* (catalog-unavailable.service.ts, its job and its routes of the          *)
(* administration).  A row is kept per title and content type; a check     *)
(* asks the providers for every episode and puts the row in or takes it    *)
(* out.  The steps of a check end at its awaits.                           *)
(***************************************************************************)
EXTENDS Integers, FiniteSets

CONSTANTS
    Ids,             \* TMDB ids
    MaxEpisodes,     \* bound: the episodes of a show
    CheckConcurrency, MaxEpisodesPerCheck,
    Checks           \* the checks that may be under way

ASSUME UnavailableAssumption ==
    {MaxEpisodes, CheckConcurrency, MaxEpisodesPerCheck} \subseteq Nat \ {0}

ContentTypes == {"movie", "series", "anime"}

Keys == Ids \X ContentTypes

VARIABLES
    unavailable,   \* CatalogUnavailable; due: nextCheckAt has passed
    check,         \* the checks
    unawaited,     \* the upserts a check has sent and does not wait for
    \* history
    verdict,       \* what the last operation on a title says, if it ran alone
    crowd          \* operations on a title, two at most, since it was last at rest

unavailableVars == <<unavailable, check, unawaited, verdict, crowd>>

Absent == [listed |-> FALSE, due |-> FALSE]

Renewed == [listed |-> TRUE, due |-> FALSE]

\* A check of the administration has one title, a run of the job all those due.
NoCheck == [pc |-> "none", by |-> "admin", due |-> {}, key |-> <<>>, left |-> 0, asked |-> 0, found |-> FALSE]

UnavailableInit ==
    /\ unavailable = [k \in Keys |-> Absent]
    /\ check = [c \in Checks |-> NoCheck]
    /\ unawaited = {}
    /\ verdict = [k \in Keys |-> "any"]
    /\ crowd = [k \in Keys |-> 0]

\* Faulty variant of NormalizeContentType: an anime has a row of its own.
KeepContentType(type) == type

\* normalizeContentType: an anime is a series.
NormalizeContentType(type) == IF type = "movie" THEN "movie" ELSE "series"

KeyOf(id, type) == <<id, NormalizeContentType(type)>>

\* The title an operation is about, whatever row the code makes of it.
TitleOf(id, type) == <<id, IF type = "movie" THEN "movie" ELSE "series">>

(***************************************************************************)
(* History: a title is at rest when no operation on it is under way.  The  *)
(* verdict of an operation stands if it was alone until the next rest.     *)
(***************************************************************************)
Busy(k) == \/ \E c \in Checks : check[c].pc # "none" /\ check[c].key # <<>>
                                    /\ TitleOf(check[c].key[1], check[c].key[2]) = k
           \/ \E u \in unawaited : TitleOf(u[1], u[2]) = k

\* An operation of several steps begins.
Enters(k) ==
    /\ crowd' = [crowd EXCEPT ![k] = IF Busy(k) THEN 2 ELSE 1]
    /\ verdict' = [verdict EXCEPT ![k] = IF Busy(k) THEN "any" ELSE @]

\* It says v of k at its end.
Concludes(k, v) ==
    /\ verdict' = [verdict EXCEPT ![k] = IF crowd[k] = 1 THEN v ELSE "any"]
    /\ UNCHANGED crowd

\* An operation of one step says v of k.
Says(k, v) ==
    /\ crowd' = [crowd EXCEPT ![k] = IF Busy(k) THEN 2 ELSE @]
    /\ verdict' = [verdict EXCEPT ![k] = IF Busy(k) THEN "any" ELSE v]

(***************************************************************************)
(* The table.                                                              *)
(***************************************************************************)
\* register, by hand: the row is made or renewed.
RegisterUnavailable(id, type) ==
    /\ unavailable' = [unavailable EXCEPT ![KeyOf(id, type)] = Renewed]
    /\ Says(TitleOf(id, type), "listed")
    /\ UNCHANGED <<check, unawaited>>

\* remove, by hand: the content type is taken as it comes, and with no such row
\* the request fails.
RemoveUnavailable(id, type) ==
    /\ unavailable[<<id, type>>].listed
    /\ unavailable' = [unavailable EXCEPT ![<<id, type>>] = Absent]
    /\ Says(TitleOf(id, type), "free")
    /\ UNCHANGED <<check, unawaited>>

\* isBlocked and filterAvailable: what a request asks of the table.
IsBlocked(id, type) == unavailable[<<id, type>>].listed

FilterAvailable(items, type) == {id \in items : ~unavailable[KeyOf(id, type)].listed}

\* Thirty days: every row is due.
UnavailableTick ==
    /\ unavailable' = [k \in Keys |->
            IF unavailable[k].listed THEN [unavailable[k] EXCEPT !.due = TRUE] ELSE Absent]
    /\ UNCHANGED <<check, unawaited, verdict, crowd>>

(***************************************************************************)
(* Checks.                                                                 *)
(***************************************************************************)
\* unavailableCheck of the administration.
StartCheck(c, id, type) ==
    /\ check[c].pc = "none"
    /\ check' = [check EXCEPT ![c] = [NoCheck EXCEPT !.pc = "enumerate", !.key = <<id, type>>]]
    /\ Enters(TitleOf(id, type))
    /\ UNCHANGED <<unavailable, unawaited>>

\* The rows recheckDue reads.
Due == {k \in Keys : unavailable[k].listed /\ unavailable[k].due}

\* recheckDue begins, by the timer of the job or by the administration.
StartRecheck(c) ==
    /\ check[c].pc = "none" /\ Due # {}
    /\ check' = [check EXCEPT ![c] = [NoCheck EXCEPT !.pc = "next", !.by = "job", !.due = Due]]
    /\ UNCHANGED <<unavailable, unawaited, verdict, crowd>>

\* The loop of recheckDue takes a row (and metadataFor its title and poster).
NextDue(c) ==
    /\ check[c].pc = "next"
    /\ \/ /\ check[c].due = {}
          /\ check' = [check EXCEPT ![c] = NoCheck]
          /\ UNCHANGED <<verdict, crowd>>
       \/ \E k \in check[c].due :
          /\ check' = [check EXCEPT ![c] = [NoCheck EXCEPT !.pc = "enumerate", !.by = "job",
                            !.due = check[c].due \ {k}, !.key = k]]
          /\ Enters(TitleOf(k[1], k[2]))
    /\ UNCHANGED <<unavailable, unawaited>>

\* The episodes of every season; when the catalogue fails, the first episode of
\* the first season stands for them.  A film has one.
Enumerate(c) ==
    /\ check[c].pc = "enumerate"
    /\ \E n \in IF NormalizeContentType(check[c].key[2]) = "movie" THEN {1} ELSE 0..MaxEpisodes :
        check' = [check EXCEPT ![c].pc = "discover", ![c].left = n]
    /\ UNCHANGED <<unavailable, unawaited, verdict, crowd>>

\* checkTitle: the check of a show stops at its limit, or has nothing to ask for.
Partial(ck) ==
    /\ NormalizeContentType(ck.key[2]) # "movie" /\ ~ck.found
    /\ ck.asked = 0 \/ ck.asked >= MaxEpisodesPerCheck

Lists(ck) == ~ck.found /\ ~Partial(ck)

\* discoverAndCountSources of a batch of episodes, at every provider: some source,
\* or none, as when the providers fail.
DiscoverAndCountSources(batch) == IF batch = 0 THEN {FALSE} ELSE BOOLEAN

\* The next batch of episodes is looked for.  After the last batch an upsert is sent for
\* a title without sources, and not waited for.
DiscoverBatch(c) ==
    /\ check[c].pc = "discover"
    /\ \E found \in BOOLEAN :
        LET batch == IF check[c].left < CheckConcurrency THEN check[c].left ELSE CheckConcurrency
            ck    == [check[c] EXCEPT !.left = @ - batch, !.asked = @ + batch, !.found = found]
            over  == ck.found \/ ck.left = 0 \/ Partial(ck)
        IN  /\ found \in DiscoverAndCountSources(batch)
            /\ check' = [check EXCEPT ![c] = [ck EXCEPT !.pc = IF over THEN "apply" ELSE "discover"]]
            /\ unawaited' = IF over /\ Lists(ck) THEN unawaited \cup {KeyOf(ck.key[1], ck.key[2])}
                            ELSE unawaited
    /\ UNCHANGED <<unavailable, verdict, crowd>>

\* The caller applies the result: with sources the row goes; without, the
\* administration makes it (again) and the job sets its next check, which fails
\* if it is gone.
Apply(c) ==
    /\ check[c].pc = "apply"
    /\ LET ck  == check[c]
           k   == KeyOf(ck.key[1], ck.key[2])
           row == unavailable[k]
       IN  /\ unavailable' = [unavailable EXCEPT ![k] =
                CASE ck.found                                    -> Absent
                  [] ck.by = "admin" /\ Lists(ck)                -> Renewed
                  [] ck.by = "job" /\ ~ck.found /\ row.listed    -> [row EXCEPT !.due = FALSE]
                  [] OTHER                                       -> row]
           /\ Concludes(TitleOf(ck.key[1], ck.key[2]),
                        CASE ck.found  -> "free"
                          [] Lists(ck) -> "listed"
                          [] OTHER     -> verdict[TitleOf(ck.key[1], ck.key[2])])
           /\ check' = [check EXCEPT ![c] = IF ck.by = "admin" THEN NoCheck
                                            ELSE [NoCheck EXCEPT !.pc = "next", !.by = "job", !.due = ck.due]]
    /\ UNCHANGED unawaited

\* An upsert that nobody waits for is written.
WriteUnawaited ==
    \E k \in unawaited :
        /\ unavailable' = [unavailable EXCEPT ![k] = Renewed]
        /\ unawaited' = unawaited \ {k}
        /\ UNCHANGED <<check, verdict, crowd>>

\* The process ends: what it had under way is not written.
UnavailableLost ==
    /\ check' = [c \in Checks |-> NoCheck]
    /\ unawaited' = {}
    /\ verdict' = [k \in Keys |-> IF Busy(k) THEN "any" ELSE verdict[k]]
    /\ UNCHANGED <<unavailable, crowd>>

UnavailableStep ==
    \/ \E c \in Checks : NextDue(c) \/ Enumerate(c) \/ DiscoverBatch(c) \/ Apply(c)
    \/ WriteUnawaited
=============================================================================
