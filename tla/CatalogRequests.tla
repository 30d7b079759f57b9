--------------------------- MODULE CatalogRequests ---------------------------
(***************************************************************************)
(* The requests for lists of titles and for a title: the middleware of the *)
(* catalogue, the controller, catalog.service.ts, the client of TMDB with  *)
(* its cache, and the search index with its synchronisation.  Whether TMDB *)
(* is asked for adult titles is a field of the one TmdbService, set by the *)
(* middleware and read when a request reaches the client.                  *)
(*                                                                         *)
(* A title is abstracted to its id, and a list to whether it was asked for *)
(* with adult titles and to what filterAvailable leaves of it.             *)
(***************************************************************************)
EXTENDS Unavailable

CONSTANTS
    Requests,     \* requests, one-shot
    MeiliHost,    \* MEILI_HOST is set
    SyncPages     \* SYNC_PAGES

ASSUME CatalogRequestsAssumption ==
    MeiliHost \in BOOLEAN /\ SyncPages \in Nat \ {0}

VARIABLES
    adultMode,      \* TmdbService
    adultUnlocked,  \* User, of the one account that asks
    request,        \* the requests
    cached,         \* TtlCache: the lists that are kept, with and without adult titles
    index,          \* the Meilisearch index: its documents, adult ones, and a primary key `id`
    sync            \* pages left of the synchronisation under way; lastSyncAt is recent

requestVars == <<adultMode, adultUnlocked, request, cached, index, sync>>

Kinds == {"popular", "search", "details", "streams"}

NoRequest == [pc |-> "none", kind |-> "popular", code |-> FALSE,
              entitled |-> FALSE, overtaken |-> FALSE, adult |-> FALSE, shows |-> {}]

Refused == [NoRequest EXCEPT !.pc = "refused"]

\* The index is one of another primary key (none at all comes to the same).
RequestsInit ==
    /\ adultMode = FALSE /\ adultUnlocked = FALSE
    /\ request = [r \in Requests |-> NoRequest]
    /\ cached = {}
    /\ index = [filled |-> TRUE, adult |-> FALSE, keyed |-> FALSE]
    /\ sync = [left |-> 0, recent |-> FALSE]

(***************************************************************************)
(* The middleware.                                                         *)
(***************************************************************************)
UnderWay(r) == request[r].pc \in {"user", "handle", "blocked", "index", "fetch"}

\* Request r writes the mode, and the others that are under way are overtaken.
Overtaking(r, new) ==
    [q \in Requests |-> IF q = r THEN new
                        ELSE [request[q] EXCEPT !.overtaken = @ \/ UnderWay(q)]]

\* Faulty variant of Arrive: the mode is left as the last request set it.
ArriveWithoutReset(r, kind, bearer, code) ==
    /\ request[r].pc = "none"
    /\ UNCHANGED adultMode
    /\ request' = Overtaking(r, [NoRequest EXCEPT
            !.pc = IF bearer THEN "user" ELSE "handle",
            !.kind = kind, !.code = code])
    /\ UNCHANGED <<adultUnlocked, cached, index, sync>>

\* AdultFilterMiddleware begins: the mode is off.  With a bearer its user is read;
\* a token that cannot be decoded goes on like none.
Arrive(r, kind, bearer, code) ==
    /\ request[r].pc = "none"
    /\ adultMode' = FALSE
    /\ request' = Overtaking(r, [NoRequest EXCEPT
            !.pc = IF bearer THEN "user" ELSE "handle",
            !.kind = kind, !.code = code])
    /\ UNCHANGED <<adultUnlocked, cached, index, sync>>

\* The user is read: the mode is on for one that has unlocked adult titles.
ReadUser(r) ==
    /\ request[r].pc = "user"
    /\ IF adultUnlocked
       THEN /\ adultMode' = TRUE
            /\ request' = Overtaking(r, [request[r] EXCEPT !.pc = "handle", !.entitled = TRUE])
       ELSE /\ UNCHANGED adultMode
            /\ request' = [request EXCEPT ![r].pc = "handle"]
    /\ UNCHANGED <<adultUnlocked, cached, index, sync>>

\* AdultUnlockController.toggle, with the right password.
ToggleAdult ==
    /\ adultUnlocked' = ~adultUnlocked
    /\ UNCHANGED <<adultMode, request, cached, index, sync>>

(***************************************************************************)
(* The controller.                                                         *)
(***************************************************************************)
\* checkUnlock of a search: the secret code turns the mode on.  A search asks the
\* index first; a title is looked up in the table first.
Handle(r) ==
    /\ request[r].pc = "handle"
    /\ LET q    == request[r]
           next == CASE q.kind = "search"                -> "index"
                     [] q.kind \in {"details", "streams"} -> "blocked"
                     [] q.kind = "popular"               -> "fetch"
       IN  IF q.kind = "search" /\ q.code
           THEN /\ adultMode' = TRUE
                /\ request' = Overtaking(r, [q EXCEPT !.pc = next, !.entitled = TRUE])
           ELSE /\ UNCHANGED adultMode
                /\ request' = [request EXCEPT ![r].pc = next]
    /\ UNCHANGED <<adultUnlocked, cached, index, sync>>

\* ensureSynced: a synchronisation begins in the background unless one is under
\* way or recent.
EnsureSynced ==
    IF MeiliHost /\ sync.left = 0 /\ ~sync.recent THEN [left |-> SyncPages, recent |-> TRUE] ELSE sync

\* getIndex: an index with another primary key is deleted and made again.
GetIndex == IF index.keyed THEN index ELSE [filled |-> FALSE, adult |-> FALSE, keyed |-> TRUE]

\* search: whether there are adult titles among the hits, if there are hits.
SearchHits == IF GetIndex.filled THEN {FALSE, GetIndex.adult} ELSE {}

\* searchMovies and searchSeries ask the index.  With hits they are the list; with
\* none, or when there is no index or it does not answer, TMDB is searched.
SearchIndex(r) ==
    /\ request[r].pc = "index"
    /\ sync' = EnsureSynced
    /\ \/ /\ request' = [request EXCEPT ![r].pc = "fetch"]
          /\ UNCHANGED index
       \/ /\ MeiliHost
          /\ index' = GetIndex
          /\ \/ request' = [request EXCEPT ![r].pc = "fetch"]
             \/ \E adult \in SearchHits :
                    request' = [request EXCEPT ![r].pc = "from index", ![r].adult = adult]
    /\ UNCHANGED <<adultMode, adultUnlocked, cached>>

\* The lists of TmdbService all go through its `get`, which makes the mode a part of
\* the URL, and so of the key of the cache.
ListOf(kind) == [kind |-> kind, adult |-> adultMode]

\* A list that is not kept is asked for, which may fail: then a list is refused, and
\* a search, which asks for several variants at once (fuzzySearch), finds nothing.
Fetch(r) ==
    /\ request[r].pc = "fetch"
    /\ LET list == ListOf(request[r].kind)
       IN  \/ /\ request' = [request EXCEPT ![r].pc = "filter", ![r].adult = adultMode]
              /\ cached' = cached \cup {list}
           \/ /\ list \notin cached
              /\ request' = IF list.kind = "search" THEN [request EXCEPT ![r].pc = "empty"]
                            ELSE [request EXCEPT ![r] = Refused]
              /\ UNCHANGED cached
    /\ UNCHANGED <<adultMode, adultUnlocked, index, sync>>

\* filterAvailable, and the answer.
Filter(r, type) ==
    /\ request[r].pc \in {"filter", "from index", "empty"}
    /\ LET q == request[r]
       IN  request' = [request EXCEPT ![r] = [NoRequest EXCEPT
            !.pc = CASE q.pc = "filter" -> "listed" [] q.pc = "from index" -> "listed from index"
                     [] q.pc = "empty" -> "listed nothing",
            !.entitled = q.entitled, !.overtaken = q.overtaken, !.adult = q.adult,
            !.shows = IF q.pc = "empty" THEN {} ELSE FilterAvailable(Ids, type)]]
    /\ UNCHANGED <<adultMode, adultUnlocked, cached, index, sync>>

\* getMovie and getSeries: a title that is hidden is not found.  Otherwise the details
\* are shown and a discovery begins in the background (Playback); when there are none,
\* a series is searched by its name, and shown whatever is found.
Details(r, id, type) ==
    /\ request[r].pc = "blocked" /\ request[r].kind = "details"
    /\ \/ request' = [request EXCEPT ![r] = Refused]
       \/ \E shown \in IF type = "series" THEN Ids ELSE {id} :
            /\ ~IsBlocked(id, type)
            /\ request' = [request EXCEPT ![r] = [NoRequest EXCEPT !.pc = "details", !.shows = {shown}]]
    /\ UNCHANGED <<adultMode, adultUnlocked, cached, index, sync>>

\* resolveMovie and resolveEpisode: the leases of a title that is not hidden (Playback),
\* or an error when there are none.
Streams(r, id, type) ==
    /\ request[r].pc = "blocked" /\ request[r].kind = "streams"
    /\ \/ request' = [request EXCEPT ![r] = Refused]
       \/ /\ ~IsBlocked(id, type)
          /\ request' = [request EXCEPT ![r] = [NoRequest EXCEPT !.pc = "streams", !.shows = {id}]]
    /\ UNCHANGED <<adultMode, adultUnlocked, cached, index, sync>>

(***************************************************************************)
(* The synchronisation of the index.                                       *)
(***************************************************************************)
\* A page of the popular lists, asked for with the mode of the moment, is added to
\* the index; what fails ends the synchronisation until the next six hours.
SyncPage ==
    /\ sync.left > 0
    /\ \/ /\ index' = [filled |-> TRUE, adult |-> GetIndex.adult \/ adultMode, keyed |-> TRUE]
          /\ sync' = [sync EXCEPT !.left = @ - 1]
          /\ cached' = cached \cup {ListOf("popular")}
       \/ sync' = [sync EXCEPT !.left = 0] /\ UNCHANGED <<index, cached>>
    /\ UNCHANGED <<adultMode, adultUnlocked, request>>

\* Ten minutes, and six hours.
RequestsTick ==
    /\ cached' = {} /\ sync' = [sync EXCEPT !.recent = FALSE]
    /\ UNCHANGED <<adultMode, adultUnlocked, request, index>>

\* The process ends: the index and the users are elsewhere.
RequestsLost ==
    /\ adultMode' = FALSE /\ cached' = {} /\ sync' = [left |-> 0, recent |-> FALSE]
    /\ request' = [r \in Requests |-> IF request[r].pc = "none" THEN NoRequest
                                      ELSE Refused]
    /\ UNCHANGED <<adultUnlocked, index>>

RequestStep ==
    \/ \E r \in Requests :
        \/ ReadUser(r) \/ Handle(r) \/ SearchIndex(r) \/ Fetch(r)
        \/ \E type \in ContentTypes : Filter(r, type)
        \/ \E id \in Ids, type \in {"movie", "series"} : Details(r, id, type) \/ Streams(r, id, type)
    \/ SyncPage
=============================================================================
