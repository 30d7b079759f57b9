---------------------------- MODULE ServerProofs ----------------------------
(***************************************************************************)
(* Proofs about Server, for any numbers of requests, checks, clerks and    *)
(* titles, and playlists nested to any depth.  Each part has an inductive  *)
(* invariant of its own, and the steps of the other parts leave it alone.  *)
(***************************************************************************)
EXTENDS Server, FiniteSetTheorems, WellFoundedInduction, TLAPS

-----------------------------------------------------------------------------
\* The stream proxy: what a player may hold, and where it may be led.
PlayerStates ==
    [pc : {"idle", "asks", "has lines", "over"}, host : Hosts,
     to : {"nowhere", "relative", "cdn", "proxy", "playlist"}, depth : Nat,
     lines : SUBSET [place : Places, to : {"relative", "cdn", "proxy"}], direct : BOOLEAN]

\* The URLs of a locked stream are those of the server or stay relative; those
\* of another stream never lead to the proxy.
StreamIInv ==
    /\ player \in PlayerStates
    /\ player.host = "locked" /\ PublicBaseUrl =>
           /\ ~player.direct
           /\ player.pc = "asks" => player.to # "cdn"
           /\ \A l \in player.lines : l.to # "cdn"
    /\ player.host # "locked" =>
           /\ player.to # "proxy"
           /\ \A l \in player.lines : l.to # "proxy"

\* tunnelizeUrls and resolveRelativeUrls: a line that is rewritten is a line, and
\* leads to the proxy, if at all, exactly with the tunnel and not to the host then.
LEMMA RewrittenLines ==
    ASSUME NEW content \in SUBSET Lines, NEW tunnel \in BOOLEAN, PublicBaseUrl \in BOOLEAN
    PROVE  /\ Rewritten(content, tunnel) \in SUBSET [place : Places, to : {"relative", "cdn", "proxy"}]
           /\ tunnel /\ PublicBaseUrl => \A l \in Rewritten(content, tunnel) : l.to # "cdn"
           /\ ~tunnel => \A l \in Rewritten(content, tunnel) : l.to # "proxy"
<1>1. ASSUME NEW l \in Lines
      PROVE  /\ ResolveRelativeUrl(l) \in Lines
             /\ TunnelizeUrl(ResolveRelativeUrl(l)) \in [place : Places, to : {"relative", "cdn", "proxy"}]
             /\ PublicBaseUrl => TunnelizeUrl(ResolveRelativeUrl(l)).to # "cdn"
  BY <1>1 DEF Lines, ResolveRelativeUrl, TunnelizeUrl
<1>2. \A l \in Lines : l \in [place : Places, to : {"relative", "cdn", "proxy"}] /\ l.to # "proxy"
  BY DEF Lines
<1> QED
  BY <1>1, <1>2 DEF Rewritten

LEMMA StreamInitially == Init => StreamIInv
  BY DEF Init, StreamInit, NoPlayer, StreamIInv, PlayerStates, Hosts

LEMMA StreamStepKeeps == ServerAssumption /\ StreamProxyAssumption /\ StreamIInv /\ [Next]_vars => StreamIInv'
<1> SUFFICES ASSUME StreamProxyAssumption, StreamIInv, [Next]_vars
             PROVE  StreamIInv'
  OBVIOUS
<1>0. CASE UNCHANGED player
  BY <1>0 DEF StreamIInv
<1>1. CASE CatalogueNext \/ TokenNext \/ OfficeNext \/ UNCHANGED vars
  BY <1>1, <1>0 DEF CatalogueNext, TokenNext, OfficeNext, vars
<1>2. ASSUME NEW host \in Hosts, Play(host)
      PROVE  StreamIInv'
  <2>1. /\ NoPlayer \in PlayerStates
        /\ player' = [NoPlayer EXCEPT !.pc = "asks", !.host = host,
                        !.to = IF host = "nsrplay" THEN WrapPlaylist(host) ELSE TunnelIfLocked(host)]
    BY <1>2 DEF Play, NoPlayer, PlayerStates, Hosts
  <2> QED
    BY <2>1, <1>2 DEF StreamIInv, NoPlayer, PlayerStates, Hosts, WrapPlaylist, TunnelIfLocked
<1>3. ASSUME NEW content \in SUBSET Lines, NEW tunnel \in BOOLEAN, Serve(content, tunnel),
             player.host = "locked" <=> tunnel
      PROVE  StreamIInv'
  <2> DEFINE new == Rewritten(content, tunnel)
  <2>1. /\ new \in SUBSET [place : Places, to : {"relative", "cdn", "proxy"}]
        /\ tunnel /\ PublicBaseUrl => \A l \in new : l.to # "cdn"
        /\ ~tunnel => \A l \in new : l.to # "proxy"
    BY RewrittenLines DEF StreamProxyAssumption
  <2>2. player' = [player EXCEPT !.pc = "has lines", !.lines = new]
    BY <1>3 DEF Serve
  <2> HIDE DEF new
  <2> QED
    BY <2>1, <2>2, <1>3 DEF StreamIInv, PlayerStates
<1>4. CASE player' = Over
  BY <1>4 DEF Over, StreamIInv, PlayerStates
<1>5. CASE Playlist
  <2>1. (player.host = "locked") \in BOOLEAN
    OBVIOUS
  <2> QED
    BY <1>5, <1>3, <1>4, <2>1 DEF Playlist
<1>6. CASE Proxy
  <2>1. player.host = "locked"
    BY <1>6 DEF Proxy, StreamIInv
  <2> QED
    BY <1>6, <1>3, <1>4, <2>1 DEF Proxy
<1>7. CASE AskDirectly
  BY <1>7 DEF AskDirectly, Over, StreamIInv, PlayerStates
<1>8. CASE AskNothing
  BY <1>8, <1>4 DEF AskNothing
<1>9. CASE Follow
  <2>1. CASE player.lines = {} /\ player' = Over
    BY <2>1, <1>4
  <2>2. ASSUME NEW l \in player.lines, player.pc = "has lines",
               player' = [player EXCEPT !.pc = "asks", !.to = l.to, !.depth = @ + 1, !.lines = {}]
        PROVE  StreamIInv'
    <3>0. player.lines \in SUBSET [place : Places, to : {"relative", "cdn", "proxy"}]
      BY DEF StreamIInv, PlayerStates
    <3>1. l \in [place : Places, to : {"relative", "cdn", "proxy"}]
      BY <3>0
    <3>2. player.depth \in Nat
      BY DEF StreamIInv, PlayerStates
    <3> DEFINE deeper == player.depth + 1
    <3>3. deeper \in Nat
      BY <3>2
    <3>4. player' = [player EXCEPT !.pc = "asks", !.to = l.to, !.depth = deeper, !.lines = {}]
      BY <2>2
    <3> HIDE DEF deeper
    <3>5. player' \in PlayerStates
      BY <3>1, <3>3, <3>4 DEF StreamIInv, PlayerStates
    <3> QED
      BY <2>2, <3>1, <3>4, <3>5 DEF StreamIInv, PlayerStates
  <2> QED
    BY <1>9, <2>1, <2>2 DEF Follow
<1> QED
  BY <1>1, <1>2, <1>5, <1>6, <1>7, <1>8, <1>9 DEF Next, StreamNext, StreamStep

\* tunnelIfLocked, playlist and proxy: the host of a locked stream is asked by the server
\* only, at any level of its playlists, and no other stream goes through the tunnel.
THEOREM LockedStreamsAreTunnelled == Spec => []TunnelIsKept
<1>1. StreamIInv => TunnelIsKept
  BY DEF StreamIInv, TunnelIsKept
<1> QED
  BY StreamInitially, StreamStepKeeps, ServerAssumption, StreamProxyAssumption, <1>1, PTL DEF Spec

-----------------------------------------------------------------------------
\* The requests for lists.  Fits: what a request that nobody has overtaken knows of
\* the mode of adult titles.
RequestPcs == {"none", "user", "handle", "blocked", "index", "fetch", "filter", "from index",
               "empty", "listed", "listed from index", "listed nothing", "details", "streams",
               "refused"}

RequestStates ==
    [pc : RequestPcs, kind : Kinds, code : BOOLEAN, entitled : BOOLEAN, overtaken : BOOLEAN,
     adult : BOOLEAN, shows : SUBSET Ids]

AskingStates == {"user", "handle", "blocked", "index", "fetch"}

Fits(mode, q) ==
    ~q.overtaken => /\ q.pc \in AskingStates => mode = q.entitled
                    /\ q.pc \in {"filter", "listed"} => q.adult = q.entitled

AdultTypes ==
    /\ request \in [Requests -> RequestStates]
    /\ adultMode \in BOOLEAN
    /\ index \in [filled : BOOLEAN, adult : BOOLEAN, keyed : BOOLEAN]

\* While a request is under way the mode is the one it may have, and its list keeps it.
AdultIInv == AdultTypes /\ \A r \in Requests : Fits(adultMode, request[r])

\* A request that writes the mode overtakes those that are under way.
LEMMA OvertakingFits ==
    ASSUME AdultIInv, NEW r \in Requests, NEW new \in RequestStates, NEW mode \in BOOLEAN,
           Fits(mode, new)
    PROVE  /\ Overtaking(r, new) \in [Requests -> RequestStates]
           /\ \A q \in Requests : Fits(mode, Overtaking(r, new)[q])
<1>1. ASSUME NEW q \in Requests
      PROVE  /\ Overtaking(r, new)[q] \in RequestStates
             /\ Fits(mode, Overtaking(r, new)[q])
  <2> DEFINE over == request[q].overtaken \/ UnderWay(q)
             old  == request[q]
  <2>1. /\ old \in RequestStates /\ over \in BOOLEAN
        /\ Fits(adultMode, old)
    BY DEF AdultIInv, AdultTypes
  <2>2. Overtaking(r, new)[q] = IF q = r THEN new ELSE [old EXCEPT !.overtaken = over]
    BY DEF Overtaking
  <2>3. ~over => ~old.overtaken /\ old.pc \notin AskingStates
    BY DEF UnderWay, AskingStates
  <2> HIDE DEF over, old
  <2>4. [old EXCEPT !.overtaken = over] \in RequestStates
    BY <2>1 DEF RequestStates
  <2>5. Fits(mode, [old EXCEPT !.overtaken = over])
    BY <2>1, <2>3 DEF Fits, RequestStates
  <2> QED
    BY <2>2, <2>4, <2>5
<1> QED
  BY <1>1 DEF Overtaking

\* A request goes on without writing the mode.
LEMMA GoingOnFits ==
    ASSUME AdultIInv, NEW r \in Requests, NEW new \in RequestStates, Fits(adultMode, new),
           request' = [request EXCEPT ![r] = new], UNCHANGED adultMode,
           index' \in [filled : BOOLEAN, adult : BOOLEAN, keyed : BOOLEAN]
    PROVE  AdultIInv'
<1>1. AdultTypes'
  BY DEF AdultIInv, AdultTypes
<1>2. \A q \in Requests : Fits(adultMode, request'[q])
  BY DEF AdultIInv, AdultTypes
<1> QED
  BY <1>1, <1>2 DEF AdultIInv

LEMMA NoRequestIsTyped ==
    /\ NoRequest \in RequestStates /\ Refused \in RequestStates
    /\ ~NoRequest.entitled /\ ~NoRequest.overtaken
    /\ NoRequest.pc = "none" /\ Refused.pc = "refused"
  BY DEF NoRequest, Refused, RequestStates, RequestPcs, Kinds

LEMMA AdultInitially == Init => AdultIInv
<1>0. Init => RequestsInit
  BY DEF Init
<1>1. RequestsInit => AdultTypes
  <2>1. [filled |-> TRUE, adult |-> FALSE, keyed |-> FALSE]
            \in [filled : BOOLEAN, adult : BOOLEAN, keyed : BOOLEAN]
    OBVIOUS
  <2>2. [r \in Requests |-> NoRequest] \in [Requests -> RequestStates]
    BY NoRequestIsTyped
  <2> QED
    BY <2>1, <2>2 DEF RequestsInit, AdultTypes
<1>2. RequestsInit => \A r \in Requests : Fits(adultMode, request[r])
  BY DEF RequestsInit, NoRequest, Fits, AskingStates
<1> QED
  BY <1>0, <1>1, <1>2 DEF AdultIInv

LEMMA ArriveKeepsAdult ==
    ASSUME AdultIInv, NEW r \in Requests, NEW kind \in Kinds, NEW bearer \in BOOLEAN,
           NEW code \in BOOLEAN, Arrive(r, kind, bearer, code)
    PROVE  AdultIInv'
<1> DEFINE new == [NoRequest EXCEPT !.pc = IF bearer THEN "user" ELSE "handle",
                                    !.kind = kind, !.code = code]
<1>1. new \in RequestStates /\ Fits(FALSE, new)
  BY NoRequestIsTyped DEF RequestStates, RequestPcs, Fits, AskingStates
<1>2. request' = Overtaking(r, new) /\ adultMode' = FALSE /\ UNCHANGED index
  BY DEF Arrive
<1> HIDE DEF new
<1> QED
  BY <1>1, <1>2, OvertakingFits DEF AdultIInv, AdultTypes

LEMMA ReadUserKeepsAdult ==
    ASSUME AdultIInv, NEW r \in Requests, ReadUser(r)
    PROVE  AdultIInv'
<1>1. CASE adultUnlocked
  <2> DEFINE new == [request[r] EXCEPT !.pc = "handle", !.entitled = TRUE]
  <2>1. request[r] \in RequestStates /\ request[r].pc = "user"
    BY DEF AdultIInv, AdultTypes, ReadUser
  <2>2. new \in RequestStates /\ Fits(TRUE, new)
    BY <2>1 DEF RequestStates, RequestPcs, Fits
  <2>3. request' = Overtaking(r, new) /\ adultMode' = TRUE /\ UNCHANGED index
    BY <1>1 DEF ReadUser
  <2> HIDE DEF new
  <2> QED
    BY <2>2, <2>3, OvertakingFits DEF AdultIInv, AdultTypes
<1>2. CASE ~adultUnlocked
  <2> DEFINE new == [request[r] EXCEPT !.pc = "handle"]
  <2>1. request[r] \in RequestStates /\ request[r].pc = "user" /\ Fits(adultMode, request[r])
    BY DEF AdultIInv, AdultTypes, ReadUser
  <2>2. new \in RequestStates /\ Fits(adultMode, new)
    BY <2>1 DEF RequestStates, RequestPcs, Fits, AskingStates
  <2>3. request' = [request EXCEPT ![r] = new] /\ UNCHANGED <<adultMode, index>>
    BY <1>2 DEF ReadUser
  <2> HIDE DEF new
  <2> QED
    BY <2>2, <2>3, GoingOnFits DEF AdultIInv, AdultTypes
<1> QED
  BY <1>1, <1>2

LEMMA HandleKeepsAdult ==
    ASSUME AdultIInv, NEW r \in Requests, Handle(r)
    PROVE  AdultIInv'
<1> DEFINE next == CASE request[r].kind = "search"                 -> "index"
                     [] request[r].kind \in {"details", "streams"} -> "blocked"
                     [] request[r].kind = "popular"                -> "fetch"
<1>1. request[r] \in RequestStates /\ request[r].pc = "handle" /\ Fits(adultMode, request[r])
  BY DEF AdultIInv, AdultTypes, Handle
<1>2. next \in AskingStates
  BY <1>1 DEF RequestStates, RequestPcs, Kinds, AskingStates
<1>3. CASE request[r].kind = "search" /\ request[r].code
  <2> DEFINE new == [request[r] EXCEPT !.pc = next, !.entitled = TRUE]
  <2>1. request' = Overtaking(r, new) /\ adultMode' = TRUE /\ UNCHANGED index
    BY <1>3 DEF Handle
  <2> HIDE DEF next
  <2>2. new \in RequestStates /\ Fits(TRUE, new)
    BY <1>1, <1>2 DEF RequestStates, RequestPcs, Fits, AskingStates
  <2> HIDE DEF new
  <2> QED
    BY <2>1, <2>2, OvertakingFits DEF AdultIInv, AdultTypes
<1>4. CASE ~(request[r].kind = "search" /\ request[r].code)
  <2> DEFINE new == [request[r] EXCEPT !.pc = next]
  <2>1. request' = [request EXCEPT ![r] = new] /\ UNCHANGED <<adultMode, index>>
    BY <1>4 DEF Handle
  <2> HIDE DEF next
  <2>2. new \in RequestStates /\ Fits(adultMode, new)
    BY <1>1, <1>2 DEF RequestStates, RequestPcs, Fits, AskingStates
  <2> HIDE DEF new
  <2> QED
    BY <2>1, <2>2, GoingOnFits DEF AdultIInv, AdultTypes
<1> QED
  BY <1>3, <1>4

\* The index stays an index.
LEMMA IndexIsTyped ==
    ASSUME AdultIInv
    PROVE  /\ GetIndex \in [filled : BOOLEAN, adult : BOOLEAN, keyed : BOOLEAN]
           /\ SearchHits \subseteq BOOLEAN
  BY DEF AdultIInv, AdultTypes, GetIndex, SearchHits

LEMMA SearchIndexKeepsAdult ==
    ASSUME AdultIInv, NEW r \in Requests, SearchIndex(r)
    PROVE  AdultIInv'
<1>1. request[r] \in RequestStates /\ request[r].pc = "index" /\ Fits(adultMode, request[r])
  BY DEF AdultIInv, AdultTypes, SearchIndex
<1>2. UNCHANGED adultMode /\ index' \in [filled : BOOLEAN, adult : BOOLEAN, keyed : BOOLEAN]
  BY IndexIsTyped DEF SearchIndex, AdultIInv, AdultTypes
<1>3. CASE request' = [request EXCEPT ![r].pc = "fetch"]
  <2> DEFINE new == [request[r] EXCEPT !.pc = "fetch"]
  <2>1. new \in RequestStates /\ Fits(adultMode, new)
    BY <1>1 DEF RequestStates, RequestPcs, Fits, AskingStates
  <2>2. request' = [request EXCEPT ![r] = new]
    BY <1>3
  <2> HIDE DEF new
  <2> QED
    BY <2>1, <2>2, <1>2, GoingOnFits
<1>4. ASSUME NEW adult \in SearchHits,
             request' = [request EXCEPT ![r].pc = "from index", ![r].adult = adult]
      PROVE  AdultIInv'
  <2> DEFINE new == [request[r] EXCEPT !.pc = "from index", !.adult = adult]
  <2>1. adult \in BOOLEAN
    BY IndexIsTyped
  <2>2. new \in RequestStates /\ Fits(adultMode, new)
    BY <1>1, <2>1 DEF RequestStates, RequestPcs, Fits, AskingStates
  <2>3. request' = [request EXCEPT ![r] = new]
    BY <1>1, <1>4 DEF AdultIInv, AdultTypes
  <2> HIDE DEF new
  <2> QED
    BY <2>2, <2>3, <1>2, GoingOnFits
<1> QED
  BY <1>3, <1>4 DEF SearchIndex

LEMMA FetchKeepsAdult ==
    ASSUME AdultIInv, NEW r \in Requests, Fetch(r)
    PROVE  AdultIInv'
<1>1. request[r] \in RequestStates /\ request[r].pc = "fetch" /\ Fits(adultMode, request[r])
  BY DEF AdultIInv, AdultTypes, Fetch
<1>2. /\ adultMode \in BOOLEAN /\ UNCHANGED <<adultMode, index>>
      /\ index \in [filled : BOOLEAN, adult : BOOLEAN, keyed : BOOLEAN]
  BY DEF Fetch, AdultIInv, AdultTypes
<1>3. CASE request' = [request EXCEPT ![r].pc = "filter", ![r].adult = adultMode]
  <2> DEFINE new == [request[r] EXCEPT !.pc = "filter", !.adult = adultMode]
  <2>1. new \in RequestStates /\ Fits(adultMode, new)
    BY <1>1, <1>2 DEF RequestStates, RequestPcs, Fits, AskingStates
  <2>2. request' = [request EXCEPT ![r] = new]
    BY <1>1, <1>3 DEF AdultIInv, AdultTypes
  <2> HIDE DEF new
  <2> QED
    BY <2>1, <2>2, <1>2, GoingOnFits
<1>4. CASE request' = [request EXCEPT ![r].pc = "empty"]
  <2> DEFINE new == [request[r] EXCEPT !.pc = "empty"]
  <2>1. new \in RequestStates /\ Fits(adultMode, new)
    BY <1>1 DEF RequestStates, RequestPcs, Fits, AskingStates
  <2>2. request' = [request EXCEPT ![r] = new]
    BY <1>4
  <2> HIDE DEF new
  <2> QED
    BY <2>1, <2>2, <1>2, GoingOnFits
<1>5. CASE request' = [request EXCEPT ![r] = Refused]
  <2>1. Fits(adultMode, Refused)
    BY NoRequestIsTyped DEF Fits, AskingStates
  <2> QED
    BY <2>1, <1>2, <1>5, NoRequestIsTyped, GoingOnFits
<1> QED
  BY <1>3, <1>4, <1>5 DEF Fetch

LEMMA FilterKeepsAdult ==
    ASSUME AdultIInv, NEW r \in Requests, NEW type \in ContentTypes, Filter(r, type)
    PROVE  AdultIInv'
<1> DEFINE q    == request[r]
           pc   == CASE q.pc = "filter" -> "listed" [] q.pc = "from index" -> "listed from index"
                     [] q.pc = "empty" -> "listed nothing"
           shows == IF q.pc = "empty" THEN {} ELSE FilterAvailable(Ids, type)
           new  == [NoRequest EXCEPT !.pc = pc, !.entitled = q.entitled,
                        !.overtaken = q.overtaken, !.adult = q.adult, !.shows = shows]
<1>1. q \in RequestStates /\ q.pc \in {"filter", "from index", "empty"} /\ Fits(adultMode, q)
  BY DEF AdultIInv, AdultTypes, Filter
<1>2. shows \subseteq Ids
  BY DEF FilterAvailable
<1>3. pc \in RequestPcs /\ pc \notin AskingStates /\ (pc = "listed" => q.pc = "filter") /\ pc # "filter"
  BY <1>1 DEF AskingStates, RequestPcs
<1>4. request' = [request EXCEPT ![r] = new] /\ UNCHANGED <<adultMode, index>>
  BY DEF Filter
<1> HIDE DEF pc, shows, q
<1>5. new \in RequestStates /\ Fits(adultMode, new)
  BY <1>1, <1>2, <1>3, NoRequestIsTyped DEF RequestStates, RequestPcs, Fits
<1> HIDE DEF new
<1> QED
  BY <1>4, <1>5, GoingOnFits DEF AdultIInv, AdultTypes

LEMMA TitleKeepsAdult ==
    ASSUME AdultIInv, NEW r \in Requests, NEW id \in Ids, NEW type \in {"movie", "series"},
           Details(r, id, type) \/ Streams(r, id, type)
    PROVE  AdultIInv'
<1>1. UNCHANGED <<adultMode, index>>
  BY DEF Details, Streams
<1>2. CASE request' = [request EXCEPT ![r] = Refused]
  <2>1. Fits(adultMode, Refused)
    BY NoRequestIsTyped DEF Fits, AskingStates
  <2> QED
    BY <2>1, <1>1, <1>2, NoRequestIsTyped, GoingOnFits DEF AdultIInv, AdultTypes
<1>3. ASSUME NEW shown \in Ids, NEW pc \in {"details", "streams"},
             request' = [request EXCEPT ![r] = [NoRequest EXCEPT !.pc = pc, !.shows = {shown}]]
      PROVE  AdultIInv'
  <2> DEFINE new == [NoRequest EXCEPT !.pc = pc, !.shows = {shown}]
  <2>1. new \in RequestStates /\ Fits(adultMode, new)
    BY NoRequestIsTyped DEF RequestStates, RequestPcs, Fits, AskingStates
  <2>2. request' = [request EXCEPT ![r] = new]
    BY <1>3
  <2> HIDE DEF new
  <2> QED
    BY <2>1, <2>2, <1>1, GoingOnFits DEF AdultIInv, AdultTypes
<1> QED
  BY <1>2, <1>3 DEF Details, Streams

LEMMA AdultStepKeeps == AdultIInv /\ [Next]_vars => AdultIInv'
<1> SUFFICES ASSUME AdultIInv, [Next]_vars
             PROVE  AdultIInv'
  OBVIOUS
<1>0. CASE UNCHANGED <<request, adultMode>> /\ index' \in [filled : BOOLEAN, adult : BOOLEAN, keyed : BOOLEAN]
  BY <1>0 DEF AdultIInv, AdultTypes
<1>1. CASE UNCHANGED <<request, adultMode, index>>
  BY <1>0, <1>1 DEF AdultIInv, AdultTypes
<1>2. CASE TokenNext \/ OfficeNext \/ StreamNext \/ UNCHANGED vars
  BY <1>2, <1>1 DEF TokenNext, OfficeNext, StreamNext, vars, catalogueVars, requestVars
<1>3. CASE Ask
  BY <1>3, ArriveKeepsAdult DEF Ask
<1>4. CASE Toggle \/ Curate \/ CatalogueTick
  BY <1>4, <1>1 DEF Toggle, ToggleAdult, Curate, CatalogueTick, RequestsTick, requestVars
<1>5. CASE CatalogueRestart
  <2>1. /\ request' \in [Requests -> RequestStates] /\ adultMode' \in BOOLEAN /\ UNCHANGED index
        /\ \A r \in Requests : request'[r] \in {NoRequest, Refused}
    BY <1>5, NoRequestIsTyped DEF CatalogueRestart, RequestsLost
  <2>2. \A r \in Requests : Fits(adultMode', request'[r])
    BY <2>1, NoRequestIsTyped DEF Fits, AskingStates
  <2> QED
    BY <2>1, <2>2 DEF AdultIInv, AdultTypes
<1>6. CASE CatalogueStep /\ ~SyncPage
  BY <1>6, <1>1, ReadUserKeepsAdult, HandleKeepsAdult, SearchIndexKeepsAdult, FetchKeepsAdult,
     FilterKeepsAdult, TitleKeepsAdult DEF CatalogueStep, RequestStep, requestVars
<1>7. CASE SyncPage
  <2> DEFINE adult == GetIndex.adult \/ adultMode
  <2>1. adult \in BOOLEAN
    OBVIOUS
  <2>2. /\ UNCHANGED <<request, adultMode>>
        /\ index' = [filled |-> TRUE, adult |-> adult, keyed |-> TRUE] \/ UNCHANGED index
    BY <1>7 DEF SyncPage
  <2> HIDE DEF adult
  <2>3. [filled |-> TRUE, adult |-> adult, keyed |-> TRUE]
            \in [filled : BOOLEAN, adult : BOOLEAN, keyed : BOOLEAN]
    BY <2>1
  <2>4. index \in [filled : BOOLEAN, adult : BOOLEAN, keyed : BOOLEAN]
    BY DEF AdultIInv, AdultTypes
  <2> QED
    BY <1>0, <2>2, <2>3, <2>4
<1> QED
  BY <1>2, <1>3, <1>4, <1>5, <1>6, <1>7 DEF Next, CatalogueNext

\* AdultFilterMiddleware, checkUnlock and get: a list from TMDB has adult titles exactly
\* if its request may have them, but for the requests that were overtaken by another.
THEOREM ListsFollowTheirRequests == Spec => []AdultFollowsTheRequest
<1>1. AdultIInv => AdultFollowsTheRequest
  BY DEF AdultIInv, AdultFollowsTheRequest, Fits
<1> QED
  BY AdultInitially, AdultStepKeeps, <1>1, PTL DEF Spec

-----------------------------------------------------------------------------
\* The administration: its rows and its tasks.
TermRows == [version : Nat, published : BOOLEAN, at : Nat]

PaymentRows == [provider : {"MANUAL", "ACTIVATION_CODE"}, status : {"PAID", "REFUNDED"},
                created : Nat, paid : Nat]

BatchRows == [reseller : BOOLEAN, codes : [1..Quantity -> {"AVAILABLE", "REDEEMED"}]]

Codes == {<<>>} \cup (Nat \X Nat)

Tasks == [pc : {"idle", "terms", "publish", "pay", "status"}, of : Nat, code : Codes,
          status : {"PAID", "REFUNDED"}, paid : Nat, crossed : BOOLEAN]

\* The newest version and the last publication.
TopsExist ==
    /\ \E m \in DOMAIN terms : \A i \in DOMAIN terms : terms[i].version <= terms[m].version
    /\ \E m \in DOMAIN terms : \A i \in DOMAIN terms : terms[i].at <= terms[m].at

OfficeTypes ==
    /\ today \in Nat
    /\ terms \in Seq(TermRows) /\ TopsExist
    /\ payments \in Seq(PaymentRows)
    /\ batches \in Seq(BatchRows)
    /\ task \in [Clerks -> Tasks]

\* A draft that nobody crossed has a version beyond all others.
DraftsAreNew ==
    \A c \in Clerks : task[c].pc = "terms" /\ ~task[c].crossed =>
        \A i \in DOMAIN terms : terms[i].version < task[c].of

\* Two publications cross, and one alone finds nothing published at its second step.
PublicationsCross ==
    \A c \in Clerks : task[c].pc = "publish" /\ ~task[c].crossed =>
        /\ \A d \in Clerks : d # c => task[d].pc # "publish"
        /\ \A i \in DOMAIN terms : ~terms[i].published

OneInForce ==
    settled /\ Doing("publish") = {} =>
        \E i \in DOMAIN terms : terms[i].published /\ \A j \in DOMAIN terms : terms[j].published => j = i

SameVersionWasHurried ==
    \A i, j \in DOMAIN terms : i < j /\ terms[i].version = terms[j].version => j \in hurried

TermsIInv == OfficeTypes /\ DraftsAreNew /\ PublicationsCross /\ OneInForce /\ SameVersionWasHurried

\* createTerms and publishTerms: what comes next is beyond all that is there.
LEMMA NextOfIsBeyond ==
    ASSUME NEW S \in SUBSET Nat, NEW m \in S, \A n \in S : n <= m
    PROVE  NextOf(S) \in Nat /\ \A n \in S : n < NextOf(S)
<1> DEFINE x == CHOOSE y \in S \cup {0} : \A n \in S : n <= y
<1>1. x \in S \cup {0} /\ \A n \in S : n <= x
  OBVIOUS
<1>2. NextOf(S) = 1 + x
  BY DEF NextOf
<1> HIDE DEF x
<1> QED
  BY <1>1, <1>2

LEMMA NextVersionIsBeyond ==
    ASSUME OfficeTypes
    PROVE  LET new == NextOf({terms[i].version : i \in DOMAIN terms})
           IN  new \in Nat /\ \A i \in DOMAIN terms : terms[i].version < new
<1> DEFINE S == {terms[i].version : i \in DOMAIN terms}
<1>1. \A i \in DOMAIN terms : terms[i] \in TermRows
  BY DEF OfficeTypes
<1>2. S \in SUBSET Nat
  BY <1>1 DEF TermRows
<1>3. PICK m \in DOMAIN terms : \A i \in DOMAIN terms : terms[i].version <= terms[m].version
  BY DEF OfficeTypes, TopsExist
<1>4. terms[m].version \in S /\ \A n \in S : n <= terms[m].version
  BY <1>3
<1>5. \A i \in DOMAIN terms : terms[i].version \in S
  OBVIOUS
<1>6. NextOf(S) \in Nat /\ \A n \in S : n < NextOf(S)
  <2> HIDE DEF S
  <2> QED
    BY <1>2, <1>4, NextOfIsBeyond
<1> QED
  BY <1>5, <1>6

LEMMA NextInstantIsBeyond ==
    ASSUME OfficeTypes
    PROVE  LET new == NextOf({terms[i].at : i \in DOMAIN terms})
           IN  new \in Nat /\ \A i \in DOMAIN terms : terms[i].at < new
<1> DEFINE S == {terms[i].at : i \in DOMAIN terms}
<1>1. \A i \in DOMAIN terms : terms[i] \in TermRows
  BY DEF OfficeTypes
<1>2. S \in SUBSET Nat
  BY <1>1 DEF TermRows
<1>3. PICK m \in DOMAIN terms : \A i \in DOMAIN terms : terms[i].at <= terms[m].at
  BY DEF OfficeTypes, TopsExist
<1>4. terms[m].at \in S /\ \A n \in S : n <= terms[m].at
  BY <1>3
<1>5. \A i \in DOMAIN terms : terms[i].at \in S
  OBVIOUS
<1>6. NextOf(S) \in Nat /\ \A n \in S : n < NextOf(S)
  <2> HIDE DEF S
  <2> QED
    BY <1>2, <1>4, NextOfIsBeyond
<1> QED
  BY <1>5, <1>6

LEMMA TermsInitially == ServerAssumption /\ BackOfficeAssumption /\ Init => TermsIInv
<1> SUFFICES ASSUME BackOfficeAssumption, OfficeInit
             PROVE  TermsIInv
  BY DEF Init
<1>1. /\ terms = <<[version |-> 1, published |-> TRUE, at |-> 1], [version |-> 2, published |-> FALSE, at |-> 0]>>
      /\ task = [c \in Clerks |-> NoTask]
      /\ settled = TRUE
  BY DEF OfficeInit
<1>2. DOMAIN terms = 1..2 /\ terms \in Seq(TermRows)
  BY <1>1 DEF TermRows
<1>3. NoTask \in Tasks /\ NoTask.pc = "idle"
  BY DEF NoTask, Tasks, Codes
<1>4. /\ terms[1].version = 1 /\ terms[2].version = 2 /\ terms[1].at = 1 /\ terms[2].at = 0
      /\ terms[1].published /\ ~terms[2].published
  BY <1>1
<1>5. TopsExist
  <2>1. \A i \in DOMAIN terms : terms[i].version <= terms[2].version
    BY <1>2, <1>4
  <2>2. \A i \in DOMAIN terms : terms[i].at <= terms[1].at
    BY <1>2, <1>4
  <2> QED
    BY <1>2, <2>1, <2>2 DEF TopsExist
<1>6. payments \in Seq(PaymentRows)
  BY DEF OfficeInit, PaidAt, PaymentRows
<1>7. batches \in Seq(BatchRows)
  <2>1. [k \in 1..Quantity |-> "AVAILABLE"] \in [1..Quantity -> {"AVAILABLE", "REDEEMED"}]
    OBVIOUS
  <2>2. [reseller |-> TRUE, codes |-> [k \in 1..Quantity |-> "AVAILABLE"]] \in BatchRows
    BY <2>1 DEF BatchRows
  <2> QED
    BY <2>2 DEF OfficeInit
<1>8. OfficeTypes
  BY <1>1, <1>2, <1>3, <1>5, <1>6, <1>7 DEF OfficeTypes, OfficeInit
<1>9. \A c \in Clerks : task[c].pc = "idle"
  BY <1>1, <1>3
<1>10. OneInForce /\ SameVersionWasHurried
  BY <1>2, <1>4 DEF OneInForce, SameVersionWasHurried
<1> QED
  BY <1>8, <1>9, <1>10 DEF TermsIInv, DraftsAreNew, PublicationsCross

\* A step that is neither about the terms nor of a task about them.
Quiet ==
    /\ UNCHANGED <<terms, settled, hurried>>
    /\ \A c \in Clerks : \/ task'[c] = task[c]
                         \/ {task[c].pc, task'[c].pc} \cap {"terms", "publish"} = {}

LEMMA QuietKeepsTerms ==
    ASSUME TermsIInv, OfficeTypes', Quiet
    PROVE  TermsIInv'
<1>1. \A c \in Clerks : task'[c].pc \in {"terms", "publish"} \/ task[c].pc \in {"terms", "publish"}
                            => task'[c] = task[c]
  BY DEF Quiet
<1>2. Doing("publish")' = Doing("publish")
  BY <1>1 DEF Doing
<1>3. DraftsAreNew'
  BY <1>1 DEF DraftsAreNew, TermsIInv, Quiet
<1>4. PublicationsCross'
  BY <1>1 DEF PublicationsCross, TermsIInv, Quiet
<1>5. OneInForce' /\ SameVersionWasHurried'
  BY <1>2 DEF OneInForce, SameVersionWasHurried, TermsIInv, Quiet
<1> QED
  BY <1>3, <1>4, <1>5 DEF TermsIInv

LEMMA NoTaskIsTyped == NoTask \in Tasks /\ NoTask.pc = "idle"
  BY DEF NoTask, Tasks, Codes

\* The tasks that only read at their first step.
LEMMA FirstStepsAreQuiet ==
    ASSUME OfficeTypes, NEW c \in Clerks,
           \/ \E d \in Clerks, new \in {"none", "ADMIN"} : SetRole(c, d, new)
           \/ \E code \in {<<>>} \cup MatchingCodes(batches, "AVAILABLE") : Pay(c, code)
           \/ \E i \in DOMAIN payments, status \in {"PAID", "REFUNDED"} : PaymentStatus(c, i, status)
    PROVE  OfficeTypes' /\ Quiet
<1>1. ASSUME NEW new \in Tasks, new.pc \in {"pay", "status"}, task[c].pc = "idle",
             task' = [task EXCEPT ![c] = new], UNCHANGED <<today, tables, settled, hurried>>
      PROVE  OfficeTypes' /\ Quiet
  BY <1>1 DEF OfficeTypes, TopsExist, Quiet, tables
<1>2. CASE \E d \in Clerks, new \in {"none", "ADMIN"} : SetRole(c, d, new)
  BY <1>2 DEF SetRole, OfficeTypes, TopsExist, Quiet, tables
<1>3. ASSUME NEW code \in {<<>>} \cup MatchingCodes(batches, "AVAILABLE"), Pay(c, code)
      PROVE  OfficeTypes' /\ Quiet
  <2> DEFINE new == [NoTask EXCEPT !.pc = "pay", !.paid = today, !.code = code]
  <2>1. code \in Codes
    BY DEF MatchingCodes, Codes, OfficeTypes
  <2>2. new \in Tasks /\ new.pc = "pay"
    BY <2>1, NoTaskIsTyped DEF Tasks, OfficeTypes
  <2>3. /\ task[c].pc = "idle" /\ task' = [task EXCEPT ![c] = new]
        /\ UNCHANGED <<today, tables, settled, hurried>>
    BY <1>3 DEF Pay
  <2> HIDE DEF new
  <2> QED
    BY <2>2, <2>3, <1>1
<1>4. ASSUME NEW i \in DOMAIN payments, NEW status \in {"PAID", "REFUNDED"},
             PaymentStatus(c, i, status)
      PROVE  OfficeTypes' /\ Quiet
  <2> DEFINE new == [NoTask EXCEPT !.pc = "status", !.of = i, !.status = status, !.paid = payments[i].paid]
  <2>1. i \in Nat /\ payments[i] \in PaymentRows
    BY DEF OfficeTypes
  <2>2. payments[i].paid \in Nat
    BY <2>1 DEF PaymentRows
  <2>3. new \in Tasks /\ new.pc = "status"
    BY <2>1, <2>2, NoTaskIsTyped DEF Tasks
  <2>4. /\ task[c].pc = "idle" /\ task' = [task EXCEPT ![c] = new]
        /\ UNCHANGED <<today, tables, settled, hurried>>
    BY <1>4 DEF PaymentStatus, Admitted
  <2> HIDE DEF new
  <2> QED
    BY <2>3, <2>4, <1>1
<1> QED
  BY <1>2, <1>3, <1>4

LEMMA WritesOfPaymentsAreQuiet ==
    ASSUME OfficeTypes, NEW c \in Clerks, CommitPayment(c) \/ WritePayment(c)
    PROVE  OfficeTypes' /\ Quiet
<1>1. task[c] \in Tasks /\ today \in Nat /\ payments \in Seq(PaymentRows) /\ batches \in Seq(BatchRows)
  BY DEF OfficeTypes
<1>2. /\ task' = [task EXCEPT ![c] = NoTask] /\ task[c].pc \in {"pay", "status"}
      /\ UNCHANGED <<today, terms, settled, hurried>>
  BY DEF CommitPayment, WritePayment
<1>3. payments' \in Seq(PaymentRows)
  <2>1. CASE CommitPayment(c)
    <3> DEFINE new == PaidAt(IF task[c].code = <<>> THEN "MANUAL" ELSE "ACTIVATION_CODE", today, task[c].paid)
    <3>1. new \in PaymentRows
      BY <1>1 DEF PaidAt, PaymentRows, Tasks
    <3>2. payments' = Append(payments, new) \/ payments' = payments
      BY <2>1 DEF CommitPayment
    <3> HIDE DEF new
    <3> QED
      BY <3>1, <3>2, <1>1
  <2>2. CASE WritePayment(c)
    <3> DEFINE i    == task[c].of
               st   == task[c].status
               paid == IF st = "PAID" /\ task[c].paid = 0 THEN today ELSE payments[i].paid
               new  == [payments[i] EXCEPT !.status = st, !.paid = paid]
    <3>1. payments' = [payments EXCEPT ![i] = new]
      BY <2>2, <1>1 DEF WritePayment
    <3>2. CASE i \in DOMAIN payments
      <4>1. payments[i] \in PaymentRows
        BY <1>1, <3>2
      <4>2. st \in {"PAID", "REFUNDED"} /\ paid \in Nat
        BY <1>1, <4>1 DEF Tasks, PaymentRows
      <4> HIDE DEF st, paid
      <4>3. new \in PaymentRows
        BY <4>1, <4>2 DEF PaymentRows
      <4> HIDE DEF new, i
      <4> QED
        BY <3>1, <3>2, <4>3, <1>1
    <3>3. CASE i \notin DOMAIN payments
      <4> HIDE DEF new, i
      <4>1. payments' = payments
        BY <3>1, <3>3, <1>1
      <4> QED
        BY <4>1, <1>1
    <3> QED
      BY <3>2, <3>3
  <2> QED
    BY <2>1, <2>2
<1>4. batches' \in Seq(BatchRows)
  <2> DEFINE b   == task[c].code[1]
             old == batches[b]
             new == [old EXCEPT !.codes = [old.codes EXCEPT ![task[c].code[2]] = "REDEEMED"]]
  <2>1. batches' = batches \/ batches' = [batches EXCEPT ![b] = new]
    BY DEF CommitPayment, WritePayment
  <2>2. CASE b \in DOMAIN batches
    <3>1. old \in BatchRows
      BY <1>1, <2>2
    <3>2. old.codes \in [1..Quantity -> {"AVAILABLE", "REDEEMED"}]
      BY <3>1 DEF BatchRows
    <3>3. [old.codes EXCEPT ![task[c].code[2]] = "REDEEMED"] \in [1..Quantity -> {"AVAILABLE", "REDEEMED"}]
      BY <3>2
    <3>4. new \in BatchRows
      <4> DEFINE codes == [old.codes EXCEPT ![task[c].code[2]] = "REDEEMED"]
      <4> HIDE DEF codes, old
      <4> QED
        BY <3>1, <3>3 DEF BatchRows, codes
    <3> HIDE DEF new, b
    <3> QED
      BY <2>1, <2>2, <3>4, <1>1
  <2>3. CASE b \notin DOMAIN batches
    <3> HIDE DEF new, b
    <3>1. batches' = batches
      BY <2>1, <2>3, <1>1
    <3> QED
      BY <3>1, <1>1
  <2> QED
    BY <2>2, <2>3
<1> QED
  BY <1>1, <1>2, <1>3, <1>4, NoTaskIsTyped DEF OfficeTypes, TopsExist, Quiet

LEMMA OtherStepsAreQuiet ==
    ASSUME OfficeTypes,
           \/ \E c \in Clerks, reseller \in BOOLEAN : GenerateCodes(c, reseller)
           \/ \E list \in {"payments", "batches", "codes"}, status \in {"ALL", "PAID", "AVAILABLE"} :
                  StartWalk(list, status)
           \/ ReadPage \/ OfficeTick
    PROVE  OfficeTypes' /\ Quiet
<1>1. CASE UNCHANGED <<today, task, tables, settled, hurried>>
  BY <1>1 DEF OfficeTypes, TopsExist, Quiet, tables
<1>2. ASSUME NEW c \in Clerks, NEW reseller \in BOOLEAN, GenerateCodes(c, reseller)
      PROVE  OfficeTypes' /\ Quiet
  <2> DEFINE new == [reseller |-> reseller, codes |-> [k \in 1..Quantity |-> "AVAILABLE"]]
  <2>1. [k \in 1..Quantity |-> "AVAILABLE"] \in [1..Quantity -> {"AVAILABLE", "REDEEMED"}]
    OBVIOUS
  <2>2. new \in BatchRows
    BY <2>1 DEF BatchRows
  <2>3. batches' = Append(batches, new) /\ UNCHANGED <<today, task, terms, payments, settled, hurried>>
    BY <1>2 DEF GenerateCodes
  <2> HIDE DEF new
  <2>4. batches' \in Seq(BatchRows)
    BY <2>2, <2>3 DEF OfficeTypes
  <2>5. OfficeTypes'
    BY <2>3, <2>4 DEF OfficeTypes, TopsExist
  <2> QED
    BY <2>3, <2>5 DEF Quiet
<1>3. CASE OfficeTick
  <2>1. \A c \in Clerks : /\ task[c] \in Tasks
                          /\ task'[c] = IF c \in Doing("pay") THEN [task[c] EXCEPT !.crossed = TRUE] ELSE task[c]
    BY <1>3 DEF OfficeTick, OfficeTypes
  <2>2. \A c \in Clerks : /\ task'[c] \in Tasks
                          /\ task'[c] = task[c] \/ (task[c].pc = "pay" /\ task'[c].pc = "pay")
    BY <2>1 DEF Doing, Tasks
  <2>3. task' \in [Clerks -> Tasks] /\ today' \in Nat /\ UNCHANGED <<tables, settled, hurried>>
    BY <2>2, <1>3 DEF OfficeTick, OfficeTypes
  <2>4. Quiet
    BY <2>2, <2>3 DEF Quiet, tables
  <2>5. OfficeTypes'
    BY <2>3 DEF OfficeTypes, TopsExist, tables
  <2> QED
    BY <2>4, <2>5
<1> QED
  BY <1>1, <1>2, <1>3 DEF StartWalk, ReadPage

LEMMA CreateTermsKeeps ==
    ASSUME TermsIInv, NEW c \in Clerks, CreateTerms(c)
    PROVE  TermsIInv'
<1> DEFINE of  == NextOf({terms[i].version : i \in DOMAIN terms})
           new == [NoTask EXCEPT !.pc = "terms", !.of = of]
<1>1. of \in Nat /\ \A i \in DOMAIN terms : terms[i].version < of
  BY NextVersionIsBeyond DEF TermsIInv
<1>2. task' = [task EXCEPT ![c] = new] /\ UNCHANGED <<today, tables, settled, hurried>> /\ task[c].pc = "idle"
  BY DEF CreateTerms, Admitted
<1> HIDE DEF of
<1>3. new \in Tasks /\ new.pc = "terms" /\ new.of = of
  BY <1>1, NoTaskIsTyped DEF Tasks
<1> HIDE DEF new
<1>4. OfficeTypes'
  BY <1>2, <1>3 DEF TermsIInv, OfficeTypes, TopsExist, tables
<1>5. \A d \in Clerks : task'[d] = IF d = c THEN new ELSE task[d]
  BY <1>2 DEF TermsIInv, OfficeTypes
<1>6. DraftsAreNew'
  BY <1>1, <1>2, <1>3, <1>5 DEF TermsIInv, DraftsAreNew, tables
<1>7. PublicationsCross'
  BY <1>2, <1>3, <1>5 DEF TermsIInv, PublicationsCross, tables
<1>8. Doing("publish")' = Doing("publish")
  BY <1>2, <1>3, <1>5 DEF Doing
<1>9. OneInForce' /\ SameVersionWasHurried'
  BY <1>2, <1>8 DEF TermsIInv, OneInForce, SameVersionWasHurried, tables
<1> QED
  BY <1>4, <1>6, <1>7, <1>9 DEF TermsIInv

LEMMA WriteTermsKeeps ==
    ASSUME TermsIInv, NEW c \in Clerks, WriteTerms(c)
    PROVE  TermsIInv'
<1> DEFINE new == [version |-> task[c].of, published |-> FALSE, at |-> 0]
           n   == Len(terms)
<1>1. terms \in Seq(TermRows) /\ task \in [Clerks -> Tasks] /\ task[c].pc = "terms"
  BY DEF TermsIInv, OfficeTypes, WriteTerms
<1>2. new \in TermRows /\ new.version = task[c].of /\ ~new.published /\ new.at = 0
  BY <1>1 DEF TermRows, Tasks
<1>3. terms' = Append(terms, new) /\ UNCHANGED <<today, payments, batches, settled>>
  BY DEF WriteTerms
<1>4. hurried' = IF task[c].crossed THEN hurried \cup {n + 1} ELSE hurried
  BY DEF WriteTerms
<1> HIDE DEF new
<1>5. /\ n \in Nat /\ DOMAIN terms = 1..n /\ DOMAIN terms' = 1..(n + 1)
      /\ terms' \in Seq(TermRows) /\ terms'[n + 1] = new
      /\ \A i \in 1..n : terms'[i] = terms[i]
  BY <1>1, <1>2, <1>3
<1> HIDE DEF n
<1>6. \A d \in Clerks :
        /\ task'[d] \in Tasks
        /\ d = c => task'[d].pc = "idle"
        /\ d # c => /\ task'[d].pc = task[d].pc /\ task'[d].of = task[d].of
                    /\ task[d].pc = "terms" => task'[d].crossed
                    /\ task[d].pc # "terms" => task'[d] = task[d]
  <2>1. ASSUME NEW d \in Clerks
        PROVE  task'[d] = IF d = c THEN NoTask
                          ELSE IF task[d].pc = "terms" THEN [task[d] EXCEPT !.crossed = TRUE] ELSE task[d]
    BY DEF WriteTerms
  <2>2. \A d \in Clerks : task[d] \in Tasks
    BY <1>1
  <2>3. ASSUME NEW t \in Tasks
        PROVE  LET over == [t EXCEPT !.crossed = TRUE]
               IN  over \in Tasks /\ over.crossed /\ over.pc = t.pc /\ over.of = t.of
    BY DEF Tasks
  <2> QED
    BY <2>1, <2>2, <2>3, NoTaskIsTyped
<1>7. \A i \in 1..n : terms[i].version \in Nat /\ terms[i].at \in Nat
  <2>1. \A i \in 1..n : terms[i] \in TermRows
    BY <1>1, <1>5
  <2> QED
    BY <2>1 DEF TermRows
<1>8. TopsExist'
  <2>2. new.version \in Nat
    BY <1>2 DEF TermRows
  <2>3. PICK m \in 1..n : \A i \in 1..n : terms[i].version <= terms[m].version
    BY <1>5 DEF TermsIInv, OfficeTypes, TopsExist
  <2>4. PICK k \in 1..n : \A i \in 1..n : terms[i].at <= terms[k].at
    BY <1>5 DEF TermsIInv, OfficeTypes, TopsExist
  <2>5. \A i \in 1..(n + 1) : i = n + 1 \/ i \in 1..n
    BY <1>5
  <2>6. k \in 1..(n + 1) /\ \A i \in 1..(n + 1) : terms'[i].at <= terms'[k].at
    <3>1. terms'[k] = terms[k] /\ terms[k].at \in Nat /\ k \in 1..(n + 1)
      BY <1>5, <1>7
    <3>2. terms'[n + 1].at <= terms'[k].at
      BY <1>2, <1>5, <3>1
    <3>3. \A i \in 1..n : terms'[i].at <= terms'[k].at
      BY <1>5, <2>4, <3>1
    <3> QED
      BY <2>5, <3>1, <3>2, <3>3
  <2>7. CASE new.version <= terms[m].version
    <3>1. m \in 1..(n + 1) /\ \A i \in 1..(n + 1) : terms'[i].version <= terms'[m].version
      BY <1>5, <2>3, <2>5, <2>7
    <3> QED
      BY <3>1, <2>6, <1>5 DEF TopsExist
  <2>8. CASE ~(new.version <= terms[m].version)
    <3>1. \A i \in 1..(n + 1) : terms'[i].version <= terms'[n + 1].version
      BY <1>5, <1>7, <2>2, <2>3, <2>5, <2>8
    <3>2. n + 1 \in 1..(n + 1)
      BY <1>5
    <3> QED
      BY <3>1, <3>2, <2>6, <1>5 DEF TopsExist
  <2> QED
    BY <2>7, <2>8
<1>9. OfficeTypes'
  <2>1. task' \in [Clerks -> Tasks]
    BY <1>6 DEF WriteTerms
  <2> QED
    BY <2>1, <1>3, <1>5, <1>8 DEF TermsIInv, OfficeTypes
<1>10. DraftsAreNew'
  BY <1>6 DEF DraftsAreNew
<1>11. PublicationsCross'
  <2>1. \A i \in DOMAIN terms' : terms'[i].published => i \in DOMAIN terms /\ terms[i].published
    BY <1>2, <1>5
  <2>2. \A d \in Clerks : task'[d].pc = "publish" <=> task[d].pc = "publish"
    BY <1>6, <1>1
  <2>3. \A d \in Clerks : task'[d].pc = "publish" => task'[d] = task[d]
    BY <1>6
  <2> QED
    BY <2>1, <2>2, <2>3 DEF TermsIInv, PublicationsCross
<1>12. OneInForce'
  <2>1. Doing("publish")' = Doing("publish")
    BY <1>1, <1>6 DEF Doing
  <2>2. \A i \in DOMAIN terms' : terms'[i].published <=> i \in DOMAIN terms /\ terms[i].published
    BY <1>2, <1>5
  <2>3. DOMAIN terms \subseteq DOMAIN terms'
    BY <1>5
  <2> QED
    BY <2>1, <2>2, <2>3, <1>3 DEF TermsIInv, OneInForce
<1>13. SameVersionWasHurried'
  <2>1. ASSUME NEW i \in 1..(n + 1), NEW j \in 1..(n + 1), i < j,
               terms'[i].version = terms'[j].version
        PROVE  j \in hurried'
    <3>1. CASE j \in 1..n
      <4>1. i \in 1..n
        BY <3>1, <2>1, <1>5
      <4> QED
        BY <4>1, <3>1, <2>1, <1>5, <1>4 DEF TermsIInv, SameVersionWasHurried
    <3>2. CASE j = n + 1
      <4>1. i \in 1..n /\ terms[i].version = task[c].of
        BY <3>2, <2>1, <1>5, <1>2
      <4>2. terms[i].version \in Nat
        BY <4>1, <1>7
      <4>3. task[c].crossed
        BY <4>1, <4>2, <1>1, <1>5 DEF TermsIInv, DraftsAreNew
      <4> QED
        BY <4>3, <3>2, <1>4
    <3> QED
      BY <3>1, <3>2, <1>5
  <2> QED
    BY <2>1, <1>5 DEF SameVersionWasHurried
<1> QED
  BY <1>9, <1>10, <1>11, <1>12, <1>13 DEF TermsIInv

LEMMA UnpublishKeeps ==
    ASSUME TermsIInv, NEW c \in Clerks, NEW id \in Nat, Unpublish(c, id)
    PROVE  TermsIInv'
<1>1. /\ terms \in Seq(TermRows) /\ task \in [Clerks -> Tasks] /\ task[c].pc = "idle"
      /\ UNCHANGED <<today, payments, batches, settled, hurried>>
  BY DEF TermsIInv, OfficeTypes, Unpublish, Admitted
<1>2. ASSUME NEW i \in DOMAIN terms
      PROVE  LET row == [terms[i] EXCEPT !.published = FALSE]
             IN  /\ row \in TermRows /\ ~row.published
                 /\ row.version = terms[i].version /\ row.at = terms[i].at
  <2>1. terms[i] \in TermRows
    BY <1>1
  <2> QED
    BY <2>1 DEF TermRows
<1>3. /\ terms' = [i \in DOMAIN terms |-> [terms[i] EXCEPT !.published = FALSE]]
      /\ terms' \in Seq(TermRows) /\ DOMAIN terms' = DOMAIN terms
  <2>0. terms' = [i \in DOMAIN terms |-> [terms[i] EXCEPT !.published = FALSE]]
    BY DEF Unpublish
  <2>1. terms' = [i \in 1..Len(terms) |-> [terms[i] EXCEPT !.published = FALSE]]
    <3>1. DOMAIN terms = 1..Len(terms)
      BY <1>1
    <3> QED
      BY <2>0, <3>1, Zenon
  <2>2. \A i \in 1..Len(terms) : [terms[i] EXCEPT !.published = FALSE] \in TermRows
    BY <1>1, <1>2
  <2>3. terms' \in Seq(TermRows)
    BY <1>1, <2>1, <2>2
  <2> QED
    BY <2>0, <2>1, <2>3, <1>1
<1>4. \A i \in DOMAIN terms : /\ ~terms'[i].published
                              /\ terms'[i].version = terms[i].version /\ terms'[i].at = terms[i].at
  BY <1>2, <1>3
<1>5. \A d \in Clerks :
        /\ task'[d] \in Tasks
        /\ d = c => task'[d].pc = "publish" /\ (~task'[d].crossed => Doing("publish") = {})
        /\ d # c => /\ task[d].pc = "publish" => task'[d].pc = "publish" /\ task'[d].crossed
                    /\ task[d].pc # "publish" => task'[d] = task[d]
  <2> DEFINE others == Doing("publish") # {}
             new   == [NoTask EXCEPT !.pc = "publish", !.of = id, !.crossed = others]
  <2>1. ASSUME NEW d \in Clerks
        PROVE  task'[d] = IF d = c THEN new
                          ELSE IF task[d].pc = "publish" THEN [task[d] EXCEPT !.crossed = TRUE] ELSE task[d]
    BY DEF Unpublish
  <2>2. others \in BOOLEAN
    OBVIOUS
  <2>3. new \in Tasks /\ new.pc = "publish" /\ new.crossed = others
    <3> HIDE DEF others
    <3> QED
      BY <2>2, NoTaskIsTyped DEF Tasks
  <2>4. ASSUME NEW t \in Tasks
        PROVE  LET over == [t EXCEPT !.crossed = TRUE]
               IN  over \in Tasks /\ over.crossed /\ over.pc = t.pc
    BY DEF Tasks
  <2>5. \A d \in Clerks : task[d] \in Tasks
    BY <1>1
  <2>6. ~new.crossed => Doing("publish") = {}
    BY <2>3
  <2> HIDE DEF new
  <2> QED
    BY <2>1, <2>3, <2>4, <2>5, <2>6
<1>6. OfficeTypes'
  <2>1. TopsExist'
    BY <1>3, <1>4 DEF TermsIInv, OfficeTypes, TopsExist
  <2>2. task' \in [Clerks -> Tasks]
    BY <1>5 DEF Unpublish
  <2> QED
    BY <2>1, <2>2, <1>1, <1>3 DEF TermsIInv, OfficeTypes
<1>7. DraftsAreNew'
  BY <1>3, <1>4, <1>5 DEF TermsIInv, DraftsAreNew
<1>8. PublicationsCross'
  <2>1. ASSUME NEW d \in Clerks, task'[d].pc = "publish", ~task'[d].crossed
        PROVE  d = c /\ \A f \in Clerks : f # d => task'[f].pc # "publish"
    <3>1. d = c
      BY <2>1, <1>5
    <3>2. Doing("publish") = {}
      BY <2>1, <3>1, <1>5
    <3>3. \A f \in Clerks : task[f].pc # "publish"
      BY <3>2 DEF Doing
    <3> QED
      BY <3>1, <3>3, <1>5
  <2> QED
    BY <2>1, <1>3, <1>4 DEF PublicationsCross
<1>9. OneInForce'
  <2>1. c \in Doing("publish")'
    BY <1>5 DEF Doing
  <2> QED
    BY <2>1 DEF OneInForce
<1>10. SameVersionWasHurried'
  BY <1>1, <1>3, <1>4 DEF TermsIInv, SameVersionWasHurried
<1> QED
  BY <1>6, <1>7, <1>8, <1>9, <1>10 DEF TermsIInv

LEMMA PublishKeeps ==
    ASSUME TermsIInv, NEW c \in Clerks, Publish(c)
    PROVE  TermsIInv'
<1> DEFINE id  == task[c].of
           now == NextOf({terms[i].at : i \in DOMAIN terms})
           new == [terms[id] EXCEPT !.published = TRUE, !.at = now]
<1>1. /\ terms \in Seq(TermRows) /\ task \in [Clerks -> Tasks] /\ task[c].pc = "publish"
      /\ task' = [task EXCEPT ![c] = NoTask]
      /\ UNCHANGED <<today, payments, batches, hurried>>
  BY DEF TermsIInv, OfficeTypes, Publish
<1>2. /\ task' \in [Clerks -> Tasks]
      /\ \A d \in Clerks : task'[d] = IF d = c THEN NoTask ELSE task[d]
  BY <1>1, NoTaskIsTyped
<1>3. CASE id \notin DOMAIN terms
  <2>1. UNCHANGED terms /\ settled' = FALSE
    BY <1>3 DEF Publish
  <2>2. OfficeTypes'
    BY <2>1, <1>1, <1>2 DEF TermsIInv, OfficeTypes, TopsExist
  <2>3. DraftsAreNew' /\ PublicationsCross'
    BY <2>1, <1>2, NoTaskIsTyped DEF TermsIInv, DraftsAreNew, PublicationsCross
  <2>4. OneInForce' /\ SameVersionWasHurried'
    BY <2>1, <1>1 DEF TermsIInv, OneInForce, SameVersionWasHurried
  <2> QED
    BY <2>2, <2>3, <2>4 DEF TermsIInv
<1>4. CASE id \in DOMAIN terms
  <2>1. terms[id] \in TermRows
    BY <1>1, <1>4
  <2>2. now \in Nat /\ \A i \in DOMAIN terms : terms[i].at < now
    BY NextInstantIsBeyond DEF TermsIInv
  <2>3. terms' = [terms EXCEPT ![id] = new] /\ settled' = ~task[c].crossed
    BY <1>4, <2>1 DEF Publish, TermRows
  <2> HIDE DEF now
  <2>4. new \in TermRows /\ new.published /\ new.at = now /\ new.version = terms[id].version
    BY <2>1, <2>2 DEF TermRows
  <2> HIDE DEF new
  <2>5. /\ terms' \in Seq(TermRows) /\ DOMAIN terms' = DOMAIN terms
        /\ terms'[id] = new /\ \A i \in DOMAIN terms : i # id => terms'[i] = terms[i]
    BY <2>3, <2>4, <1>1, <1>4
  <2> HIDE DEF id
  <2>6. \A i \in DOMAIN terms : terms'[i].version = terms[i].version
    BY <2>4, <2>5
  <2>7. \A i \in DOMAIN terms : terms'[i].at <= terms'[id].at
    <3>1. \A i \in DOMAIN terms : terms[i].at \in Nat
      <4>1. \A i \in DOMAIN terms : terms[i] \in TermRows
        BY <1>1
      <4> QED
        BY <4>1 DEF TermRows
    <3> QED
      BY <2>2, <2>4, <2>5, <3>1
  <2>8. OfficeTypes'
    <3>1. TopsExist'
      BY <2>5, <2>6, <2>7, <1>4 DEF TermsIInv, OfficeTypes, TopsExist
    <3> QED
      BY <3>1, <2>5, <1>1, <1>2 DEF TermsIInv, OfficeTypes
  <2>9. DraftsAreNew'
    BY <2>5, <2>6, <1>2, NoTaskIsTyped DEF TermsIInv, DraftsAreNew
  <2>10. PublicationsCross'
    <3>1. ASSUME NEW d \in Clerks, task'[d].pc = "publish"
          PROVE  task'[d].crossed
      <4>1. d # c /\ task[d].pc = "publish" /\ task'[d] = task[d]
        BY <3>1, <1>2, NoTaskIsTyped
      <4> QED
        BY <4>1, <1>1 DEF TermsIInv, PublicationsCross
    <3> QED
      BY <3>1 DEF PublicationsCross
  <2>11. OneInForce'
    <3>1. CASE task[c].crossed
      BY <3>1, <2>3 DEF OneInForce
    <3>2. CASE ~task[c].crossed
      <4>1. \A i \in DOMAIN terms : ~terms[i].published
        BY <3>2, <1>1 DEF TermsIInv, PublicationsCross
      <4>2. terms'[id].published /\ \A j \in DOMAIN terms' : terms'[j].published => j = id
        BY <4>1, <2>4, <2>5
      <4> QED
        BY <4>2, <2>5, <1>4 DEF OneInForce
    <3> QED
      BY <3>1, <3>2
  <2>12. SameVersionWasHurried'
    BY <2>5, <2>6, <1>1 DEF TermsIInv, SameVersionWasHurried
  <2> QED
    BY <2>8, <2>9, <2>10, <2>11, <2>12 DEF TermsIInv
<1> QED
  BY <1>3, <1>4

LEMMA OfficeLostKeeps ==
    ASSUME TermsIInv, OfficeLost
    PROVE  TermsIInv'
<1>1. /\ UNCHANGED <<today, tables, hurried>>
      /\ settled' = (settled /\ Doing("publish") = {})
      /\ task' \in [Clerks -> Tasks] /\ \A d \in Clerks : task'[d].pc = "idle"
  BY NoTaskIsTyped DEF OfficeLost
<1>2. OfficeTypes'
  BY <1>1 DEF TermsIInv, OfficeTypes, TopsExist, tables
<1>3. DraftsAreNew' /\ PublicationsCross'
  BY <1>1 DEF DraftsAreNew, PublicationsCross
<1>4. OneInForce' /\ SameVersionWasHurried'
  BY <1>1 DEF TermsIInv, OneInForce, SameVersionWasHurried, tables
<1> QED
  BY <1>2, <1>3, <1>4 DEF TermsIInv

LEMMA TermsStepKeeps == TermsIInv /\ [Next]_vars => TermsIInv'
<1> SUFFICES ASSUME TermsIInv, [Next]_vars
             PROVE  TermsIInv'
  OBVIOUS
<1>1. CASE UNCHANGED officeVars
  <2>1. OfficeTypes' /\ Quiet
    BY <1>1 DEF TermsIInv, OfficeTypes, TopsExist, Quiet, officeVars, tables
  <2> QED
    BY <2>1, QuietKeepsTerms
<1>2. CASE CatalogueNext \/ TokenNext \/ StreamNext \/ UNCHANGED vars
  BY <1>2, <1>1 DEF CatalogueNext, TokenNext, StreamNext, vars
<1>3. ASSUME NEW c \in Clerks,
             \/ \E d \in Clerks, new \in {"none", "ADMIN"} : SetRole(c, d, new)
             \/ \E code \in {<<>>} \cup MatchingCodes(batches, "AVAILABLE") : Pay(c, code)
             \/ \E i \in DOMAIN payments, status \in {"PAID", "REFUNDED"} : PaymentStatus(c, i, status)
             \/ CommitPayment(c) \/ WritePayment(c)
      PROVE  TermsIInv'
  <2>1. OfficeTypes' /\ Quiet
    BY <1>3, FirstStepsAreQuiet, WritesOfPaymentsAreQuiet DEF TermsIInv
  <2> QED
    BY <2>1, QuietKeepsTerms
<1>4. ASSUME \/ \E c \in Clerks, reseller \in BOOLEAN : GenerateCodes(c, reseller)
             \/ \E list \in {"payments", "batches", "codes"}, status \in {"ALL", "PAID", "AVAILABLE"} :
                    StartWalk(list, status)
             \/ ReadPage \/ OfficeTick
      PROVE  TermsIInv'
  <2>1. OfficeTypes' /\ Quiet
    BY <1>4, OtherStepsAreQuiet DEF TermsIInv
  <2> QED
    BY <2>1, QuietKeepsTerms
<1>5. ASSUME NEW c \in Clerks, NEW id \in 1..(Len(terms) + 1), Unpublish(c, id)
      PROVE  TermsIInv'
  BY <1>5, UnpublishKeeps DEF TermsIInv, OfficeTypes
<1>6. CASE OfficeNext
  BY <1>6, <1>3, <1>4, <1>5, CreateTermsKeeps, WriteTermsKeeps, PublishKeeps, OfficeLostKeeps
     DEF OfficeNext, OfficeStep
<1> QED
  BY <1>2, <1>6 DEF Next

\* createTerms and publishTerms: whenever the last publication was alone and complete,
\* one version is in force, and two versions have one number only if the later was
\* read before the other was written; however many administrators there are.
THEOREM TermsStayInOrder == Spec => []TermsAreInOrder
<1>1. TermsIInv => TermsAreInOrder
  <2> SUFFICES ASSUME TermsIInv
               PROVE  TermsAreInOrder
    OBVIOUS
  <2>1. \A i \in DOMAIN terms : terms[i].at \in Nat
    <3>1. \A i \in DOMAIN terms : terms[i] \in TermRows
      BY DEF TermsIInv, OfficeTypes
    <3> QED
      BY <3>1 DEF TermRows
  <2>2. ASSUME settled, Doing("publish") = {}
        PROVE  LatestTerms = {i \in DOMAIN terms : terms[i].published} /\ Cardinality(LatestTerms) = 1
    <3>1. PICK i \in DOMAIN terms : terms[i].published /\ \A j \in DOMAIN terms : terms[j].published => j = i
      BY <2>2 DEF TermsIInv, OneInForce
    <3>2. LatestTerms = {i} /\ {j \in DOMAIN terms : terms[j].published} = {i}
      BY <3>1, <2>1 DEF LatestTerms
    <3> QED
      BY <3>2, FS_Singleton
  <2> QED
    BY <2>2 DEF TermsAreInOrder, TermsIInv, SameVersionWasHurried
<1> QED
  BY TermsInitially, TermsStepKeeps, ServerAssumption, BackOfficeAssumption, <1>1, PTL DEF Spec

-----------------------------------------------------------------------------
\* The table of hidden titles.  A title is one of the keys the table can have.
Titles == Ids \X {"movie", "series"}

Working == {"enumerate", "discover", "apply"}

CheckStates ==
    [pc : {"none", "next"} \cup Working, by : {"admin", "job"}, due : SUBSET Keys,
     key : Keys \cup {<<>>}, left : Int, asked : Int, found : BOOLEAN]

TableTypes ==
    /\ unavailable \in [Keys -> [listed : BOOLEAN, due : BOOLEAN]]
    /\ \A id \in Ids : ~unavailable[<<id, "anime">>].listed
    /\ check \in [Checks -> CheckStates]
    /\ \A c \in Checks : IF check[c].pc \in Working THEN check[c].key \in Keys ELSE check[c].key = <<>>
    /\ unawaited \subseteq Titles
    /\ verdict \in [Keys -> {"any", "listed", "free"}]
    /\ crowd \in [Keys -> 0..2]

\* Check c is about title k; it has sent an upsert that hides its title.
On(c, k) == check[c].pc \in Working /\ TitleOf(check[c].key[1], check[c].key[2]) = k

Hiding(c) == check[c].pc = "apply" /\ Lists(check[c])

InUse(k) == k \in unawaited \/ \E c \in Checks : On(c, k)

Agrees(k) ==
    /\ verdict[k] = "listed" => unavailable[k].listed
    /\ verdict[k] = "free" => ~unavailable[k].listed

\* A title at rest agrees with its verdict; one that several operations are about has
\* none; and one with a single check agrees until that check hides it.
Story(k) ==
    /\ ~InUse(k) => Agrees(k)
    /\ InUse(k) /\ crowd[k] # 1 => verdict[k] = "any"
    /\ crowd[k] = 1 =>
          /\ \A c, d \in Checks : On(c, k) /\ On(d, k) => c = d
          /\ \A c \in Checks : On(c, k) /\ Hiding(c) => k \in unawaited \/ unavailable[k].listed
          /\ \A c \in Checks : On(c, k) /\ ~Hiding(c) => k \notin unawaited /\ Agrees(k)
          /\ k \in unawaited /\ (\A c \in Checks : ~On(c, k)) => verdict[k] = "listed"

TableIInv == TableTypes /\ \A k \in Titles : Story(k)

\* normalizeContentType: the row of a title is the one the operations on it write.
LEMMA TitlesAreKeys ==
    /\ \A id \in Ids, type \in ContentTypes :
          TitleOf(id, type) \in Titles /\ KeyOf(id, type) = TitleOf(id, type)
    /\ \A k \in Keys : TitleOf(k[1], k[2]) \in Titles /\ KeyOf(k[1], k[2]) = TitleOf(k[1], k[2])
    /\ \A k \in Titles : k \in Keys /\ TitleOf(k[1], k[2]) = k
    /\ \A k \in Keys : k # <<>>
<1>1. \A id \in Ids, type \in ContentTypes :
          TitleOf(id, type) \in Titles /\ KeyOf(id, type) = TitleOf(id, type)
  BY DEF TitleOf, Titles, KeyOf, NormalizeContentType, ContentTypes
<1>2. \A k \in Keys : k[1] \in Ids /\ k[2] \in ContentTypes
  BY DEF Keys
<1>3. \A k \in Titles : k \in Keys /\ TitleOf(k[1], k[2]) = k
  BY DEF TitleOf, Titles, Keys, ContentTypes
<1>4. \A k \in Keys : k # <<>>
  <2>1. ASSUME NEW k \in Keys, k = <<>>
        PROVE  FALSE
    <3>1. Len(k) = 2 /\ Len(<<>>) = 0
      BY DEF Keys
    <3> QED
      BY <3>1, <2>1
  <2> QED
    BY <2>1
<1> QED
  BY <1>1, <1>2, <1>3, <1>4

LEMMA BusyIsInUse ==
    ASSUME TableTypes, NEW k \in Titles
    PROVE  Busy(k) <=> InUse(k)
<1>1. \A c \in Checks : check[c].pc # "none" /\ check[c].key # <<>> <=> check[c].pc \in Working
  BY TitlesAreKeys DEF TableTypes, Working
<1>2. \A u \in unawaited : TitleOf(u[1], u[2]) = u
  BY TitlesAreKeys DEF TableTypes
<1> QED
  BY <1>1, <1>2 DEF Busy, InUse, On

\* A step that changes nothing of title k.
Same(k) ==
    /\ unavailable'[k].listed = unavailable[k].listed
    /\ verdict'[k] = verdict[k] /\ crowd'[k] = crowd[k]
    /\ k \in unawaited' <=> k \in unawaited
    /\ \A c \in Checks : /\ On(c, k)' <=> On(c, k)
                         /\ On(c, k) => (Hiding(c)' <=> Hiding(c))

LEMMA SameKeepsStory ==
    ASSUME NEW k, Story(k), Same(k)
    PROVE  Story(k)'
<1>1. InUse(k)' <=> InUse(k)
  BY DEF InUse, Same
<1>2. Agrees(k)' <=> Agrees(k)
  BY DEF Agrees, Same
<1> QED
  BY <1>1, <1>2 DEF Story, Same

LEMMA NoCheckIsTyped ==
    /\ NoCheck \in CheckStates /\ NoCheck.pc = "none" /\ NoCheck.key = <<>>
  BY DEF NoCheck, CheckStates

LEMMA TableInitially == Init => TableIInv
<1> SUFFICES ASSUME UnavailableInit
             PROVE  TableIInv
  BY DEF Init
<1>1. Absent \in [listed : BOOLEAN, due : BOOLEAN] /\ ~Absent.listed
  BY DEF Absent
<1>2. \A id \in Ids : <<id, "anime">> \in Keys
  BY DEF Keys, ContentTypes
<1>3. TableTypes
  BY <1>1, <1>2, NoCheckIsTyped DEF UnavailableInit, TableTypes, Working
<1>4. \A k \in Titles : Story(k)
  BY NoCheckIsTyped, TitlesAreKeys DEF UnavailableInit, Story, InUse, On, Agrees, Working
<1> QED
  BY <1>3, <1>4 DEF TableIInv

\* A check begins with a title.
LEMMA EnteringKeepsTable ==
    ASSUME TableIInv, NEW c \in Checks, NEW new \in CheckStates, check[c].pc \notin Working,
           new.pc = "enumerate", new.key \in Keys,
           check' = [check EXCEPT ![c] = new], UNCHANGED <<unavailable, unawaited>>,
           Enters(TitleOf(new.key[1], new.key[2]))
    PROVE  TableIInv'
<1> DEFINE t == TitleOf(new.key[1], new.key[2])
<1>1. t \in Titles /\ t \in Keys
  BY TitlesAreKeys
<1>2. /\ crowd' = [crowd EXCEPT ![t] = IF Busy(t) THEN 2 ELSE 1]
      /\ verdict' = [verdict EXCEPT ![t] = IF Busy(t) THEN "any" ELSE @]
  BY DEF Enters
<1> HIDE DEF t
<1>3. \A d \in Checks : check'[d] = IF d = c THEN new ELSE check[d]
  BY DEF TableIInv, TableTypes
<1>4. TableTypes'
  BY <1>1, <1>2 DEF TableIInv, TableTypes, Working
<1>5. \A d \in Checks, k \in Titles : On(d, k)' <=> IF d = c THEN k = t ELSE On(d, k)
  BY <1>3 DEF On, Working, t
<1>6. \A d \in Checks : d # c => (Hiding(d)' <=> Hiding(d))
  BY <1>3 DEF Hiding
<1>7. ~Hiding(c)' /\ \A k \in Titles : ~On(c, k)
  BY <1>3 DEF Hiding, On
<1>8. ASSUME NEW k \in Titles, k # t
      PROVE  Story(k)'
  <2>1. k \in Keys
    BY TitlesAreKeys
  <2>2. verdict'[k] = verdict[k] /\ crowd'[k] = crowd[k]
    BY <1>2, <1>8, <2>1 DEF TableIInv, TableTypes
  <2>3. Same(k)
    BY <1>5, <1>6, <1>7, <1>8, <2>2 DEF Same
  <2> QED
    BY <2>3, SameKeepsStory DEF TableIInv
<1>9. Story(t)'
  <2>1. InUse(t)'
    BY <1>1, <1>5 DEF InUse
  <2>2. CASE Busy(t)
    <3>1. crowd'[t] = 2 /\ verdict'[t] = "any"
      BY <1>1, <1>2, <2>2 DEF TableIInv, TableTypes
    <3> QED
      BY <2>1, <3>1 DEF Story
  <2>3. CASE ~Busy(t)
    <3>1. ~InUse(t)
      BY <1>1, <2>3, BusyIsInUse DEF TableIInv
    <3>2. crowd'[t] = 1 /\ verdict'[t] = verdict[t]
      BY <1>1, <1>2, <2>3 DEF TableIInv, TableTypes
    <3>3. Agrees(t) /\ Agrees(t)'
      BY <3>1, <3>2, <1>1 DEF TableIInv, Story, Agrees
    <3>4. t \notin unawaited' /\ \A d \in Checks : On(d, t)' => d = c
      BY <3>1, <1>1, <1>5 DEF InUse
    <3> QED
      BY <2>1, <3>2, <3>3, <3>4, <1>7 DEF Story
  <2> QED
    BY <2>2, <2>3
<1> QED
  BY <1>4, <1>8, <1>9 DEF TableIInv

\* A check goes on with its title, or another without one, and nothing is said.
LEMMA GoingOnKeepsTable ==
    ASSUME TableIInv, NEW c \in Checks, NEW new \in CheckStates,
           check[c].pc # "apply", new.pc # "apply", new.key = check[c].key,
           new.pc \in Working <=> check[c].pc \in Working,
           check' = [check EXCEPT ![c] = new], UNCHANGED <<unavailable, unawaited, verdict, crowd>>
    PROVE  TableIInv'
<1>1. \A d \in Checks : check'[d] = IF d = c THEN new ELSE check[d]
  BY DEF TableIInv, TableTypes
<1>2. TableTypes'
  BY <1>1 DEF TableIInv, TableTypes
<1>3. \A k \in Titles : Same(k)
  BY <1>1 DEF Same, On, Hiding
<1> QED
  BY <1>2, <1>3, SameKeepsStory DEF TableIInv

LEMMA FirstStepsKeepTable ==
    ASSUME TableIInv, NEW c \in Checks,
           \/ \E id \in Ids, type \in ContentTypes : StartCheck(c, id, type)
           \/ StartRecheck(c)
    PROVE  TableIInv'
<1>1. ASSUME NEW id \in Ids, NEW type \in ContentTypes, StartCheck(c, id, type)
      PROVE  TableIInv'
  <2> DEFINE new == [NoCheck EXCEPT !.pc = "enumerate", !.key = <<id, type>>]
  <2>1. <<id, type>> \in Keys /\ TitleOf(id, type) = TitleOf(<<id, type>>[1], <<id, type>>[2])
    BY DEF Keys
  <2>2. new \in CheckStates /\ new.pc = "enumerate" /\ new.key = <<id, type>>
    BY <2>1, NoCheckIsTyped DEF CheckStates, Working
  <2>3. /\ check[c].pc \notin Working /\ check' = [check EXCEPT ![c] = new]
        /\ UNCHANGED <<unavailable, unawaited>> /\ Enters(TitleOf(id, type))
    BY <1>1 DEF StartCheck, Working
  <2> HIDE DEF new
  <2> QED
    BY <2>1, <2>2, <2>3, EnteringKeepsTable
<1>2. CASE StartRecheck(c)
  <2> DEFINE new == [NoCheck EXCEPT !.pc = "next", !.by = "job", !.due = Due]
  <2>1. Due \subseteq Keys
    BY DEF Due
  <2>2. new \in CheckStates /\ new.pc = "next" /\ new.key = <<>>
    BY <2>1, NoCheckIsTyped DEF CheckStates
  <2>3. check[c].pc = "none" /\ check[c].key = <<>>
    BY <1>2 DEF StartRecheck, TableIInv, TableTypes, Working
  <2>4. check' = [check EXCEPT ![c] = new] /\ UNCHANGED <<unavailable, unawaited, verdict, crowd>>
    BY <1>2 DEF StartRecheck
  <2> HIDE DEF new
  <2> QED
    BY <2>2, <2>3, <2>4, GoingOnKeepsTable DEF Working
<1> QED
  BY <1>1, <1>2

LEMMA NextDueKeepsTable ==
    ASSUME TableIInv, NEW c \in Checks, NextDue(c)
    PROVE  TableIInv'
<1>1. check[c] \in CheckStates /\ check[c].pc = "next" /\ check[c].key = <<>>
  BY DEF NextDue, TableIInv, TableTypes, Working
<1>2. CASE check' = [check EXCEPT ![c] = NoCheck] /\ UNCHANGED <<unavailable, unawaited, verdict, crowd>>
  BY <1>1, <1>2, NoCheckIsTyped, GoingOnKeepsTable DEF Working
<1>3. ASSUME NEW k \in check[c].due, Enters(TitleOf(k[1], k[2])), UNCHANGED <<unavailable, unawaited>>,
             check' = [check EXCEPT ![c] = [NoCheck EXCEPT !.pc = "enumerate", !.by = "job",
                            !.due = check[c].due \ {k}, !.key = k]]
      PROVE  TableIInv'
  <2> DEFINE rest == check[c].due \ {k}
             new  == [NoCheck EXCEPT !.pc = "enumerate", !.by = "job", !.due = rest, !.key = k]
  <2>0. check[c].due \in SUBSET Keys
    BY <1>1 DEF CheckStates
  <2>1. k \in Keys /\ rest \in SUBSET Keys
    BY <2>0
  <2>2. check' = [check EXCEPT ![c] = new]
    BY <1>3
  <2> HIDE DEF rest
  <2>3. new \in CheckStates /\ new.pc = "enumerate" /\ new.key = k
    BY <2>1, NoCheckIsTyped DEF CheckStates, Working
  <2> HIDE DEF new
  <2> QED
    BY <1>1, <1>3, <2>1, <2>2, <2>3, EnteringKeepsTable DEF Working
<1> QED
  BY <1>2, <1>3 DEF NextDue

LEMMA EnumerateKeepsTable ==
    ASSUME UnavailableAssumption, TableIInv, NEW c \in Checks, Enumerate(c)
    PROVE  TableIInv'
<1>1. PICK n \in IF NormalizeContentType(check[c].key[2]) = "movie" THEN {1} ELSE 0..MaxEpisodes :
          check' = [check EXCEPT ![c].pc = "discover", ![c].left = n]
  BY DEF Enumerate
<1> DEFINE new == [check[c] EXCEPT !.pc = "discover", !.left = n]
<1>2. check \in [Checks -> CheckStates] /\ check[c] \in CheckStates /\ check[c].pc = "enumerate"
  BY DEF Enumerate, TableIInv, TableTypes
<1>3. n \in Int
  BY DEF UnavailableAssumption
<1>4. check' = [check EXCEPT ![c] = new]
  BY <1>1, <1>2
<1>5. new \in CheckStates /\ new.pc = "discover" /\ new.key = check[c].key
  BY <1>2, <1>3 DEF CheckStates, Working
<1>6. UNCHANGED <<unavailable, unawaited, verdict, crowd>>
  BY DEF Enumerate
<1> HIDE DEF new
<1> QED
  BY <1>2, <1>4, <1>5, <1>6, GoingOnKeepsTable DEF Working

\* Whether a check lists its title does not depend on the step it is at.
LEMMA ListsBeforeApply ==
    ASSUME NEW ck \in CheckStates, NEW pc \in Working
    PROVE  LET new == [ck EXCEPT !.pc = pc]
           IN  /\ new \in CheckStates /\ new.pc = pc /\ new.key = ck.key
               /\ Lists(new) <=> Lists(ck)
  BY DEF CheckStates, Lists, Partial

LEMMA DiscoverBatchKeepsTable ==
    ASSUME UnavailableAssumption, TableIInv, NEW c \in Checks, DiscoverBatch(c)
    PROVE  TableIInv'
<1> DEFINE batch == IF check[c].left < CheckConcurrency THEN check[c].left ELSE CheckConcurrency
           left  == check[c].left - batch
           count == check[c].asked + batch
           ck(found) == [check[c] EXCEPT !.left = left, !.asked = count, !.found = found]
           over(found) == ck(found).found \/ ck(found).left = 0 \/ Partial(ck(found))
           next(found) == [ck(found) EXCEPT !.pc = IF over(found) THEN "apply" ELSE "discover"]
<1>1. PICK found \in BOOLEAN :
        /\ check' = [check EXCEPT ![c] = next(found)]
        /\ unawaited' = IF over(found) /\ Lists(ck(found))
                        THEN unawaited \cup {KeyOf(ck(found).key[1], ck(found).key[2])}
                        ELSE unawaited
  BY DEF DiscoverBatch
<1> DEFINE new == next(found)
<1>2. /\ check \in [Checks -> CheckStates] /\ check[c] \in CheckStates
      /\ check[c].pc = "discover" /\ check[c].key \in Keys
      /\ UNCHANGED <<unavailable, verdict, crowd>>
  BY DEF DiscoverBatch, TableIInv, TableTypes, Working
<1>3. left \in Int /\ count \in Int
  <2>1. check[c].left \in Int /\ check[c].asked \in Int
    BY <1>2 DEF CheckStates
  <2>2. batch \in Int
    BY <2>1 DEF UnavailableAssumption
  <2> HIDE DEF batch
  <2> QED
    BY <2>1, <2>2
<1>4. ck(found) \in CheckStates /\ ck(found).key = check[c].key
  <2> HIDE DEF left, count
  <2> QED
    BY <1>2, <1>3 DEF CheckStates
<1>5. PICK t \in Titles : /\ t = TitleOf(check[c].key[1], check[c].key[2])
                          /\ t = KeyOf(check[c].key[1], check[c].key[2])
  BY <1>2, TitlesAreKeys
<1>6. /\ new \in CheckStates /\ new.pc \in {"apply", "discover"} /\ new.key = check[c].key
      /\ unawaited' = IF new.pc = "apply" /\ Lists(new) THEN unawaited \cup {t} ELSE unawaited
  <2> DEFINE old == ck(found)
             done == over(found)
             pc   == IF done THEN "apply" ELSE "discover"
  <2>1. new = [old EXCEPT !.pc = pc] /\ pc \in Working /\ (done <=> pc = "apply")
    BY DEF Working
  <2>2. unawaited' = IF done /\ Lists(old) THEN unawaited \cup {t} ELSE unawaited
    BY <1>1, <1>4, <1>5
  <2>3. old \in CheckStates /\ old.key = check[c].key
    BY <1>4
  <2>4. pc \in {"apply", "discover"}
    OBVIOUS
  <2> HIDE DEF old, done, new, pc
  <2>5. new \in CheckStates /\ new.pc = pc /\ new.key = old.key /\ (Lists(new) <=> Lists(old))
    BY <2>1, <2>3, ListsBeforeApply
  <2> QED
    BY <2>1, <2>2, <2>3, <2>4, <2>5
<1>7. check' = [check EXCEPT ![c] = new]
  BY <1>1
<1> HIDE DEF new, ck, next, over, batch, left, count
<1>8. \A d \in Checks : check'[d] = IF d = c THEN new ELSE check[d]
  BY <1>2, <1>7
<1>9. TableTypes'
  BY <1>2, <1>5, <1>6, <1>7, <1>8 DEF TableIInv, TableTypes, Working
<1>10. /\ \A d \in Checks, k \in Titles : On(d, k)' <=> On(d, k)
       /\ \A d \in Checks : d # c => (Hiding(d)' <=> Hiding(d))
       /\ \A k \in Titles : On(c, k) <=> k = t
       /\ Hiding(c)' <=> new.pc = "apply" /\ Lists(new)
       /\ ~Hiding(c)
  BY <1>2, <1>5, <1>6, <1>8 DEF On, Hiding, Working
<1>11. ASSUME NEW k \in Titles, k # t
       PROVE  Story(k)'
  <2>1. Same(k)
    BY <1>2, <1>6, <1>10, <1>11 DEF Same
  <2> QED
    BY <2>1, SameKeepsStory DEF TableIInv
<1>12. Story(t)'
  <2>1. Story(t) /\ On(c, t) /\ On(c, t)' /\ InUse(t) /\ InUse(t)'
    BY <1>5, <1>10 DEF TableIInv, InUse
  <2>2. CASE crowd[t] # 1
    BY <2>1, <2>2, <1>2 DEF Story
  <2>3. CASE crowd[t] = 1
    <3>1. t \notin unawaited /\ Agrees(t) /\ \A d \in Checks : On(d, t) => d = c
      BY <2>1, <2>3, <1>10 DEF Story
    <3>2. Agrees(t)'
      BY <3>1, <1>2 DEF Agrees
    <3>3. Hiding(c)' => t \in unawaited'
      BY <1>6, <1>10
    <3>4. ~Hiding(c)' => t \notin unawaited'
      BY <3>1, <1>6, <1>10
    <3> QED
      BY <2>1, <2>3, <3>1, <3>2, <3>3, <3>4, <1>2, <1>5, <1>10 DEF Story
  <2> QED
    BY <2>2, <2>3
<1> QED
  BY <1>9, <1>11, <1>12 DEF TableIInv

\* What applyResult leaves of a row, and what the check says.
LEMMA ApplyKeepsTable ==
    ASSUME TableIInv, NEW c \in Checks, Apply(c)
    PROVE  TableIInv'
<1>1. /\ check \in [Checks -> CheckStates] /\ check[c] \in CheckStates
      /\ check[c].pc = "apply" /\ check[c].key \in Keys /\ UNCHANGED <<unawaited, crowd>>
  BY DEF Apply, Concludes, TableIInv, TableTypes, Working
<1>2. PICK t \in Titles : /\ t = TitleOf(check[c].key[1], check[c].key[2])
                          /\ t = KeyOf(check[c].key[1], check[c].key[2])
  BY <1>1, TitlesAreKeys
<1>3. t \in Keys
  BY TitlesAreKeys
<1> DEFINE row == CASE check[c].found -> Absent
                    [] check[c].by = "admin" /\ Lists(check[c]) -> Renewed
                    [] check[c].by = "job" /\ ~check[c].found /\ unavailable[t].listed -> [unavailable[t] EXCEPT !.due = FALSE]
                    [] OTHER -> unavailable[t]
           says == CASE check[c].found  -> "free"
                     [] Lists(check[c]) -> "listed"
                     [] OTHER           -> verdict[t]
           due == check[c].due
           new == IF check[c].by = "admin" THEN NoCheck
                  ELSE [NoCheck EXCEPT !.pc = "next", !.by = "job", !.due = due]
<1>4. /\ unavailable' = [unavailable EXCEPT ![t] = row]
      /\ verdict' = [verdict EXCEPT ![t] = IF crowd[t] = 1 THEN says ELSE "any"]
      /\ check' = [check EXCEPT ![c] = new]
  BY <1>2 DEF Apply, Concludes
<1>5. unavailable[t] \in [listed : BOOLEAN, due : BOOLEAN] /\ verdict[t] \in {"any", "listed", "free"}
  BY <1>3 DEF TableIInv, TableTypes
<1>6. Lists(check[c]) => ~check[c].found
  BY DEF Lists
<1>7. /\ row \in [listed : BOOLEAN, due : BOOLEAN]
      /\ check[c].found => ~row.listed /\ says = "free"
      /\ Lists(check[c]) => /\ says = "listed"
                            /\ row.listed \/ ~unavailable[t].listed
                            /\ unavailable[t].listed => row.listed
      /\ ~check[c].found /\ ~Lists(check[c]) => row.listed = unavailable[t].listed /\ says = verdict[t]
  <2>1. /\ Absent \in [listed : BOOLEAN, due : BOOLEAN] /\ ~Absent.listed
        /\ Renewed \in [listed : BOOLEAN, due : BOOLEAN] /\ Renewed.listed
    BY DEF Absent, Renewed
  <2> DEFINE waits == [unavailable[t] EXCEPT !.due = FALSE]
  <2>2. waits \in [listed : BOOLEAN, due : BOOLEAN] /\ waits.listed = unavailable[t].listed
    BY <1>5
  <2> HIDE DEF waits
  <2>3. CASE check[c].found
    <3>1. row = Absent
      BY <2>3, <1>6
    <3>2. says = "free"
      BY <2>3, <1>6
    <3> HIDE DEF row, says
    <3> QED
      BY <2>1, <2>3, <3>1, <3>2, <1>6
  <2>4. CASE Lists(check[c])
    <3>1. ~check[c].found
      BY <2>4, <1>6
    <3>2. says = "listed"
      BY <2>4, <3>1
    <3>3. row = Renewed \/ row = waits \/ row = unavailable[t]
      BY <3>1 DEF waits
    <3>4. row.listed \/ ~unavailable[t].listed
      BY <2>1, <2>2, <3>3
    <3>5. row \in [listed : BOOLEAN, due : BOOLEAN]
      BY <2>1, <2>2, <3>3, <1>5
    <3> HIDE DEF row, says
    <3> QED
      BY <2>4, <3>1, <3>2, <3>4, <3>5
  <2>5. CASE ~check[c].found /\ ~Lists(check[c])
    <3>1. (row = waits \/ row = unavailable[t]) /\ says = verdict[t]
      BY <2>5 DEF waits
    <3> HIDE DEF row, says
    <3> QED
      BY <2>2, <2>5, <3>1, <1>5
  <2> QED
    BY <2>3, <2>4, <2>5
<1>8. says \in {"any", "listed", "free"}
  BY <1>5
<1>9. new \in CheckStates /\ new.pc \notin Working /\ new.key = <<>>
  <2>1. due \in SUBSET Keys
    BY <1>1 DEF CheckStates
  <2> HIDE DEF due
  <2> QED
    BY <2>1, NoCheckIsTyped DEF CheckStates, Working
<1> HIDE DEF row, says, new, due
<1>10. \A d \in Checks : check'[d] = IF d = c THEN new ELSE check[d]
  BY <1>1, <1>4
<1>11. \A id \in Ids : <<id, "anime">> \in Keys /\ <<id, "anime">> # t
  BY DEF Keys, ContentTypes, Titles
<1>12. /\ \A k \in Keys : k # t => unavailable'[k] = unavailable[k] /\ verdict'[k] = verdict[k]
       /\ unavailable'[t] = row /\ verdict'[t] = IF crowd[t] = 1 THEN says ELSE "any"
  BY <1>3, <1>4 DEF TableIInv, TableTypes
<1>13. TableTypes'
  <2>1. unavailable' \in [Keys -> [listed : BOOLEAN, due : BOOLEAN]]
    BY <1>4, <1>7 DEF TableIInv, TableTypes
  <2>2. verdict' \in [Keys -> {"any", "listed", "free"}]
    BY <1>4, <1>8 DEF TableIInv, TableTypes
  <2>3. check' \in [Checks -> CheckStates]
    BY <1>1, <1>4, <1>9
  <2> QED
    BY <1>1, <1>9, <1>10, <1>11, <1>12, <2>1, <2>2, <2>3 DEF TableIInv, TableTypes
<1>14. /\ \A d \in Checks, k \in Titles : On(d, k)' <=> d # c /\ On(d, k)
       /\ \A d \in Checks : d # c => (Hiding(d)' <=> Hiding(d))
       /\ \A k \in Titles : On(c, k) <=> k = t
       /\ Hiding(c) <=> Lists(check[c])
  BY <1>1, <1>2, <1>9, <1>10 DEF On, Hiding, Working
<1>15. ASSUME NEW k \in Titles, k # t
       PROVE  Story(k)'
  <2>1. k \in Keys
    BY TitlesAreKeys
  <2>2. unavailable'[k] = unavailable[k] /\ verdict'[k] = verdict[k]
    BY <1>12, <1>15, <2>1
  <2>3. \A d \in Checks : (On(d, k)' <=> On(d, k)) /\ (On(d, k) => (Hiding(d)' <=> Hiding(d)))
    BY <1>14, <1>15
  <2>4. Same(k)
    BY <1>1, <2>2, <2>3 DEF Same
  <2> QED
    BY <2>4, SameKeepsStory DEF TableIInv
<1>16. Story(t)'
  <2>1. Story(t) /\ On(c, t) /\ InUse(t)
    BY <1>14 DEF TableIInv, InUse
  <2>2. CASE crowd[t] # 1
    <3>1. verdict'[t] = "any" /\ crowd'[t] # 1
      BY <2>2, <1>1, <1>12
    <3> QED
      BY <3>1 DEF Story, Agrees
  <2>3. CASE crowd[t] = 1
    <3>1. /\ \A d \in Checks : ~On(d, t)'
          /\ Hiding(c) => t \in unawaited \/ unavailable[t].listed
          /\ ~Hiding(c) => t \notin unawaited /\ Agrees(t)
      BY <2>1, <2>3, <1>14 DEF Story
    <3>2. InUse(t)' <=> t \in unawaited
      BY <3>1, <1>1 DEF InUse
    <3>3. CASE Lists(check[c])
      <4>1. verdict'[t] = "listed" /\ (t \in unawaited \/ unavailable'[t].listed)
        BY <3>1, <3>3, <2>3, <1>7, <1>12, <1>14
      <4> QED
        BY <4>1, <3>1, <3>2, <2>3, <1>1 DEF Story, Agrees
    <3>4. CASE ~Lists(check[c])
      <4>1. t \notin unawaited /\ Agrees(t)
        BY <3>1, <3>4, <1>14
      <4>2. Agrees(t)'
        BY <4>1, <3>4, <2>3, <1>7, <1>12 DEF Agrees
      <4> QED
        BY <4>1, <4>2, <3>1, <3>2, <2>3, <1>1 DEF Story
    <3> QED
      BY <3>3, <3>4
  <2> QED
    BY <2>2, <2>3
<1> QED
  BY <1>13, <1>15, <1>16 DEF TableIInv

LEMMA WriteUnawaitedKeepsTable ==
    ASSUME TableIInv, WriteUnawaited
    PROVE  TableIInv'
<1>1. PICK t \in unawaited : /\ unavailable' = [unavailable EXCEPT ![t] = Renewed]
                             /\ unawaited' = unawaited \ {t}
                             /\ UNCHANGED <<check, verdict, crowd>>
  BY DEF WriteUnawaited
<1>2. t \in Titles /\ t \in Keys
  BY TitlesAreKeys DEF TableIInv, TableTypes
<1>3. Renewed \in [listed : BOOLEAN, due : BOOLEAN] /\ Renewed.listed
  BY DEF Renewed
<1>4. \A id \in Ids : <<id, "anime">> \in Keys /\ <<id, "anime">> # t
  BY <1>2 DEF Keys, ContentTypes, Titles
<1>5. unavailable'[t] = Renewed /\ \A k \in Keys : k # t => unavailable'[k] = unavailable[k]
  BY <1>1, <1>2 DEF TableIInv, TableTypes
<1>6. TableTypes'
  BY <1>1, <1>3, <1>4, <1>5 DEF TableIInv, TableTypes
<1>7. /\ \A d \in Checks, k \in Titles : On(d, k)' <=> On(d, k)
      /\ \A d \in Checks : Hiding(d)' <=> Hiding(d)
  BY <1>1 DEF On, Hiding
<1>8. ASSUME NEW k \in Titles, k # t
      PROVE  Story(k)'
  <2>1. k \in Keys
    BY TitlesAreKeys
  <2>2. Same(k)
    BY <1>1, <1>5, <1>7, <1>8, <2>1 DEF Same
  <2> QED
    BY <2>2, SameKeepsStory DEF TableIInv
<1>9. Story(t)'
  <2>1. Story(t) /\ InUse(t) /\ t \notin unawaited' /\ unavailable'[t].listed
    BY <1>1, <1>2, <1>3, <1>5 DEF TableIInv, InUse
  <2>2. CASE crowd[t] # 1
    BY <2>1, <2>2, <1>1 DEF Story, Agrees
  <2>3. CASE crowd[t] = 1
    <3>1. \A d \in Checks : On(d, t) => Hiding(d)
      BY <2>1, <2>3, <1>1 DEF Story
    <3>2. ~InUse(t)' => verdict[t] = "listed"
      BY <2>1, <2>3, <1>1, <1>2, <1>7 DEF Story, InUse
    <3> QED
      BY <3>1, <3>2, <2>1, <2>3, <1>1, <1>2, <1>7 DEF Story, Agrees
  <2> QED
    BY <2>2, <2>3
<1> QED
  BY <1>6, <1>8, <1>9 DEF TableIInv

\* register and remove, of one step.
LEMMA SayingKeepsTable ==
    ASSUME TableIInv, NEW t \in Titles, NEW row \in [listed : BOOLEAN, due : BOOLEAN],
           NEW v \in {"listed", "free"}, row.listed <=> v = "listed",
           unavailable' = [unavailable EXCEPT ![t] = row], Says(t, v), UNCHANGED <<check, unawaited>>
    PROVE  TableIInv'
<1>1. t \in Keys
  BY TitlesAreKeys
<1>2. Busy(t) <=> InUse(t)
  BY BusyIsInUse DEF TableIInv
<1>3. \A id \in Ids : <<id, "anime">> \in Keys /\ <<id, "anime">> # t
  BY DEF Keys, ContentTypes, Titles
<1>4. /\ \A k \in Keys : k # t => /\ unavailable'[k] = unavailable[k] /\ verdict'[k] = verdict[k]
                                  /\ crowd'[k] = crowd[k]
      /\ unavailable'[t] = row /\ verdict'[t] = IF InUse(t) THEN "any" ELSE v
      /\ crowd'[t] = IF InUse(t) THEN 2 ELSE crowd[t]
  BY <1>1, <1>2 DEF Says, TableIInv, TableTypes
<1>5. TableTypes'
  <2>1. /\ unavailable' \in [Keys -> [listed : BOOLEAN, due : BOOLEAN]]
        /\ verdict' \in [Keys -> {"any", "listed", "free"}] /\ crowd' \in [Keys -> 0..2]
    BY <1>1 DEF Says, TableIInv, TableTypes
  <2> QED
    BY <1>3, <1>4, <2>1 DEF TableIInv, TableTypes
<1>6. /\ \A d \in Checks, k \in Titles : On(d, k)' <=> On(d, k)
      /\ \A d \in Checks : Hiding(d)' <=> Hiding(d)
  BY DEF On, Hiding
<1>7. ASSUME NEW k \in Titles, k # t
      PROVE  Story(k)'
  <2>1. k \in Keys
    BY TitlesAreKeys
  <2>2. Same(k)
    BY <1>4, <1>6, <1>7, <2>1 DEF Same
  <2> QED
    BY <2>2, SameKeepsStory DEF TableIInv
<1>8. Story(t)'
  <2>1. InUse(t)' <=> InUse(t)
    BY <1>6 DEF InUse
  <2>2. CASE InUse(t)
    BY <2>1, <2>2, <1>4 DEF Story
  <2>3. CASE ~InUse(t)
    <3>1. Agrees(t)'
      BY <2>3, <1>4 DEF Agrees
    <3>2. t \notin unawaited' /\ \A d \in Checks : ~On(d, t)'
      BY <2>3, <1>6 DEF InUse
    <3> QED
      BY <3>1, <3>2, <2>1, <2>3 DEF Story
  <2> QED
    BY <2>2, <2>3
<1> QED
  BY <1>5, <1>7, <1>8 DEF TableIInv

LEMMA HandsKeepTable ==
    ASSUME TableIInv, NEW id \in Ids, NEW type \in ContentTypes,
           RegisterUnavailable(id, type) \/ RemoveUnavailable(id, type)
    PROVE  TableIInv'
<1>1. TitleOf(id, type) \in Titles /\ KeyOf(id, type) = TitleOf(id, type)
  BY TitlesAreKeys
<1>2. /\ Renewed \in [listed : BOOLEAN, due : BOOLEAN] /\ Renewed.listed
      /\ Absent \in [listed : BOOLEAN, due : BOOLEAN] /\ ~Absent.listed
  BY DEF Renewed, Absent
<1>3. CASE RegisterUnavailable(id, type)
  BY <1>1, <1>2, <1>3, SayingKeepsTable DEF RegisterUnavailable
<1>4. CASE RemoveUnavailable(id, type)
  <2>1. type # "anime"
    BY <1>4 DEF RemoveUnavailable, TableIInv, TableTypes
  <2>2. TitleOf(id, type) = <<id, type>>
    BY <2>1 DEF TitleOf, ContentTypes
  <2> QED
    BY <1>1, <1>2, <1>4, <2>2, SayingKeepsTable DEF RemoveUnavailable
<1> QED
  BY <1>3, <1>4

LEMMA TimeKeepsTable ==
    ASSUME TableIInv, UnavailableTick
    PROVE  TableIInv'
<1>1. ASSUME NEW k \in Keys
      PROVE  /\ unavailable'[k] \in [listed : BOOLEAN, due : BOOLEAN]
             /\ unavailable'[k].listed = unavailable[k].listed
  <2>1. unavailable[k] \in [listed : BOOLEAN, due : BOOLEAN]
    BY DEF TableIInv, TableTypes
  <2>2. unavailable'[k] = IF unavailable[k].listed THEN [unavailable[k] EXCEPT !.due = TRUE] ELSE Absent
    BY DEF UnavailableTick
  <2>3. CASE unavailable[k].listed
    <3>1. unavailable'[k] = [unavailable[k] EXCEPT !.due = TRUE]
      BY <2>2, <2>3
    <3> QED
      BY <2>1, <3>1
  <2>4. CASE ~unavailable[k].listed
    <3>1. unavailable'[k] = [listed |-> FALSE, due |-> FALSE]
      BY <2>2, <2>4 DEF Absent
    <3>2. unavailable'[k] \in [listed : BOOLEAN, due : BOOLEAN] /\ unavailable'[k].listed = FALSE
      BY <3>1
    <3>3. unavailable[k].listed = FALSE
      BY <2>1, <2>4
    <3> QED
      BY <3>2, <3>3
  <2> QED
    BY <2>3, <2>4
<1>2. \A id \in Ids : <<id, "anime">> \in Keys
  BY DEF Keys, ContentTypes
<1>3. unavailable' \in [Keys -> [listed : BOOLEAN, due : BOOLEAN]] /\ UNCHANGED <<check, unawaited, verdict, crowd>>
  BY <1>1 DEF UnavailableTick
<1>4. TableTypes'
  BY <1>1, <1>2, <1>3 DEF TableIInv, TableTypes
<1>5. \A k \in Titles : Same(k)
  BY <1>1, <1>3, TitlesAreKeys DEF Same, On, Hiding
<1> QED
  BY <1>4, <1>5, SameKeepsStory DEF TableIInv

LEMMA RestartKeepsTable ==
    ASSUME TableIInv, UnavailableLost
    PROVE  TableIInv'
<1>1. /\ check' \in [Checks -> CheckStates] /\ \A c \in Checks : check'[c] = NoCheck
      /\ unawaited' = {} /\ UNCHANGED <<unavailable, crowd>>
      /\ \A k \in Keys : verdict'[k] = IF Busy(k) THEN "any" ELSE verdict[k]
      /\ verdict' \in [Keys -> {"any", "listed", "free"}]
  BY NoCheckIsTyped DEF UnavailableLost, TableIInv, TableTypes
<1>2. TableTypes'
  BY <1>1, NoCheckIsTyped DEF TableIInv, TableTypes, Working
<1>3. ASSUME NEW k \in Titles
      PROVE  Story(k)'
  <2>1. k \in Keys /\ (Busy(k) <=> InUse(k))
    BY TitlesAreKeys, BusyIsInUse DEF TableIInv
  <2>2. k \notin unawaited' /\ \A c \in Checks : ~On(c, k)'
    BY <1>1, NoCheckIsTyped DEF On, Working
  <2>3. ~InUse(k)'
    BY <2>2 DEF InUse
  <2>4. Agrees(k)'
    BY <1>1, <2>1 DEF Agrees, Story, TableIInv
  <2> QED
    BY <2>2, <2>3, <2>4 DEF Story
<1> QED
  BY <1>2, <1>3 DEF TableIInv

LEMMA TableStepKeeps == UnavailableAssumption /\ TableIInv /\ [Next]_vars => TableIInv'
<1> SUFFICES ASSUME UnavailableAssumption, TableIInv, [Next]_vars
             PROVE  TableIInv'
  OBVIOUS
<1>1. CASE UNCHANGED unavailableVars
  <2>1. UNCHANGED <<unavailable, check, unawaited, verdict, crowd>>
    BY <1>1 DEF unavailableVars
  <2>2. TableTypes'
    BY <2>1 DEF TableIInv, TableTypes
  <2>3. \A k \in Titles : Same(k)
    BY <2>1 DEF Same, On, Hiding
  <2> QED
    BY <2>2, <2>3, SameKeepsStory DEF TableIInv
<1>2. CASE TokenNext \/ OfficeNext \/ StreamNext \/ UNCHANGED vars
  BY <1>2, <1>1 DEF TokenNext, OfficeNext, StreamNext, vars, catalogueVars
<1>3. CASE Ask \/ Toggle
  BY <1>3, <1>1 DEF Ask, Toggle
<1>4. CASE Curate
  BY <1>4, HandsKeepTable, FirstStepsKeepTable DEF Curate
<1>5. CASE CatalogueTick \/ CatalogueRestart
  BY <1>5, TimeKeepsTable, RestartKeepsTable DEF CatalogueTick, CatalogueRestart
<1>6. CASE CatalogueStep
  BY <1>6, <1>1, NextDueKeepsTable, EnumerateKeepsTable, DiscoverBatchKeepsTable, ApplyKeepsTable,
     WriteUnawaitedKeepsTable DEF CatalogueStep, UnavailableStep
<1> QED
  BY <1>2, <1>3, <1>4, <1>5, <1>6 DEF Next, CatalogueNext

\* register, remove and applyResult, awaited or not: once every operation on a title is
\* over, the table says what the last of them said, if it ran alone; for any number of
\* checks, and shows of any length.
THEOREM TheTableKeepsItsVerdicts == Spec => []TableKeepsTheVerdict
<1>1. TableIInv => TableKeepsTheVerdict
  <2> SUFFICES ASSUME TableIInv, NEW id \in Ids, NEW type \in {"movie", "series"}, ~Busy(<<id, type>>)
               PROVE  Agrees(<<id, type>>)
    BY DEF TableKeepsTheVerdict, Agrees
  <2>1. <<id, type>> \in Titles
    BY DEF Titles
  <2> QED
    BY <2>1, BusyIsInUse DEF TableIInv, Story
<1> QED
  BY TableInitially, TableStepKeeps, UnavailableAssumption, <1>1, PTL DEF Spec

-----------------------------------------------------------------------------
\* Sums.  The theorems of induction take a predicate, which the provers cannot
\* instantiate; that a set of subsets has a least member says the same of a set.
LEMMA LeastSubset ==
    ASSUME NEW D, IsFiniteSet(D), NEW T, T \subseteq SUBSET D, T # {}
    PROVE  \E s \in T : \A r \in T : ~(r \subseteq s /\ r # s)
<1> DEFINE R == StrictSubsetOrdering(D)
<1>1. IsWellFoundedOn(R, SUBSET D)
  BY FS_StrictSubsetOrderingWellFounded, FS_FiniteSubsetsOfFinite
<1>2. \A s, r \in SUBSET D : <<r, s>> \in R <=> r \subseteq s /\ r # s
  BY DEF StrictSubsetOrdering
<1> HIDE DEF R
<1>3. \E s \in T : \A r \in T : ~(<<r, s>> \in R)
  BY <1>1, WFMin
<1> QED
  BY <1>2, <1>3

\* What FoldFunction adds up: one element, and then the others.
SumOf(f, g, s) == IF s = {} THEN 0 ELSE f[CHOOSE x \in s : TRUE] + g[s \ {CHOOSE x \in s : TRUE}]

LEMMA FoldIs ==
    ASSUME NEW D, IsFiniteSet(D), NEW f, DOMAIN f = D, NEW g, g = [s \in SUBSET D |-> SumOf(f, g, s)]
    PROVE  Total(f) = g[D]
<1> DEFINE Step(i) == [s \in SUBSET D |-> IF s = {} THEN 0
                            ELSE f[CHOOSE x \in s : TRUE] + i[s \ {CHOOSE x \in s : TRUE}]]
           h == CHOOSE i : i = Step(i)
<1>1. Total(f) = h[D]
  BY DEF Total, FoldFunction, FoldFunctionOnSet, MapThenFoldSet
<1>2. h = [s \in SUBSET D |-> SumOf(f, h, s)]
  <2>1. g = Step(g)
    BY DEF SumOf
  <2>2. h = Step(h)
    <3> HIDE DEF Step
    <3> QED
      BY <2>1, Zenon
  <2> HIDE DEF h
  <2> QED
    BY <2>2 DEF SumOf
<1> HIDE DEF h
<1> DEFINE T == {s \in SUBSET D : g[s] # h[s]}
<1>3. T = {}
  <2> SUFFICES ASSUME T # {}
               PROVE  FALSE
    OBVIOUS
  <2>1. PICK s \in T : \A r \in T : ~(r \subseteq s /\ r # s)
    <3>1. T \subseteq SUBSET D
      OBVIOUS
    <3> HIDE DEF T
    <3> QED
      BY <3>1, LeastSubset
  <2>2. s \in SUBSET D /\ g[s] # h[s]
    OBVIOUS
  <2>3. g[s] = SumOf(f, g, s) /\ h[s] = SumOf(f, h, s)
    BY <1>2, <2>2
  <2>4. CASE s = {}
    BY <2>2, <2>3, <2>4 DEF SumOf
  <2>5. CASE s # {}
    <3> DEFINE x == CHOOSE x \in s : TRUE
    <3>1. x \in s
      BY <2>5
    <3>2. g[s] = f[x] + g[s \ {x}] /\ h[s] = f[x] + h[s \ {x}]
      BY <2>3, <2>5 DEF SumOf
    <3> HIDE DEF x
    <3>3. s \ {x} \in SUBSET D /\ s \ {x} \subseteq s /\ s \ {x} # s
      BY <2>2, <3>1
    <3>4. g[s \ {x}] = h[s \ {x}]
      BY <3>3, <2>1
    <3> QED
      BY <2>2, <3>2, <3>4
  <2> QED
    BY <2>4, <2>5
<1> QED
  BY <1>1, <1>3

\* The elements of a set, counted by what a function says of them.
LEMMA FibresAddUp ==
    ASSUME NEW S, IsFiniteSet(S), NEW D, IsFiniteSet(D), NEW of \in [S -> D]
    PROVE  Total([d \in D |-> Cardinality({s \in S : of[s] = d})]) = Cardinality(S)
<1> DEFINE f == [d \in D |-> Cardinality({s \in S : of[s] = d})]
           g == [E \in SUBSET D |-> Cardinality({s \in S : of[s] \in E})]
<1>0. /\ \A E \in SUBSET D : g[E] = Cardinality({s \in S : of[s] \in E})
      /\ \A x \in D : f[x] = Cardinality({s \in S : of[s] = x})
      /\ g = [E \in SUBSET D |-> g[E]] /\ DOMAIN f = D
  OBVIOUS
<1> HIDE DEF f, g
<1>1. \A E \in SUBSET D : g[E] = SumOf(f, g, E)
  <2> SUFFICES ASSUME NEW E \in SUBSET D
               PROVE  g[E] = SumOf(f, g, E)
    OBVIOUS
  <2>1. CASE E = {}
    <3>1. {s \in S : of[s] \in E} = {}
      BY <2>1
    <3> QED
      BY <3>1, <2>1, <1>0, FS_EmptySet DEF SumOf
  <2>2. CASE E # {}
    <3> DEFINE x    == CHOOSE y \in E : TRUE
               here == {s \in S : of[s] = x}
               rest == {s \in S : of[s] \in E \ {x}}
    <3>1. x \in E
      BY <2>2
    <3> HIDE DEF x
    <3>2. {s \in S : of[s] \in E} = here \cup rest /\ here \cap rest = {}
      BY <3>1
    <3>3. here \in SUBSET S /\ rest \in SUBSET S
      OBVIOUS
    <3> HIDE DEF here, rest
    <3>4. IsFiniteSet(here) /\ IsFiniteSet(rest)
      BY <3>3, FS_Subset
    <3>5. Cardinality(here) \in Nat /\ Cardinality(rest) \in Nat /\ Cardinality({}) = 0
      BY <3>4, FS_CardinalityType, FS_EmptySet
    <3>6. Cardinality(here \cup rest) = Cardinality(here) + Cardinality(rest) - Cardinality(here \cap rest)
      BY <3>4, FS_Union
    <3>7. Cardinality(here \cup rest) = Cardinality(here) + Cardinality(rest)
      <4>1. Cardinality(here \cap rest) = 0
        BY <3>2, <3>5
      <4> QED
        BY <3>5, <3>6, <4>1
    <3>8. g[E] = Cardinality(here \cup rest)
      BY <3>2, <1>0
    <3>9. x \in D /\ f[x] = Cardinality(here)
      BY <3>1, <1>0 DEF here
    <3>10. g[E \ {x}] = Cardinality(rest)
      <4>1. E \ {x} \in SUBSET D
        OBVIOUS
      <4> QED
        BY <4>1, <1>0 DEF rest
    <3>11. g[E] = f[x] + g[E \ {x}]
      BY <3>7, <3>8, <3>9, <3>10
    <3> QED
      BY <3>11, <2>2 DEF x, SumOf
  <2> QED
    BY <2>1, <2>2
<1>2. g = [E \in SUBSET D |-> SumOf(f, g, E)]
  BY <1>0, <1>1
<1>3. g[D] = Cardinality(S)
  <2>1. {s \in S : of[s] \in D} = S
    OBVIOUS
  <2> QED
    BY <1>0, <2>1
<1>4. Total(f) = g[D]
  BY <1>0, <1>2, FoldIs
<1> QED
  BY <1>3, <1>4 DEF f

-----------------------------------------------------------------------------
\* The ledger: what was paid by code, and the codes that were redeemed.
ByCode == {i \in DOMAIN payments : payments[i].provider = "ACTIVATION_CODE"}

Redeemed == {k \in (DOMAIN batches) \X (1..Quantity) : batches[k[1]].codes[k[2]] = "REDEEMED"}

\* A payment that did not cross a midnight counts for the day it was created.
PaymentFits(i) == payments[i].paid # 0 /\ (i \notin midnights => payments[i].paid = payments[i].created)

TaskFits(c) ==
    /\ task[c].pc \in {"pay", "status"} => task[c].paid # 0
    /\ task[c].pc = "pay" =>
           /\ task[c].crossed \/ task[c].paid = today
           /\ task[c].code \in {<<>>} \cup ((DOMAIN batches) \X (1..Quantity))

LedgerIInv ==
    /\ today \in 1..Days /\ midnights \subseteq DOMAIN payments
    /\ \A i \in DOMAIN payments : PaymentFits(i)
    /\ \A c \in Clerks : TaskFits(c)
    /\ Cardinality(ByCode) = Cardinality(Redeemed)

LEMMA LedgerInitially == ServerAssumption /\ BackOfficeAssumption /\ Init => LedgerIInv
<1> SUFFICES ASSUME BackOfficeAssumption, OfficeInit
             PROVE  LedgerIInv
  BY DEF Init
<1>1. /\ payments = <<PaidAt("MANUAL", 1, 1), PaidAt("MANUAL", 1, 1)>>
      /\ batches = <<[reseller |-> TRUE, codes |-> [k \in 1..Quantity |-> "AVAILABLE"]]>>
      /\ task = [c \in Clerks |-> NoTask] /\ today = 1 /\ midnights = {}
  BY DEF OfficeInit
<1>2. DOMAIN payments = 1..2 /\ \A i \in 1..2 : payments[i] = PaidAt("MANUAL", 1, 1)
  BY <1>1
<1>3. \A i \in DOMAIN payments : PaymentFits(i) /\ payments[i].provider = "MANUAL"
  BY <1>2 DEF PaymentFits, PaidAt
<1>4. DOMAIN batches = 1..1 /\ \A k \in 1..Quantity : batches[1].codes[k] = "AVAILABLE"
  BY <1>1
<1>5. ByCode = {}
  BY <1>3 DEF ByCode
<1>6. Redeemed = {}
  BY <1>4 DEF Redeemed
<1>7. \A c \in Clerks : TaskFits(c)
  BY <1>1, NoTaskIsTyped DEF TaskFits
<1>8. today \in 1..Days
  BY <1>1 DEF BackOfficeAssumption
<1> QED
  BY <1>1, <1>3, <1>5, <1>6, <1>7, <1>8 DEF LedgerIInv

LEMMA LedgerIsFinite ==
    ASSUME OfficeTypes, BackOfficeAssumption
    PROVE  /\ IsFiniteSet(DOMAIN payments) /\ IsFiniteSet(DOMAIN batches) /\ IsFiniteSet(1..Quantity)
           /\ IsFiniteSet((DOMAIN batches) \X (1..Quantity))
           /\ IsFiniteSet(ByCode) /\ IsFiniteSet(Redeemed)
<1>1. IsFiniteSet(1..Len(payments)) /\ IsFiniteSet(1..Len(batches)) /\ IsFiniteSet(1..Quantity)
  BY FS_Interval DEF OfficeTypes, BackOfficeAssumption
<1>2. DOMAIN payments = 1..Len(payments) /\ DOMAIN batches = 1..Len(batches)
  BY DEF OfficeTypes
<1>3. IsFiniteSet((DOMAIN batches) \X (1..Quantity))
  BY <1>1, <1>2, FS_Product
<1>4. ByCode \in SUBSET DOMAIN payments /\ Redeemed \in SUBSET ((DOMAIN batches) \X (1..Quantity))
  BY DEF ByCode, Redeemed
<1> QED
  BY <1>1, <1>2, <1>3, <1>4, FS_Subset

\* A step that writes no payment and no code.
LEMMA OrdinaryKeepsLedger ==
    ASSUME LedgerIInv, UNCHANGED <<today, payments, batches, midnights>>,
           \A c \in Clerks : task'[c] = task[c] \/ TaskFits(c)'
    PROVE  LedgerIInv'
<1>1. \A c \in Clerks : task'[c] = task[c] => TaskFits(c)'
  BY DEF LedgerIInv, TaskFits
<1>2. \A i \in DOMAIN payments' : PaymentFits(i)'
  BY DEF LedgerIInv, PaymentFits
<1>3. ByCode' = ByCode /\ Redeemed' = Redeemed
  BY DEF ByCode, Redeemed
<1> QED
  BY <1>1, <1>2, <1>3 DEF LedgerIInv

LEMMA FirstStepsKeepLedger ==
    ASSUME BackOfficeAssumption, OfficeTypes, OfficeTypes', LedgerIInv, NEW c \in Clerks,
           \/ \E d \in Clerks, new \in {"none", "ADMIN"} : SetRole(c, d, new)
           \/ \E code \in {<<>>} \cup MatchingCodes(batches, "AVAILABLE") : Pay(c, code)
           \/ \E i \in DOMAIN payments, status \in {"PAID", "REFUNDED"} : PaymentStatus(c, i, status)
    PROVE  LedgerIInv'
<1>1. CASE \E d \in Clerks, new \in {"none", "ADMIN"} : SetRole(c, d, new)
  BY <1>1, OrdinaryKeepsLedger DEF SetRole, tables
<1>2. ASSUME NEW code \in {<<>>} \cup MatchingCodes(batches, "AVAILABLE"), Pay(c, code)
      PROVE  LedgerIInv'
  <2> DEFINE new == [NoTask EXCEPT !.pc = "pay", !.paid = today, !.code = code]
  <2>1. new.pc = "pay" /\ new.paid = today /\ new.code = code
    BY NoTaskIsTyped DEF Tasks
  <2>2. task' = [task EXCEPT ![c] = new] /\ UNCHANGED <<today, payments, batches, midnights>>
    BY <1>2 DEF Pay, tables
  <2> HIDE DEF new
  <2>3. \A d \in Clerks : task'[d] = IF d = c THEN new ELSE task[d]
    BY <2>2 DEF OfficeTypes
  <2>4. today # 0 /\ code \in {<<>>} \cup ((DOMAIN batches) \X (1..Quantity))
    BY DEF LedgerIInv, MatchingCodes, BackOfficeAssumption
  <2>5. TaskFits(c)'
    BY <2>1, <2>2, <2>3, <2>4 DEF TaskFits
  <2> QED
    BY <2>2, <2>3, <2>5, OrdinaryKeepsLedger
<1>3. ASSUME NEW i \in DOMAIN payments, NEW status \in {"PAID", "REFUNDED"}, PaymentStatus(c, i, status)
      PROVE  LedgerIInv'
  <2> DEFINE new == [NoTask EXCEPT !.pc = "status", !.of = i, !.status = status, !.paid = payments[i].paid]
  <2>1. new.pc = "status" /\ new.paid = payments[i].paid
    BY NoTaskIsTyped DEF Tasks
  <2>2. task' = [task EXCEPT ![c] = new] /\ UNCHANGED <<today, payments, batches, midnights>>
    BY <1>3 DEF PaymentStatus, tables
  <2> HIDE DEF new
  <2>3. \A d \in Clerks : task'[d] = IF d = c THEN new ELSE task[d]
    BY <2>2 DEF OfficeTypes
  <2>4. payments[i].paid # 0
    BY DEF LedgerIInv, PaymentFits
  <2>5. TaskFits(c)'
    BY <2>1, <2>3, <2>4 DEF TaskFits
  <2> QED
    BY <2>2, <2>3, <2>5, OrdinaryKeepsLedger
<1> QED
  BY <1>1, <1>2, <1>3

LEMMA TermsStepsKeepLedger ==
    ASSUME OfficeTypes, OfficeTypes', LedgerIInv,
           \/ \E c \in Clerks : \/ CreateTerms(c) \/ WriteTerms(c) \/ Publish(c)
                                \/ \E id \in 1..(Len(terms) + 1) : Unpublish(c, id)
           \/ OfficeLost
    PROVE  LedgerIInv'
<1>1. ASSUME UNCHANGED <<today, payments, batches, midnights>>,
             \A d \in Clerks : task'[d] = task[d] \/ task'[d].pc \notin {"pay", "status"}
      PROVE  LedgerIInv'
  BY <1>1, OrdinaryKeepsLedger DEF TaskFits
<1>2. CASE OfficeLost
  BY <1>1, <1>2, NoTaskIsTyped DEF OfficeLost, tables
<1>3. ASSUME NEW c \in Clerks, CreateTerms(c)
      PROVE  LedgerIInv'
  <2> DEFINE of  == NextOf({terms[i].version : i \in DOMAIN terms})
             new == [NoTask EXCEPT !.pc = "terms", !.of = of]
  <2>1. task' = [task EXCEPT ![c] = new]
    BY <1>3 DEF CreateTerms
  <2> HIDE DEF of
  <2>2. new.pc = "terms"
    BY NoTaskIsTyped DEF Tasks
  <2> HIDE DEF new
  <2>3. \A d \in Clerks : task'[d] = task[d] \/ task'[d].pc = "terms"
    BY <2>1, <2>2 DEF OfficeTypes
  <2> QED
    BY <1>1, <1>3, <2>3 DEF CreateTerms, tables
<1>4. ASSUME NEW c \in Clerks, WriteTerms(c)
      PROVE  LedgerIInv'
  <2>1. \A d \in Clerks :
            /\ d = c => task'[d] = NoTask
            /\ d # c /\ task[d].pc = "terms" => task'[d] = [task[d] EXCEPT !.crossed = TRUE]
            /\ d # c /\ task[d].pc # "terms" => task'[d] = task[d]
    BY <1>4 DEF WriteTerms
  <2>2. \A d \in Clerks : task[d] \in Tasks
    BY DEF OfficeTypes
  <2>3. ASSUME NEW d \in Clerks, task'[d] # task[d]
        PROVE  task'[d].pc \in {"idle", "terms"}
    <3>1. CASE d = c
      BY <2>1, <3>1, NoTaskIsTyped DEF NoTask
    <3>2. CASE d # c
      <4>1. task[d].pc = "terms" /\ task'[d] = [task[d] EXCEPT !.crossed = TRUE]
        BY <2>1, <2>3, <3>2
      <4>2. "pc" \in DOMAIN task[d]
        BY <2>2 DEF Tasks
      <4> QED
        BY <4>1, <4>2
    <3> QED
      BY <3>1, <3>2
  <2>4. \A d \in Clerks : task'[d] = task[d] \/ task'[d].pc \notin {"pay", "status"}
    BY <2>3
  <2> QED
    BY <1>1, <1>4, <2>4 DEF WriteTerms
<1>5. ASSUME NEW c \in Clerks, Publish(c)
      PROVE  LedgerIInv'
  <2>1. \A d \in Clerks : task'[d] = task[d] \/ task'[d].pc \notin {"pay", "status"}
    BY <1>5, NoTaskIsTyped DEF Publish, OfficeTypes
  <2> QED
    BY <1>1, <1>5, <2>1 DEF Publish
<1>6. ASSUME NEW c \in Clerks, NEW id \in 1..(Len(terms) + 1), Unpublish(c, id)
      PROVE  LedgerIInv'
  <2> DEFINE new == [NoTask EXCEPT !.pc = "publish", !.of = id, !.crossed = Doing("publish") # {}]
  <2>1. \A d \in Clerks :
            /\ d = c => task'[d] = new
            /\ d # c /\ task[d].pc = "publish" => task'[d] = [task[d] EXCEPT !.crossed = TRUE]
            /\ d # c /\ task[d].pc # "publish" => task'[d] = task[d]
    BY <1>6 DEF Unpublish
  <2>2. new.pc = "publish"
    BY NoTaskIsTyped DEF Tasks
  <2> HIDE DEF new
  <2>3. \A d \in Clerks : task[d] \in Tasks
    BY DEF OfficeTypes
  <2>4. \A d \in Clerks : task'[d] = task[d] \/ task'[d].pc \notin {"pay", "status"}
    BY <2>1, <2>2, <2>3 DEF Tasks
  <2> QED
    BY <1>1, <1>6, <2>4 DEF Unpublish
<1> QED
  BY <1>2, <1>3, <1>4, <1>5, <1>6

LEMMA GenerateCodesKeepsLedger ==
    ASSUME OfficeTypes, OfficeTypes', LedgerIInv, NEW c \in Clerks, NEW reseller \in BOOLEAN, GenerateCodes(c, reseller)
    PROVE  LedgerIInv'
<1> DEFINE new == [reseller |-> reseller, codes |-> [k \in 1..Quantity |-> "AVAILABLE"]]
<1>1. batches' = Append(batches, new) /\ UNCHANGED <<today, task, payments, midnights>>
  BY DEF GenerateCodes
<1>2. \A k \in 1..Quantity : new.codes[k] = "AVAILABLE"
  OBVIOUS
<1> HIDE DEF new
<1>3. /\ DOMAIN batches = 1..Len(batches) /\ Len(batches) \in Nat
      /\ DOMAIN batches' = 1..Len(batches) + 1
      /\ \A b \in DOMAIN batches' : batches'[b] = IF b = Len(batches) + 1 THEN new ELSE batches[b]
  BY <1>1 DEF OfficeTypes
<1>4. Redeemed' = Redeemed
  <2>1. \A k \in (DOMAIN batches') \X (1..Quantity) :
            batches'[k[1]].codes[k[2]] = "REDEEMED" <=>
                k \in (DOMAIN batches) \X (1..Quantity) /\ batches[k[1]].codes[k[2]] = "REDEEMED"
    BY <1>2, <1>3
  <2>2. (DOMAIN batches) \X (1..Quantity) \subseteq (DOMAIN batches') \X (1..Quantity)
    BY <1>3
  <2> QED
    BY <2>1, <2>2 DEF Redeemed
<1>5. ByCode' = ByCode
  BY <1>1 DEF ByCode
<1>6. \A i \in DOMAIN payments' : PaymentFits(i)'
  BY <1>1 DEF LedgerIInv, PaymentFits
<1>7. \A d \in Clerks : TaskFits(d)'
  BY <1>1, <1>3 DEF LedgerIInv, TaskFits
<1> QED
  BY <1>1, <1>4, <1>5, <1>6, <1>7 DEF LedgerIInv

\* The row that is added, and the code that is redeemed with it.
LEMMA CommitPaymentKeepsLedger ==
    ASSUME BackOfficeAssumption, OfficeTypes, OfficeTypes', LedgerIInv, NEW c \in Clerks, CommitPayment(c)
    PROVE  LedgerIInv'
<1> DEFINE code == task[c].code
           new  == PaidAt(IF code = <<>> THEN "MANUAL" ELSE "ACTIVATION_CODE", today, task[c].paid)
<1>1. task[c] \in Tasks /\ task[c].pc = "pay" /\ task' = [task EXCEPT ![c] = NoTask] /\ today' = today
  BY DEF CommitPayment, OfficeTypes
<1>2. \A d \in Clerks : task'[d] = task[d] \/ TaskFits(d)'
  BY <1>1, NoTaskIsTyped DEF OfficeTypes, TaskFits
<1>3. CASE UNCHANGED <<payments, batches, midnights>>
  BY <1>1, <1>2, <1>3, OrdinaryKeepsLedger
<1>4. ASSUME ~UNCHANGED <<payments, batches, midnights>>
      PROVE  LedgerIInv'
  <2>1. /\ payments' = Append(payments, new)
        /\ midnights' = IF task[c].crossed THEN midnights \cup {Len(payments')} ELSE midnights
        /\ code = <<>> => batches' = batches
        /\ code # <<>> => /\ batches[code[1]].codes[code[2]] = "AVAILABLE"
                          /\ batches' = [batches EXCEPT ![code[1]].codes[code[2]] = "REDEEMED"]
    BY <1>4 DEF CommitPayment
  <2>2. /\ new.provider = (IF code = <<>> THEN "MANUAL" ELSE "ACTIVATION_CODE")
        /\ new.created = today /\ new.paid = task[c].paid
    BY DEF PaidAt
  <2>3. code = <<>> \/ code \in (DOMAIN batches) \X (1..Quantity)
    BY <1>1 DEF LedgerIInv, TaskFits
  <2> HIDE DEF new
  <2>0. PICK n \in Nat : n = Len(payments) + 1
    BY DEF OfficeTypes
  <2>4. /\ DOMAIN payments = 1..n - 1 /\ DOMAIN payments' = 1..n /\ Len(payments') = n /\ n # 0
        /\ payments'[n] = new
        /\ \A i \in 1..n - 1 : payments'[i] = payments[i]
    BY <2>0, <2>1 DEF OfficeTypes
  <2>5. \A i \in DOMAIN payments' : PaymentFits(i)'
    <3>1. PaymentFits(n)'
      <4>1. task[c].paid # 0 /\ (task[c].crossed \/ task[c].paid = today)
        BY <1>1 DEF LedgerIInv, TaskFits
      <4>2. task[c].crossed => n \in midnights'
        BY <2>1, <2>4
      <4> QED
        BY <4>1, <4>2, <2>2, <2>4 DEF PaymentFits
    <3>2. ASSUME NEW i \in DOMAIN payments
          PROVE  PaymentFits(i)'
      BY <2>1, <2>4 DEF PaymentFits, LedgerIInv
    <3> QED
      BY <2>4, <3>1, <3>2
  <2>6. midnights' \subseteq DOMAIN payments'
    BY <2>1, <2>4 DEF LedgerIInv
  <2>7. DOMAIN batches' = DOMAIN batches
    BY <2>1
  <2>8. \A d \in Clerks : TaskFits(d)'
    BY <1>1, <1>2, <2>7 DEF TaskFits, LedgerIInv
  <2>9. CASE code = <<>>
    <3>1. ByCode' = ByCode
      BY <2>2, <2>4, <2>9 DEF ByCode
    <3>2. Redeemed' = Redeemed
      BY <2>1, <2>9 DEF Redeemed
    <3> QED
      BY <1>1, <2>5, <2>6, <2>8, <3>1, <3>2 DEF LedgerIInv
  <2>10. CASE code \in (DOMAIN batches) \X (1..Quantity)
    <3>2. PICK b \in DOMAIN batches, k \in 1..Quantity : code = <<b, k>>
      BY <2>10
    <3>1. code # <<>>
      <4>1. <<b, k>> \in Seq(Nat \cup DOMAIN batches) /\ Len(<<b, k>>) = 2 /\ Len(<<>>) = 0
        OBVIOUS
      <4> QED
        BY <3>2, <4>1
    <3>3. batches[b].codes[k] = "AVAILABLE" /\ batches' = [batches EXCEPT ![b].codes[k] = "REDEEMED"]
      BY <2>1, <3>1, <3>2
    <3>4. \A d \in DOMAIN batches : batches[d] \in BatchRows
      BY DEF OfficeTypes
    <3>5. \A d \in DOMAIN batches, l \in 1..Quantity :
              batches'[d].codes[l] = IF d = b /\ l = k THEN "REDEEMED" ELSE batches[d].codes[l]
      BY <3>3, <3>4 DEF BatchRows
    <3>6. Redeemed' = Redeemed \cup {<<b, k>>} /\ <<b, k>> \notin Redeemed
      BY <2>7, <3>3, <3>5 DEF Redeemed
    <3>7. ByCode' = ByCode \cup {n} /\ n \notin ByCode
      BY <2>2, <2>4, <3>1 DEF ByCode
    <3>8. Cardinality(ByCode') = Cardinality(ByCode) + 1 /\ Cardinality(Redeemed') = Cardinality(Redeemed) + 1
      BY <3>6, <3>7, LedgerIsFinite, FS_AddElement
    <3> QED
      BY <1>1, <2>5, <2>6, <2>8, <3>8 DEF LedgerIInv
  <2> QED
    BY <2>3, <2>9, <2>10
<1> QED
  BY <1>3, <1>4

\* The status changes, and paidAt stays, since a payment has one from the beginning.
LEMMA WritePaymentKeepsLedger ==
    ASSUME OfficeTypes, OfficeTypes', LedgerIInv, NEW c \in Clerks, WritePayment(c)
    PROVE  LedgerIInv'
<1> DEFINE of == task[c].of
           st == task[c].status
<1>1. task[c].pc = "status" /\ task' = [task EXCEPT ![c] = NoTask] /\ UNCHANGED <<today, batches, midnights>>
  BY DEF WritePayment
<1>2. task[c].paid # 0
  BY <1>1 DEF LedgerIInv, TaskFits
<1>3. payments' = [payments EXCEPT ![of].status = st, ![of].paid = @]
  BY <1>2 DEF WritePayment
<1>4. \A i \in DOMAIN payments : payments[i] \in PaymentRows
  BY DEF OfficeTypes
<1>5. /\ DOMAIN payments' = DOMAIN payments
      /\ \A i \in DOMAIN payments : /\ payments'[i].paid = payments[i].paid
                                    /\ payments'[i].created = payments[i].created
                                    /\ payments'[i].provider = payments[i].provider
  BY <1>3, <1>4 DEF PaymentRows
<1>6. \A i \in DOMAIN payments' : PaymentFits(i)'
  BY <1>1, <1>5 DEF LedgerIInv, PaymentFits
<1>7. ByCode' = ByCode /\ Redeemed' = Redeemed
  BY <1>1, <1>5 DEF ByCode, Redeemed
<1>8. \A d \in Clerks : TaskFits(d)'
  BY <1>1, NoTaskIsTyped DEF TaskFits, LedgerIInv, OfficeTypes
<1> QED
  BY <1>1, <1>5, <1>6, <1>7, <1>8 DEF LedgerIInv

LEMMA OfficeTickKeepsLedger ==
    ASSUME BackOfficeAssumption, OfficeTypes, OfficeTypes', LedgerIInv, OfficeTick
    PROVE  LedgerIInv'
<1>1. /\ today < Days /\ today' = today + 1 /\ UNCHANGED <<payments, batches, midnights>>
      /\ \A c \in Clerks : task'[c] = IF task[c].pc = "pay" THEN [task[c] EXCEPT !.crossed = TRUE] ELSE task[c]
  BY DEF OfficeTick, Doing, tables
<1>2. today' \in 1..Days
  BY <1>1 DEF LedgerIInv, BackOfficeAssumption
<1>3. \A c \in Clerks : task[c] \in Tasks
  BY DEF OfficeTypes
<1>4. \A c \in Clerks : TaskFits(c)'
  <2> SUFFICES ASSUME NEW c \in Clerks
               PROVE  TaskFits(c)'
    OBVIOUS
  <2>1. CASE task[c].pc = "pay"
    <3>1. task'[c] = [task[c] EXCEPT !.crossed = TRUE]
      BY <1>1, <2>1
    <3>2. task'[c].pc = "pay" /\ task'[c].crossed /\ task'[c].paid = task[c].paid /\ task'[c].code = task[c].code
      BY <1>3, <2>1, <3>1 DEF Tasks
    <3> QED
      BY <1>1, <2>1, <3>2 DEF TaskFits, LedgerIInv
  <2>2. CASE task[c].pc # "pay"
    BY <1>1, <2>2 DEF TaskFits, LedgerIInv
  <2> QED
    BY <2>1, <2>2
<1>5. \A i \in DOMAIN payments' : PaymentFits(i)'
  BY <1>1 DEF LedgerIInv, PaymentFits
<1>6. ByCode' = ByCode /\ Redeemed' = Redeemed
  BY <1>1 DEF ByCode, Redeemed
<1> QED
  BY <1>1, <1>2, <1>4, <1>5, <1>6 DEF LedgerIInv

LEMMA LedgerStepKeeps ==
    BackOfficeAssumption /\ TermsIInv /\ TermsIInv' /\ LedgerIInv /\ [Next]_vars => LedgerIInv'
<1> SUFFICES ASSUME BackOfficeAssumption, OfficeTypes, OfficeTypes', LedgerIInv, [Next]_vars
             PROVE  LedgerIInv'
  BY DEF TermsIInv
<1>1. CASE UNCHANGED officeVars
  BY <1>1, OrdinaryKeepsLedger DEF officeVars, tables
<1>2. CASE CatalogueNext \/ TokenNext \/ StreamNext \/ UNCHANGED vars
  BY <1>2, <1>1 DEF CatalogueNext, TokenNext, StreamNext, vars
<1>3. CASE \/ \E list \in {"payments", "batches", "codes"}, status \in {"ALL", "PAID", "AVAILABLE"} :
                  StartWalk(list, status)
           \/ ReadPage
  BY <1>3, OrdinaryKeepsLedger DEF StartWalk, ReadPage, tables
<1>4. CASE OfficeNext
  BY <1>4, <1>3, FirstStepsKeepLedger, TermsStepsKeepLedger, GenerateCodesKeepsLedger, CommitPaymentKeepsLedger,
     WritePaymentKeepsLedger, OfficeTickKeepsLedger
     DEF OfficeNext, OfficeStep
<1> QED
  BY <1>2, <1>4 DEF Next

\* The days of a report count the payments whose day is one of them.
LEMMA DailyAddsUp ==
    ASSUME BackOfficeAssumption, OfficeTypes, LedgerIInv, NEW from \in Nat, NEW to \in Nat
    PROVE  LET paid == PaidBetween(from, to)
           IN  Cardinality(paid) - Total([d \in from..to |-> Count({i \in paid : DayOf(payments[i]) = d})])
                   \in 0..Cardinality(midnights)
<1> DEFINE paid  == PaidBetween(from, to)
           there == {i \in paid : DayOf(payments[i]) \in from..to}
           daily == [d \in from..to |-> Count({i \in paid : DayOf(payments[i]) = d})]
           of    == [i \in there |-> DayOf(payments[i])]
<1>1. /\ paid \in SUBSET DOMAIN payments /\ there \in SUBSET paid /\ midnights \in SUBSET DOMAIN payments
      /\ of \in [there -> from..to]
  BY DEF PaidBetween, LedgerIInv
<1>2. IsFiniteSet(paid) /\ IsFiniteSet(there) /\ IsFiniteSet(midnights) /\ IsFiniteSet(from..to)
  <2> HIDE DEF of, there, paid
  <2>1. IsFiniteSet(DOMAIN payments)
    BY LedgerIsFinite
  <2>2. IsFiniteSet(paid) /\ IsFiniteSet(midnights)
    BY <1>1, <2>1, FS_Subset
  <2>3. IsFiniteSet(there)
    BY <1>1, <2>2, FS_Subset
  <2> QED
    BY <2>2, <2>3, FS_Interval
<1>3. daily = [d \in from..to |-> Cardinality({i \in there : of[i] = d})]
  <2>1. \A d \in from..to : {i \in paid : DayOf(payments[i]) = d} = {i \in there : of[i] = d}
    OBVIOUS
  <2> DEFINE F(d) == {i \in paid : DayOf(payments[i]) = d}
             G(d) == {i \in there : of[i] = d}
  <2>2. \A d \in from..to : Cardinality(F(d)) = Cardinality(G(d))
    BY <2>1
  <2>3. daily = [d \in from..to |-> Cardinality(F(d))]
    BY DEF Count
  <2> HIDE DEF F, G, daily
  <2>4. [d \in from..to |-> Cardinality(F(d))] = [d \in from..to |-> Cardinality(G(d))]
    BY <2>2
  <2> QED
    BY <2>3, <2>4 DEF G
<1>4. Total(daily) = Cardinality(there)
  <2> HIDE DEF of, there, paid, daily
  <2>1. Total([d \in from..to |-> Cardinality({i \in there : of[i] = d})]) = Cardinality(there)
    BY <1>1, <1>2, FibresAddUp
  <2> QED
    BY <1>3, <2>1
<1>5. paid \ there \in SUBSET midnights
  <2>1. ASSUME NEW i \in paid, i \notin midnights
        PROVE  i \in there
    <3>1. payments[i].created \in from..to /\ i \in DOMAIN payments
      BY DEF PaidBetween
    <3>2. payments[i].paid = payments[i].created
      BY <2>1, <3>1 DEF LedgerIInv, PaymentFits
    <3> QED
      BY <3>1, <3>2 DEF DayOf
  <2> QED
    BY <2>1
<1> HIDE DEF of, there, paid, daily
<1>6. Cardinality(paid \ there) = Cardinality(paid) - Cardinality(there)
  <2>1. paid \cap there = there
    BY <1>1
  <2> QED
    BY <1>2, <2>1, FS_Difference
<1>7. Cardinality(paid \ there) <= Cardinality(midnights)
  BY <1>2, <1>5, FS_Subset
<1>8. Cardinality(paid) \in Nat /\ Cardinality(there) \in Nat /\ Cardinality(there) <= Cardinality(paid)
      /\ Cardinality(midnights) \in Nat
  BY <1>1, <1>2, FS_Subset, FS_CardinalityType
<1>9. Cardinality(paid) - Total(daily) \in 0..Cardinality(midnights)
  BY <1>4, <1>6, <1>7, <1>8
<1> QED
  BY <1>9 DEF paid, daily

\* The redeemed codes of some batches, batch by batch.
LEMMA CodesByBatch ==
    ASSUME BackOfficeAssumption, OfficeTypes, NEW B \in SUBSET DOMAIN batches
    PROVE  Total([b \in DOMAIN batches |-> IF b \in B THEN Count(CodesWith(b, "REDEEMED")) ELSE 0])
               = Cardinality({k \in B \X (1..Quantity) : batches[k[1]].codes[k[2]] = "REDEEMED"})
<1> DEFINE all == {k \in B \X (1..Quantity) : batches[k[1]].codes[k[2]] = "REDEEMED"}
           of  == [k \in all |-> k[1]]
           f   == [b \in DOMAIN batches |-> IF b \in B THEN Count(CodesWith(b, "REDEEMED")) ELSE 0]
           g   == [b \in DOMAIN batches |-> Cardinality({k \in all : of[k] = b})]
<1>1. of \in [all -> DOMAIN batches] /\ all \in SUBSET ((DOMAIN batches) \X (1..Quantity))
  OBVIOUS
<1>2. IsFiniteSet(all) /\ IsFiniteSet(DOMAIN batches)
  BY <1>1, LedgerIsFinite, FS_Subset
<1>3. ASSUME NEW b \in DOMAIN batches
      PROVE  f[b] = g[b]
  <2> DEFINE here == {k \in all : of[k] = b}
             with == CodesWith(b, "REDEEMED")
  <2>1. CASE b \in B
    <3>1. here = {b} \X with
      BY <2>1 DEF CodesWith
    <3>2. with \in SUBSET (1..Quantity)
      BY DEF CodesWith
    <3> HIDE DEF here, with, all, of
    <3>3. IsFiniteSet(with) /\ IsFiniteSet({b}) /\ Cardinality({b}) = 1 /\ Cardinality(with) \in Nat
      BY <3>2, LedgerIsFinite, FS_Subset, FS_Singleton, FS_CardinalityType
    <3>4. Cardinality({b} \X with) = Cardinality({b}) * Cardinality(with)
      BY <3>3, FS_Product
    <3>5. Cardinality(here) = Cardinality(with)
      BY <3>1, <3>3, <3>4
    <3>6. f[b] = Cardinality(with)
      BY <2>1 DEF with, Count
    <3>7. g[b] = Cardinality(here)
      BY DEF here
    <3> QED
      BY <3>5, <3>6, <3>7
  <2>2. CASE b \notin B
    <3>1. here = {}
      BY <2>2
    <3>2. f[b] = 0
      BY <2>2
    <3>3. g[b] = Cardinality(here)
      OBVIOUS
    <3> QED
      BY <3>1, <3>2, <3>3, FS_EmptySet
  <2> QED
    BY <2>1, <2>2
<1>4. f = [b \in DOMAIN batches |-> f[b]] /\ g = [b \in DOMAIN batches |-> g[b]]
  OBVIOUS
<1>5. f = g
  <2> HIDE DEF f, g
  <2> QED
    BY <1>3, <1>4
<1>6. Total(g) = Cardinality(all)
  <2> HIDE DEF all, of
  <2> QED
    BY <1>1, <1>2, FibresAddUp
<1> QED
  BY <1>5, <1>6

\* revenue, metrics, activationCodeBatches, activationCodeBatchDetail and
\* resellersSummary: however many payments, batches and days there are, the days of a
\* report miss at most the payments recorded over a midnight, and the reports on codes
\* agree with the payments by code.
THEOREM TheReportsAddUp == Spec => []ReportsAddUp
<1>1. ASSUME BackOfficeAssumption, TermsIInv, LedgerIInv
      PROVE  ReportsAddUp
  <2>0. OfficeTypes /\ today \in Nat
    BY <1>1 DEF TermsIInv, OfficeTypes
  <2> HIDE DEF OfficeTypes
  <2>1. ASSUME NEW from \in 1..today, NEW to \in 1..today
        PROVE  Revenue(from, to).income - Total(Revenue(from, to).daily) \in 0..Cardinality(midnights)
    <3>1. from \in Nat /\ to \in Nat
      BY <2>0
    <3>2. /\ Revenue(from, to).income = Cardinality(PaidBetween(from, to))
          /\ Revenue(from, to).daily = [d \in from..to |->
                 Count({i \in PaidBetween(from, to) : DayOf(payments[i]) = d})]
      BY DEF Revenue, Count
    <3> QED
      BY <1>1, <2>0, <3>1, <3>2, DailyAddsUp
  <2>2. Metrics.income - Total(Metrics.daily) \in 0..Cardinality(midnights)
    <3> DEFINE from == IF today > MetricDays THEN today - MetricDays ELSE 1
    <3>1. from \in Nat
      BY <1>1, <2>0 DEF BackOfficeAssumption
    <3>2. /\ Metrics.income = Cardinality(PaidBetween(from, today))
          /\ Metrics.daily = [d \in from..today |-> Count({i \in PaidBetween(from, today) : DayOf(payments[i]) = d})]
      BY DEF Metrics, Count
    <3> HIDE DEF from
    <3> QED
      BY <1>1, <2>0, <3>1, <3>2, DailyAddsUp
  <2>3. Cardinality(ByCode) = Total([b \in DOMAIN batches |-> BatchDetail(b).redeemed])
    <3>1. Total([b \in DOMAIN batches |-> IF b \in DOMAIN batches THEN Count(CodesWith(b, "REDEEMED")) ELSE 0])
              = Cardinality(Redeemed)
      BY <1>1, <2>0, CodesByBatch DEF Redeemed
    <3>2. [b \in DOMAIN batches |-> IF b \in DOMAIN batches THEN Count(CodesWith(b, "REDEEMED")) ELSE 0]
              = [b \in DOMAIN batches |-> BatchDetail(b).redeemed]
      BY DEF BatchDetail
    <3> QED
      BY <1>1, <3>1, <3>2 DEF LedgerIInv
  <2>4. ResellersSummary.redeemed
            = Total([b \in DOMAIN batches |-> IF batches[b].reseller THEN BatchRow(b).redeemed ELSE 0])
    <3> DEFINE B == {b \in DOMAIN batches : batches[b].reseller}
    <3>1. Total([b \in DOMAIN batches |-> IF b \in B THEN Count(CodesWith(b, "REDEEMED")) ELSE 0])
              = Cardinality({k \in B \X (1..Quantity) : batches[k[1]].codes[k[2]] = "REDEEMED"})
      BY <1>1, <2>0, CodesByBatch
    <3>2. [b \in DOMAIN batches |-> IF b \in B THEN Count(CodesWith(b, "REDEEMED")) ELSE 0]
              = [b \in DOMAIN batches |-> IF batches[b].reseller THEN BatchRow(b).redeemed ELSE 0]
      BY DEF BatchRow
    <3>3. ResellersSummary.redeemed
              = Cardinality({k \in B \X (1..Quantity) : batches[k[1]].codes[k[2]] = "REDEEMED"})
      BY DEF ResellersSummary, Count
    <3> QED
      BY <3>1, <3>2, <3>3
  <2> QED
    BY <2>1, <2>2, <2>3, <2>4 DEF ReportsAddUp, ByCode
<1> QED
  BY TermsInitially, TermsStepKeeps, LedgerInitially, LedgerStepKeeps, ServerAssumption, BackOfficeAssumption, <1>1,
     PTL DEF Spec

-----------------------------------------------------------------------------
\* The lists that are read page by page.
Rows == Nat \cup (Nat \X Nat)

WalkStates ==
    [pc : {"none", "walking", "done"}, list : {"payments", "batches", "codes"},
     status : {"ALL", "PAID", "AVAILABLE"}, page : Nat \ {0}, seen : SUBSET Rows, due : SUBSET Rows, left : BOOLEAN]

ListRows == Matching(payments, batches, walk.list, walk.status)

InstantOf(x) == Instant(walk.list, x)

Ties == \E x, y \in walk.due : x # y /\ InstantOf(x) = InstantOf(y)

NewerRows(x) == {y \in ListRows : InstantOf(y) > InstantOf(x)}

WalkTypes == walk \in WalkStates

\* As long as no row leaves the list, a row that was in it at the beginning and has
\* not been shown has before it as many newer ones as the pages that were read take,
\* since rows only come; and no row comes with the instant of an old one.
PagesIInv ==
    /\ WalkTypes
    /\ walk.pc = "walking" /\ ~walk.left =>
           /\ walk.due \subseteq ListRows
           /\ \A x \in walk.due, y \in ListRows : InstantOf(y) = InstantOf(x) => y \in walk.due
           /\ ~Ties => \A x \in walk.due \ walk.seen : Cardinality(NewerRows(x)) >= (walk.page - 1) * PageSize
    /\ walk.pc = "done" /\ ~walk.left /\ ~Ties => walk.due \subseteq walk.seen

LEMMA MatchingByList ==
    ASSUME NEW ps, NEW bs, NEW status
    PROVE  /\ Matching(ps, bs, "payments", status) = MatchingPayments(ps, status)
           /\ Matching(ps, bs, "batches", status) = MatchingBatches(bs)
           /\ Matching(ps, bs, "codes", status) = MatchingCodes(bs, status)
  BY DEF Matching

\* skip and take: a row alone with its instant that a page does not show, though the
\* pages before it took no more than the newer rows, comes after that page.
LEMMA RowsOfLaterPages ==
    ASSUME BackOfficeAssumption, NEW list, NEW S, IsFiniteSet(S), \A y \in S : Instant(list, y) \in Nat,
           NEW x \in S, \A y \in S : Instant(list, y) = Instant(list, x) => y = x,
           NEW page \in Nat \ {0}, NEW P \in Pages(list, S, page), x \notin P,
           Cardinality({y \in S : Instant(list, y) > Instant(list, x)}) >= (page - 1) * PageSize
    PROVE  /\ Cardinality({y \in S : Instant(list, y) > Instant(list, x)}) >= page * PageSize
           /\ Cardinality(S) > page * PageSize
<1> DEFINE newer == {y \in S : Instant(list, y) > Instant(list, x)}
           tied  == {y \in S : Instant(list, y) = Instant(list, x)}
<1>1. PICK a \in Nat, z \in Nat : a = (page - 1) * PageSize /\ z = page * PageSize
  BY DEF BackOfficeAssumption
<1>2. tied = {x} /\ P \cap tied = {}
  OBVIOUS
<1>3. newer \in SUBSET S /\ x \notin newer /\ newer \cup {x} \in SUBSET S
  OBVIOUS
<1>4. PICK n \in Nat : n = Cardinality(newer) /\ n >= a
  <2> HIDE DEF newer
  <2>1. Cardinality(newer) \in Nat
    BY <1>3, FS_Subset, FS_CardinalityType
  <2> QED
    BY <1>1, <2>1 DEF newer
<1>5. Cardinality(P \cap tied) = Cardinality((n + 1..n + Cardinality(tied)) \cap (a + 1..z))
  BY <1>1, <1>4 DEF Pages, Positions
<1> HIDE DEF newer, tied
<1>6. Cardinality(P \cap tied) = 0 /\ Cardinality(tied) = 1
  BY <1>2, FS_EmptySet, FS_Singleton
<1>7. n + 1 \notin a + 1..z
  <2> SUFFICES ASSUME n + 1 \in a + 1..z
               PROVE  FALSE
    OBVIOUS
  <2>1. (n + 1..n + 1) \cap (a + 1..z) = {n + 1}
    OBVIOUS
  <2>2. Cardinality({n + 1}) = 1
    BY FS_Singleton
  <2>3. n + Cardinality(tied) = n + 1
    BY <1>6
  <2>4. 0 = 1
    BY <1>5, <1>6, <2>1, <2>2, <2>3
  <2> QED
    BY <2>4
<1>8. n >= z
  BY <1>4, <1>7
<1>9. Cardinality(newer \cup {x}) = n + 1
  <2>1. IsFiniteSet(newer)
    BY <1>3, FS_Subset
  <2> QED
    BY <1>3, <1>4, <2>1, FS_AddElement
<1>10. Cardinality(S) \in Nat /\ n + 1 <= Cardinality(S)
  BY <1>3, <1>9, FS_Subset, FS_CardinalityType
<1>11. Cardinality(newer) >= page * PageSize /\ Cardinality(S) > page * PageSize
  BY <1>1, <1>4, <1>8, <1>10
<1> QED
  BY <1>11 DEF newer

LEMMA RowsHaveInstants ==
    ASSUME BackOfficeAssumption, NEW ps \in Seq(PaymentRows), NEW bs \in Seq(BatchRows),
           NEW list \in {"payments", "batches", "codes"}, NEW status
    PROVE  LET S == Matching(ps, bs, list, status)
           IN  IsFiniteSet(S) /\ S \in SUBSET Rows /\ \A y \in S : Instant(list, y) \in Nat
<1> DEFINE S == Matching(ps, bs, list, status)
<1>1. DOMAIN ps = 1..Len(ps) /\ DOMAIN bs = 1..Len(bs) /\ Len(ps) \in Nat /\ Len(bs) \in Nat
  OBVIOUS
<1>2. IsFiniteSet(DOMAIN ps) /\ IsFiniteSet(DOMAIN bs) /\ IsFiniteSet(1..Quantity)
  BY <1>1, FS_Interval DEF BackOfficeAssumption
<1>3. IsFiniteSet((DOMAIN bs) \X (1..Quantity))
  BY <1>2, FS_Product
<1>4. list # "codes" => S \in SUBSET DOMAIN ps \/ S \in SUBSET DOMAIN bs
  BY MatchingByList DEF MatchingPayments, MatchingBatches
<1>5. list = "codes" => S \in SUBSET ((DOMAIN bs) \X (1..Quantity))
  BY MatchingByList DEF MatchingCodes
<1> HIDE DEF S
<1>6. IsFiniteSet(S)
  BY <1>2, <1>3, <1>4, <1>5, FS_Subset
<1>7. \A y \in S : Instant(list, y) \in Nat
  BY <1>1, <1>4, <1>5 DEF Instant
<1>8. S \in SUBSET Rows
  BY <1>1, <1>4, <1>5 DEF Rows
<1> QED
  BY <1>6, <1>7, <1>8 DEF S

LEMMA PagesInitially == Init => PagesIInv
  BY DEF Init, OfficeInit, NoWalk, PagesIInv, WalkTypes, WalkStates, Rows

LEMMA OtherTasksKeepPages ==
    ASSUME PagesIInv, UNCHANGED <<payments, batches, walk>>
    PROVE  PagesIInv'
<1>1. WalkTypes' /\ ListRows' = ListRows /\ Ties' = Ties
  BY DEF PagesIInv, WalkTypes, ListRows, Ties, InstantOf
<1>2. \A x \in walk.due : NewerRows(x)' = NewerRows(x)
  BY <1>1 DEF NewerRows, InstantOf
<1> QED
  BY <1>1, <1>2 DEF PagesIInv, InstantOf

LEMMA StartWalkKeepsPages ==
    ASSUME BackOfficeAssumption, OfficeTypes,
           NEW list \in {"payments", "batches", "codes"}, NEW status \in {"ALL", "PAID", "AVAILABLE"},
           StartWalk(list, status)
    PROVE  PagesIInv'
<1>1. /\ walk' = [NoWalk EXCEPT !.pc = "walking", !.list = list, !.status = status,
                                !.due = Matching(payments, batches, list, status)]
      /\ UNCHANGED <<payments, batches>>
  BY DEF StartWalk, tables
<1> DEFINE S == Matching(payments, batches, list, status)
<1>2. walk' = [pc |-> "walking", list |-> list, status |-> status, page |-> 1, seen |-> {}, due |-> S, left |-> FALSE]
  BY <1>1 DEF NoWalk
<1> HIDE DEF S
<1>3. WalkTypes'
  <2>1. S \in SUBSET Rows
    BY RowsHaveInstants DEF S, OfficeTypes
  <2> QED
    BY <1>2, <2>1 DEF WalkTypes, WalkStates
<1>4. ListRows' = S
  BY <1>1, <1>2 DEF ListRows, S
<1>5. ASSUME NEW x \in S
      PROVE  Cardinality(NewerRows(x)') >= (1 - 1) * PageSize
  <2>1. PICK N \in SUBSET S : N = NewerRows(x)'
    BY <1>4 DEF NewerRows
  <2>2. IsFiniteSet(S)
    BY RowsHaveInstants DEF S, OfficeTypes
  <2>3. Cardinality(N) \in Nat
    BY <2>2, FS_Subset, FS_CardinalityType
  <2> QED
    BY <2>1, <2>3 DEF BackOfficeAssumption
<1> QED
  BY <1>2, <1>3, <1>4, <1>5 DEF PagesIInv

LEMMA ReadPageKeepsPages ==
    ASSUME BackOfficeAssumption, OfficeTypes, PagesIInv, ReadPage
    PROVE  PagesIInv'
<1> DEFINE S == ListRows
<1>1. PICK P \in Pages(walk.list, S, walk.page) :
          walk' = [walk EXCEPT !.seen = @ \cup P, !.page = @ + 1,
                               !.pc = IF walk.page * PageSize >= Cardinality(S) THEN "done" ELSE @]
  BY DEF ReadPage, ListRows
<1>2. walk.pc = "walking" /\ UNCHANGED <<payments, batches>>
  BY DEF ReadPage, tables
<1>3. PICK last \in BOOLEAN : last <=> walk.page * PageSize >= Cardinality(S)
  OBVIOUS
<1>0. walk \in WalkStates /\ P \in SUBSET Rows
  <2>1. walk \in WalkStates
    BY DEF PagesIInv, WalkTypes
  <2>2. S \in SUBSET Rows
    BY <2>1, RowsHaveInstants DEF WalkStates, ListRows, OfficeTypes
  <2> HIDE DEF S
  <2> QED
    BY <1>1, <2>1, <2>2 DEF Pages
<1>4. /\ walk'.pc = (IF last THEN "done" ELSE "walking") /\ walk'.list = walk.list /\ walk'.status = walk.status
      /\ walk'.page = walk.page + 1 /\ walk'.due = walk.due /\ walk'.left = walk.left
      /\ walk'.seen = walk.seen \cup P
  BY <1>0, <1>1, <1>2, <1>3 DEF WalkStates
<1>5. WalkTypes'
  <2>1. PICK seen \in SUBSET Rows, page \in Nat \ {0}, pc \in {"walking", "done"} :
            seen = walk.seen \cup P /\ page = walk.page + 1 /\ pc = walk'.pc
    BY <1>0, <1>4 DEF WalkStates
  <2>2. walk' = [walk EXCEPT !.seen = seen, !.page = page, !.pc = pc]
    BY <1>1, <1>2, <1>4, <2>1
  <2> QED
    BY <1>0, <2>1, <2>2 DEF WalkTypes, WalkStates
<1>6. ListRows' = ListRows
  BY <1>2, <1>4 DEF ListRows
<1>7. \A x : InstantOf(x)' = InstantOf(x)
  BY <1>4 DEF InstantOf
<1>8. Ties' <=> Ties
  BY <1>4 DEF Ties, InstantOf
<1>9. \A x : NewerRows(x)' = NewerRows(x)
  BY <1>4, <1>6 DEF NewerRows, InstantOf
<1>10. ASSUME ~walk.left, ~Ties, NEW x \in walk.due, x \notin walk.seen, x \notin P
       PROVE  Cardinality(NewerRows(x)) >= walk.page * PageSize /\ Cardinality(S) > walk.page * PageSize
  <2>1. x \in S
    BY <1>2, <1>10 DEF PagesIInv
  <2>2. \A y \in S : Instant(walk.list, y) = Instant(walk.list, x) => y = x
    BY <1>2, <1>10 DEF PagesIInv, InstantOf, Ties
  <2>3. IsFiniteSet(S) /\ \A y \in S : Instant(walk.list, y) \in Nat
    BY RowsHaveInstants DEF PagesIInv, WalkTypes, WalkStates, ListRows, OfficeTypes
  <2>4. Cardinality(NewerRows(x)) >= (walk.page - 1) * PageSize
    BY <1>2, <1>10 DEF PagesIInv
  <2>5. NewerRows(x) = {y \in S : Instant(walk.list, y) > Instant(walk.list, x)}
    BY DEF NewerRows, InstantOf
  <2>6. walk.page \in Nat \ {0}
    BY DEF PagesIInv, WalkTypes, WalkStates
  <2> HIDE DEF S
  <2> QED
    BY <1>1, <1>10, <2>1, <2>2, <2>3, <2>4, <2>5, <2>6, RowsOfLaterPages
<1>11. CASE last
  <2>1. ASSUME ~walk.left, ~Ties
        PROVE  walk.due \subseteq walk'.seen
    <3> SUFFICES ASSUME NEW x \in walk.due, x \notin walk.seen, x \notin P
                 PROVE  FALSE
      BY <1>4
    <3>1. Cardinality(S) > walk.page * PageSize
      BY <1>10, <2>1
    <3>2. walk.page * PageSize >= Cardinality(S)
      BY <1>3, <1>11
    <3>3. PICK z \in Nat : z = walk.page * PageSize
      BY DEF PagesIInv, WalkTypes, WalkStates, BackOfficeAssumption
    <3>4. Cardinality(S) \in Nat
      BY RowsHaveInstants, FS_CardinalityType DEF PagesIInv, WalkTypes, WalkStates, ListRows, OfficeTypes
    <3> QED
      BY <3>1, <3>2, <3>3, <3>4
  <2> QED
    BY <1>4, <1>5, <1>8, <1>11, <2>1 DEF PagesIInv
<1>12. CASE ~last
  <2>1. walk.page = walk'.page - 1
    BY <1>4 DEF PagesIInv, WalkTypes, WalkStates
  <2>2. ASSUME ~walk.left, ~Ties, NEW x \in walk.due \ walk'.seen
        PROVE  Cardinality(NewerRows(x)) >= (walk'.page - 1) * PageSize
    BY <1>4, <1>10, <2>1, <2>2
  <2>3. ASSUME ~walk.left
        PROVE  /\ walk'.due \subseteq ListRows'
               /\ \A x \in walk'.due, y \in ListRows' : InstantOf(y)' = InstantOf(x)' => y \in walk'.due
    BY <1>2, <1>4, <1>6, <1>7, <2>3 DEF PagesIInv
  <2>4. ASSUME ~walk.left, ~Ties, NEW x \in walk'.due \ walk'.seen
        PROVE  Cardinality(NewerRows(x)') >= (walk'.page - 1) * PageSize
    BY <1>4, <1>9, <2>2, <2>4
  <2> QED
    BY <1>4, <1>5, <1>8, <1>12, <2>3, <2>4 DEF PagesIInv
<1> QED
  BY <1>11, <1>12

\* What comes into a list has a later instant than the rows that were in it: a code is
\* never available again.
LEMMA NewRowsAreLater ==
    ASSUME OfficeTypes, OfficeTypes', WalkTypes, DOMAIN batches \subseteq DOMAIN batches',
           \A b \in DOMAIN batches, k \in 1..Quantity :
               batches'[b].codes[k] = "AVAILABLE" => batches[b].codes[k] = "AVAILABLE"
    PROVE  \A x \in ListRows, y \in Matching(payments', batches', walk.list, walk.status) \ ListRows :
               InstantOf(y) # InstantOf(x)
<1> DEFINE R == Matching(payments', batches', walk.list, walk.status)
<1> SUFFICES ASSUME NEW x \in ListRows, NEW y \in R \ ListRows, InstantOf(y) = InstantOf(x)
             PROVE  FALSE
  OBVIOUS
<1>1. CASE walk.list # "codes"
  BY <1>1 DEF InstantOf, Instant
<1>2. CASE walk.list = "codes"
  <2>1. ListRows = MatchingCodes(batches, walk.status) /\ R = MatchingCodes(batches', walk.status)
    BY <1>2, MatchingByList DEF ListRows
  <2>2. x[1] \in DOMAIN batches
    BY <2>1 DEF MatchingCodes
  <2>3. /\ y \in (DOMAIN batches') \X (1..Quantity)
        /\ walk.status = "ALL" \/ walk.status = batches'[y[1]].codes[y[2]]
    BY <2>1 DEF MatchingCodes
  <2>4. y[1] = x[1]
    BY <1>2 DEF InstantOf, Instant
  <2>5. PICK b \in DOMAIN batches, k \in 1..Quantity : y = <<b, k>>
    BY <2>2, <2>3, <2>4
  <2>6. walk.status = "ALL" \/ walk.status = batches'[b].codes[k]
    BY <2>3, <2>5
  <2>7. batches'[b] \in BatchRows
    BY DEF OfficeTypes
  <2>8. batches'[b].codes[k] \in {"AVAILABLE", "REDEEMED"}
    BY <2>7 DEF BatchRows
  <2>9. walk.status = "ALL" \/ walk.status = batches[b].codes[k]
    BY <2>6, <2>8 DEF WalkTypes, WalkStates
  <2>10. y \in MatchingCodes(batches, walk.status)
    BY <2>5, <2>9 DEF MatchingCodes
  <2> QED
    BY <2>1, <2>10
<1> QED
  BY <1>1, <1>2

LEMMA WritesKeepPages ==
    ASSUME BackOfficeAssumption, OfficeTypes, OfficeTypes', PagesIInv,
           NEW left \in BOOLEAN, walk' = [walk EXCEPT !.left = left],
           ~left => ~walk.left /\ ListRows \subseteq Matching(payments', batches', walk.list, walk.status),
           DOMAIN batches \subseteq DOMAIN batches',
           \A b \in DOMAIN batches, k \in 1..Quantity :
               batches'[b].codes[k] = "AVAILABLE" => batches[b].codes[k] = "AVAILABLE"
    PROVE  PagesIInv'
<1>0. UNCHANGED <<walk.pc, walk.list, walk.status, walk.page, walk.seen, walk.due>> /\ walk'.left = left
  BY DEF PagesIInv, WalkTypes, WalkStates
<1>1. WalkTypes' /\ (Ties' <=> Ties)
  <2>1. WalkTypes'
    BY DEF PagesIInv, WalkTypes, WalkStates
  <2> QED
    BY <1>0, <2>1 DEF Ties, InstantOf
<1>2. ListRows' = Matching(payments', batches', walk.list, walk.status)
  BY <1>0 DEF ListRows
<1>3. \A x : InstantOf(x)' = InstantOf(x)
  BY <1>0 DEF InstantOf
<1>4. \A x \in ListRows, y \in ListRows' \ ListRows : InstantOf(y) # InstantOf(x)
  BY <1>2, NewRowsAreLater DEF PagesIInv
<1>5. ASSUME walk.pc = "walking", ~walk'.left
      PROVE  /\ walk'.due \subseteq ListRows'
             /\ \A x \in walk'.due, y \in ListRows' : InstantOf(y)' = InstantOf(x)' => y \in walk'.due
             /\ ~Ties' => \A x \in walk'.due \ walk'.seen : Cardinality(NewerRows(x)') >= (walk'.page - 1) * PageSize
  <2>1. ~walk.left /\ ListRows \subseteq ListRows' /\ walk.due \subseteq ListRows
    BY <1>0, <1>2, <1>5 DEF PagesIInv
  <2>2. \A x \in walk.due, y \in ListRows' : InstantOf(y)' = InstantOf(x)' => y \in walk.due
    BY <1>3, <1>4, <1>5, <2>1 DEF PagesIInv
  <2>3. ASSUME ~Ties, NEW x \in walk.due \ walk.seen
        PROVE  Cardinality(NewerRows(x)') >= (walk.page - 1) * PageSize
    <3>1. PICK N, M, R : N = NewerRows(x) /\ M = NewerRows(x)' /\ R = ListRows'
      OBVIOUS
    <3>2. N \in SUBSET M /\ M \in SUBSET R
      BY <1>3, <2>1, <3>1 DEF NewerRows
    <3>3. IsFiniteSet(R)
      BY <1>1, <3>1, RowsHaveInstants DEF ListRows, WalkTypes, WalkStates, OfficeTypes
    <3>4. IsFiniteSet(M) /\ Cardinality(N) <= Cardinality(M)
      BY <3>2, <3>3, FS_Subset
    <3>5. Cardinality(N) \in Nat /\ Cardinality(M) \in Nat
      BY <3>2, <3>4, FS_Subset, FS_CardinalityType
    <3>6. Cardinality(N) >= (walk.page - 1) * PageSize
      BY <1>5, <2>1, <2>3, <3>1 DEF PagesIInv
    <3>7. PICK z \in Int : z = (walk.page - 1) * PageSize
      BY DEF PagesIInv, WalkTypes, WalkStates, BackOfficeAssumption
    <3> QED
      BY <3>1, <3>4, <3>5, <3>6, <3>7
  <2> QED
    BY <1>0, <1>1, <2>1, <2>2, <2>3
<1> QED
  BY <1>0, <1>1, <1>5 DEF PagesIInv

LEMMA GenerateCodesKeepsPages ==
    ASSUME BackOfficeAssumption, OfficeTypes, OfficeTypes', PagesIInv, NEW c \in Clerks, NEW reseller \in BOOLEAN,
           GenerateCodes(c, reseller)
    PROVE  PagesIInv'
<1> DEFINE new == [reseller |-> reseller, codes |-> [k \in 1..Quantity |-> "AVAILABLE"]]
<1>1. batches' = Append(batches, new) /\ UNCHANGED <<payments, walk>>
  BY DEF GenerateCodes
<1> HIDE DEF new
<1>2. /\ DOMAIN batches \subseteq DOMAIN batches'
      /\ \A b \in DOMAIN batches : batches'[b] = batches[b]
  BY <1>1 DEF OfficeTypes
<1>3. ListRows \subseteq Matching(payments', batches', walk.list, walk.status)
  <2>1. walk.list \in {"payments", "batches", "codes"}
    BY DEF PagesIInv, WalkTypes, WalkStates
  <2>2. CASE walk.list = "payments"
    BY <1>1, <2>2, MatchingByList DEF ListRows
  <2>3. CASE walk.list = "batches"
    BY <1>2, <2>3, MatchingByList DEF ListRows, MatchingBatches
  <2>4. CASE walk.list = "codes"
    BY <1>2, <2>4, MatchingByList DEF ListRows, MatchingCodes
  <2> QED
    BY <2>1, <2>2, <2>3, <2>4
<1>4. walk' = [walk EXCEPT !.left = walk.left] /\ walk.left \in BOOLEAN
  BY <1>1 DEF PagesIInv, WalkTypes, WalkStates
<1> QED
  BY <1>1, <1>2, <1>3, <1>4, WritesKeepPages

LEMMA LeavingKeepsPages ==
    ASSUME BackOfficeAssumption, OfficeTypes, OfficeTypes', PagesIInv, Leaving(payments', batches'),
           DOMAIN batches \subseteq DOMAIN batches',
           \A b \in DOMAIN batches, k \in 1..Quantity :
               batches'[b].codes[k] = "AVAILABLE" => batches[b].codes[k] = "AVAILABLE"
    PROVE  PagesIInv'
<1>1. PICK left \in BOOLEAN :
          left <=> walk.left \/ ~(ListRows \subseteq Matching(payments', batches', walk.list, walk.status))
  OBVIOUS
<1>2. walk.left \in BOOLEAN
  BY DEF PagesIInv, WalkTypes, WalkStates
<1>3. walk' = [walk EXCEPT !.left = left]
  <2>1. left = (walk.left \/ ~(ListRows \subseteq Matching(payments', batches', walk.list, walk.status)))
    BY <1>1, <1>2
  <2> QED
    BY <2>1 DEF Leaving, ListRows
<1> QED
  BY <1>1, <1>3, WritesKeepPages

LEMMA CommitPaymentKeepsPages ==
    ASSUME BackOfficeAssumption, OfficeTypes, OfficeTypes', PagesIInv, NEW c \in Clerks, CommitPayment(c)
    PROVE  PagesIInv'
<1>1. CASE UNCHANGED <<payments, batches, walk>>
  BY <1>1, OtherTasksKeepPages
<1>2. CASE ~UNCHANGED <<payments, batches, walk>>
  <2>1. /\ Leaving(payments', batches')
        /\ \/ batches' = batches
           \/ batches' = [batches EXCEPT ![task[c].code[1]].codes[task[c].code[2]] = "REDEEMED"]
    <3>1. PICK ps, bs : ps = payments' /\ bs = batches'
      OBVIOUS
    <3>2. Leaving(ps, bs)
      BY <1>2, <3>1 DEF CommitPayment
    <3>3. \/ batches' = batches
          \/ batches' = [batches EXCEPT ![task[c].code[1]].codes[task[c].code[2]] = "REDEEMED"]
      BY DEF CommitPayment
    <3> QED
      BY <3>1, <3>2, <3>3 DEF Leaving
  <2>2. \A b \in DOMAIN batches : batches[b] \in BatchRows
    BY DEF OfficeTypes
  <2>3. /\ DOMAIN batches' = DOMAIN batches
        /\ \A b \in DOMAIN batches, k \in 1..Quantity :
               batches'[b].codes[k] = batches[b].codes[k] \/ batches'[b].codes[k] = "REDEEMED"
    BY <2>1, <2>2 DEF BatchRows
  <2> QED
    BY <2>1, <2>3, LeavingKeepsPages
<1> QED
  BY <1>1, <1>2

LEMMA WritePaymentKeepsPages ==
    ASSUME BackOfficeAssumption, OfficeTypes, OfficeTypes', PagesIInv, NEW c \in Clerks, WritePayment(c)
    PROVE  PagesIInv'
<1>1. batches' = batches
  BY DEF WritePayment
<1>2. PICK ps : ps = payments' /\ Leaving(ps, batches)
  BY DEF WritePayment
<1>3. Leaving(payments', batches')
  BY <1>1, <1>2 DEF Leaving
<1> QED
  BY <1>1, <1>3, LeavingKeepsPages

LEMMA PagesStepKeeps ==
    BackOfficeAssumption /\ TermsIInv /\ TermsIInv' /\ PagesIInv /\ [Next]_vars => PagesIInv'
<1> SUFFICES ASSUME BackOfficeAssumption, OfficeTypes, OfficeTypes', PagesIInv, [Next]_vars
             PROVE  PagesIInv'
  BY DEF TermsIInv
<1>1. CASE UNCHANGED officeVars
  BY <1>1, OtherTasksKeepPages DEF officeVars, tables
<1>2. CASE CatalogueNext \/ TokenNext \/ StreamNext \/ UNCHANGED vars
  BY <1>2, <1>1 DEF CatalogueNext, TokenNext, StreamNext, vars
<1>3. CASE \/ \E c, d \in Clerks, new \in {"none", "ADMIN"} : SetRole(c, d, new)
           \/ \E c \in Clerks : \/ CreateTerms(c) \/ WriteTerms(c) \/ Publish(c)
                                \/ \E id \in 1..(Len(terms) + 1) : Unpublish(c, id)
                                \/ \E code \in {<<>>} \cup MatchingCodes(batches, "AVAILABLE") : Pay(c, code)
                                \/ \E i \in DOMAIN payments, status \in {"PAID", "REFUNDED"} :
                                       PaymentStatus(c, i, status)
           \/ OfficeTick \/ OfficeLost
  <2>1. UNCHANGED <<payments, batches, walk>>
    BY <1>3 DEF SetRole, CreateTerms, WriteTerms, Publish, Unpublish, Pay, PaymentStatus, OfficeTick, OfficeLost, tables
  <2> QED
    BY <2>1, OtherTasksKeepPages
<1>4. CASE OfficeNext
  BY <1>4, <1>3, StartWalkKeepsPages, ReadPageKeepsPages, GenerateCodesKeepsPages, CommitPaymentKeepsPages,
     WritePaymentKeepsPages
     DEF OfficeNext, OfficeStep
<1> QED
  BY <1>2, <1>4 DEF Next

\* paymentsList, activationCodeBatches and activationCodesList: however many rows and
\* pages there are, one who reads all the pages sees every row that was in the list at
\* the beginning, unless a row has left it meanwhile or several have one createdAt.
THEOREM PagesSkipNothingElse == Spec => []PagesSkipOnlyAfterALeave
<1>1. PagesIInv => PagesSkipOnlyAfterALeave
  BY DEF PagesIInv, PagesSkipOnlyAfterALeave, Ties, InstantOf
<1> QED
  BY TermsInitially, TermsStepKeeps, PagesInitially, PagesStepKeeps, ServerAssumption, BackOfficeAssumption, <1>1,
     PTL DEF Spec

-----------------------------------------------------------------------------
\* The types.  The engine of tokens: what a call may be, and those who have asked.
Calls ==
    [pc : {"idle", "starting", "waiting", "token", "failed", "not running", "lost"},
     id : TokenIds \cup {CHOOSE i \in TokenIds : TRUE}]

Asked == {c \in Callers : caller[c].pc # "idle"}

\* Those who have asked are finitely many, and the chains are theirs.
TokenTypes ==
    /\ child \in {"none", "booting", "ready"} /\ starting \in {"none", "pending", "done"}
    /\ start \in {"none", "files", "waiting"} /\ (start # "none" => starting = "pending")
    /\ caller \in [Callers -> Calls]
    /\ IsFiniteSet(Asked) /\ \A c \in Asked : caller[c].id \in TokenIds
    /\ pending \in [TokenIds -> Seq(Asked)] /\ input \in Seq(TokenIds) /\ tokens \subseteq TokenIds

\* A synchronisation has as many pages as it begins with, at most.
SyncTypes == sync \in [left : 0..SyncPages, recent : BOOLEAN]

\* The terms that were hurried are terms.
HurriedTypes == hurried \subseteq DOMAIN terms

\* The first playlist is at no depth, and no playlist is beyond the last.
DepthTypes ==
    /\ player.depth \in 0..(MaxDepth + 1)
    /\ player.pc = "has lines" => player.depth <= MaxDepth
    /\ player.pc = "asks" /\ player.to = "playlist" => player.depth = 0

\* request: the orders of finitely many are sequences of them.
LEMMA OrdersAreSequences ==
    ASSUME NEW T, IsFiniteSet(T), NEW f \in SetToSeqs(T)
    PROVE  f \in Seq(T)
<1>1. Cardinality(T) \in Nat
  BY FS_CardinalityType
<1>2. f \in [1..Cardinality(T) -> T]
  BY DEF SetToSeqs
<1> QED
  BY <1>1, <1>2

\* request: the chains grow by those who ask, and the input by what is asked for.
LEMMA RequestsAreTyped ==
    ASSUME caller' \in [Callers -> Calls],
           NEW A, pending \in [TokenIds -> Seq(A)], input \in Seq(TokenIds),
           NEW S \in SUBSET A, S \subseteq Callers, IsFiniteSet(S), \A c \in S : caller'[c].id \in TokenIds,
           Request(S)
    PROVE  pending' \in [TokenIds -> Seq(A)] /\ input' \in Seq(TokenIds)
<1> DEFINE asking(id) == {c \in S : caller'[c].id = id}
           fresh      == {id \in TokenIds : asking(id) # {} /\ pending[id] = <<>>}
<1>1. PICK chain : /\ \A id \in TokenIds : chain[id] \in SetToSeqs(asking(id))
                   /\ pending' = [id \in TokenIds |-> pending[id] \o chain[id]]
  BY Zenon DEF Request
<1>2. PICK ids \in SetToSeqs(fresh) : input' = input \o ids
  BY Zenon DEF Request
<1>3. ASSUME NEW id \in TokenIds
      PROVE  pending[id] \o chain[id] \in Seq(A)
  <2>1. IsFiniteSet(asking(id)) /\ asking(id) \subseteq A
    BY FS_Subset
  <2>2. chain[id] \in SetToSeqs(asking(id))
    BY <1>1
  <2> HIDE DEF asking
  <2>3. chain[id] \in Seq(asking(id))
    BY ONLY <2>1, <2>2, OrdersAreSequences, Zenon
  <2>4. chain[id] \in Seq(A)
    BY <2>1, <2>3
  <2> QED
    BY <2>4
<1>4. IsFiniteSet(fresh)
  <2> DEFINE asked == {c \in S : caller'[c].id \in fresh}
             f     == [c \in asked |-> caller'[c].id]
  <2>1. IsFiniteSet(asked)
    <3>1. asked \subseteq S
      OBVIOUS
    <3> HIDE DEF asked
    <3> QED
      BY <3>1, FS_Subset
  <2>2. \A id \in fresh : \E c \in asked : f[c] = id
    OBVIOUS
  <2>3. f \in Surjection(asked, fresh)
    <3>1. f \in [asked -> fresh]
      OBVIOUS
    <3> HIDE DEF f, asked, fresh
    <3> QED
      BY <2>2, <3>1 DEF Surjection
  <2> HIDE DEF f, asked, fresh
  <2> QED
    BY ONLY <2>1, <2>3, FS_Surjection, Zenon
<1>5. ids \in Seq(TokenIds)
  <2>1. fresh \subseteq TokenIds
    OBVIOUS
  <2> HIDE DEF fresh
  <2>2. ids \in Seq(fresh)
    BY ONLY <1>2, <1>4, OrdersAreSequences, Zenon
  <2> QED
    BY <2>1, <2>2
<1> QED
  BY <1>1, <1>2, <1>3, <1>5

\* Those who go on have asked before, and for the same.
LEMMA GoingOnAsTyped ==
    ASSUME TokenTypes, NEW S \in SUBSET Asked,
           NEW pc \in {"starting", "waiting", "token", "failed", "not running", "lost"}, Move(S, pc)
    PROVE  /\ caller' \in [Callers -> Calls] /\ Asked' = Asked
           /\ \A c \in Callers : caller'[c].id = caller[c].id
<1>1. caller' = [c \in Callers |-> IF c \in S THEN [caller[c] EXCEPT !.pc = pc] ELSE caller[c]]
  BY Zenon DEF Move
<1>2. ASSUME NEW q \in Calls
      PROVE  [q EXCEPT !.pc = pc] \in Calls /\ [q EXCEPT !.pc = pc].pc = pc /\ [q EXCEPT !.pc = pc].id = q.id
  BY DEF Calls
<1>3. \A c \in Callers : caller[c] \in Calls /\ (c \in S => caller[c].pc # "idle")
  BY DEF TokenTypes, Asked
<1>4. ASSUME NEW c \in Callers
      PROVE  /\ caller'[c] \in Calls /\ caller'[c].id = caller[c].id
             /\ caller'[c].pc # "idle" <=> caller[c].pc # "idle"
  BY <1>1, <1>2, <1>3
<1>5. caller' \in [Callers -> Calls]
  BY <1>1, <1>4
<1>6. Asked' = Asked
  BY <1>4 DEF Asked
<1> QED
  BY <1>4, <1>5, <1>6

\* The rest of the types, when those who have asked go on.
LEMMA GoingOnKeepsTokens ==
    ASSUME TokenTypes, NEW S \in SUBSET Asked,
           NEW pc \in {"starting", "waiting", "token", "failed", "not running", "lost"}, Move(S, pc),
           child' \in {"none", "booting", "ready"}, starting' \in {"none", "pending", "done"},
           start' \in {"none", "files", "waiting"}, start' # "none" => starting' = "pending",
           pending' \in [TokenIds -> Seq(Asked)], input' \in Seq(TokenIds), tokens' \subseteq TokenIds
    PROVE  TokenTypes'
<1>1. /\ caller' \in [Callers -> Calls] /\ Asked' = Asked
      /\ \A c \in Callers : caller'[c].id = caller[c].id
  BY GoingOnAsTyped
<1>2. Asked \subseteq Callers
  BY DEF Asked
<1>3. IsFiniteSet(Asked') /\ \A c \in Asked' : caller'[c].id \in TokenIds
  BY <1>1, <1>2 DEF TokenTypes
<1>4. pending' \in [TokenIds -> Seq(Asked')]
  BY <1>1
<1> QED
  BY <1>1, <1>3, <1>4 DEF TokenTypes

LEMMA AskedAtPlaces ==
    ASSUME TokenTypes
    PROVE  /\ At("starting") \subseteq Asked
           /\ \A i \in TokenIds : ToSet(pending[i]) \subseteq Asked
           /\ [i \in TokenIds |-> <<>>] \in [TokenIds -> Seq(Asked)]
<1>1. \A i \in TokenIds : pending[i] \in Seq(Asked)
  BY DEF TokenTypes
<1>2. \A i \in TokenIds : ToSet(pending[i]) \subseteq Asked
  BY <1>1 DEF ToSet
<1> QED
  BY <1>2 DEF At, Asked

LEMMA TokensInitially == TokensInit => TokenTypes
<1> SUFFICES ASSUME TokensInit
             PROVE  TokenTypes
  OBVIOUS
<1>1. caller = [c \in Callers |-> [pc |-> "idle", id |-> CHOOSE i \in TokenIds : TRUE]]
  BY DEF TokensInit
<1>2. caller \in [Callers -> Calls] /\ \A c \in Callers : caller[c].pc = "idle"
  BY <1>1 DEF Calls
<1>3. Asked = {}
  BY <1>2 DEF Asked
<1>4. IsFiniteSet(Asked)
  BY <1>3, FS_EmptySet
<1> QED
  BY <1>2, <1>3, <1>4 DEF TokensInit, TokenTypes

LEMMA MoreMayBeChained ==
    ASSUME NEW A, NEW B, A \subseteq B, NEW q \in Seq(A)
    PROVE  q \in Seq(B)
  OBVIOUS

\* getToken: one more has asked.
LEMMA GetTokenIsTyped ==
    ASSUME TokenTypes, NEW c \in Callers, NEW id \in TokenIds, GetToken(c, id)
    PROVE  TokenTypes'
<1>1. PICK pc \in {"starting", "waiting", "token", "not running"} :
          caller' = [caller EXCEPT ![c] = [id |-> id, pc |-> pc]]
  BY DEF GetToken
<1>2. [id |-> id, pc |-> pc] \in Calls
  BY DEF Calls
<1>3. caller \in [Callers -> Calls]
  BY DEF TokenTypes
<1>4. /\ caller' \in [Callers -> Calls] /\ caller'[c].id = id /\ caller'[c].pc # "idle"
      /\ \A d \in Callers : d # c => caller'[d] = caller[d]
  BY <1>1, <1>2, <1>3
<1>5. Asked' = Asked \cup {c}
  BY <1>4 DEF Asked
<1>6. IsFiniteSet(Asked') /\ \A d \in Asked' : caller'[d].id \in TokenIds
  <2>1. IsFiniteSet(Asked \cup {c})
    BY FS_AddElement DEF TokenTypes
  <2>2. \A d \in Asked : d \in Callers /\ caller[d].id \in TokenIds
    BY DEF TokenTypes, Asked
  <2> QED
    BY <1>4, <1>5, <2>1, <2>2
<1>7. pending \in [TokenIds -> Seq(Asked')]
  <2>1. \A i \in TokenIds : pending[i] \in Seq(Asked)
    BY DEF TokenTypes
  <2> DEFINE A == Asked
             B == Asked'
  <2>0. A \subseteq B
    BY <1>5
  <2> HIDE DEF A, B
  <2>2. ASSUME NEW q \in Seq(A)
        PROVE  q \in Seq(B)
    BY <2>0, MoreMayBeChained, Zenon
  <2>3. \A i \in TokenIds : pending[i] \in Seq(Asked')
    BY <2>1, <2>2 DEF A, B
  <2> QED
    BY <2>3 DEF TokenTypes
<1>8. pending' \in [TokenIds -> Seq(Asked')] /\ input' \in Seq(TokenIds)
  <2>1. CASE UNCHANGED <<pending, input>>
    BY <1>7, <2>1 DEF TokenTypes
  <2>2. CASE Request({c})
    <3> DEFINE A == Asked'
    <3>0. pending \in [TokenIds -> Seq(A)]
      BY <1>7
    <3>1. /\ {c} \in SUBSET A /\ {c} \subseteq Callers
          /\ \A d \in {c} : caller'[d].id \in TokenIds
          /\ input \in Seq(TokenIds)
      BY <1>4, <1>5 DEF TokenTypes
    <3>2. IsFiniteSet({c})
      BY FS_Singleton
    <3> HIDE DEF A
    <3>3. pending' \in [TokenIds -> Seq(A)] /\ input' \in Seq(TokenIds)
      BY ONLY <1>4, <2>2, <3>0, <3>1, <3>2, RequestsAreTyped, Zenon
    <3> QED
      BY <3>3 DEF A
  <2> QED
    BY <2>1, <2>2 DEF GetToken
<1>9. /\ child' \in {"none", "booting", "ready"} /\ starting' \in {"none", "pending", "done"}
      /\ start' \in {"none", "files", "waiting"} /\ (start' # "none" => starting' = "pending")
      /\ tokens' \subseteq TokenIds
  BY DEF GetToken, TokenTypes
<1> QED
  BY <1>4, <1>6, <1>8, <1>9 DEF TokenTypes

\* start: it fails, or its callers go on to their requests.
LEMMA StartIsTyped ==
    ASSUME TokenTypes, Files \/ Ready \/ StartTimeout
    PROVE  TokenTypes'
<1> USE AskedAtPlaces
<1>0. Asked \subseteq Callers
  BY DEF Asked
<1>1. ASSUME StartFails, child' \in {"none", "booting", "ready"}, UNCHANGED <<pending, input, tokens>>
      PROVE  TokenTypes'
  BY <1>1, GoingOnKeepsTokens DEF StartFails, TokenTypes
<1>2. ASSUME UNCHANGED <<caller, starting, pending, input, tokens>>,
             child' \in {"none", "booting", "ready"},
             start' \in {"none", "files", "waiting"}, start' # "none" => starting = "pending"
      PROVE  TokenTypes'
  BY <1>2 DEF TokenTypes, Asked
<1>3. CASE Ready /\ start = "waiting"
  <2> DEFINE S == At("starting")
  <2>1. /\ Move(S, "waiting") /\ Request(S) /\ S \in SUBSET Asked
        /\ child' = "ready" /\ starting' = "done" /\ start' = "none" /\ UNCHANGED tokens
    BY <1>3 DEF Ready
  <2> HIDE DEF S
  <2>2. /\ caller' \in [Callers -> Calls] /\ \A c \in S : caller'[c].id \in TokenIds
        /\ S \subseteq Callers
    BY <1>0, <2>1, GoingOnAsTyped DEF TokenTypes
  <2>3. IsFiniteSet(S)
    BY <2>1, FS_Subset DEF TokenTypes
  <2>4. pending \in [TokenIds -> Seq(Asked)] /\ input \in Seq(TokenIds)
    BY DEF TokenTypes
  <2>5. pending' \in [TokenIds -> Seq(Asked)] /\ input' \in Seq(TokenIds)
    <3> DEFINE A == Asked
    <3>1. S \in SUBSET A /\ pending \in [TokenIds -> Seq(A)]
      BY <2>1, <2>4
    <3> HIDE DEF A
    <3>2. pending' \in [TokenIds -> Seq(A)] /\ input' \in Seq(TokenIds)
      BY ONLY <2>1, <2>2, <2>3, <2>4, <3>1, RequestsAreTyped, Zenon
    <3> QED
      BY <3>2 DEF A
  <2> QED
    BY <2>1, <2>5, GoingOnKeepsTokens DEF TokenTypes
<1>4. CASE Ready /\ start # "waiting"
  BY <1>2, <1>4 DEF Ready, TokenTypes
<1>5. CASE StartTimeout
  BY <1>1, <1>5 DEF StartTimeout, TokenTypes
<1>6. CASE Files
  BY <1>1, <1>2, <1>6 DEF Files, TokenTypes
<1> QED
  BY <1>3, <1>4, <1>5, <1>6

\* handleOutput and the timers.
LEMMA AnswersAreTyped ==
    ASSUME TokenTypes,
           \/ \E line \in WorkerOutput : Answer(line)
           \/ \E id \in TokenIds : TokenTimeout(id)
           \/ TokensExpire
    PROVE  TokenTypes'
<1> USE AskedAtPlaces
<1>1. ASSUME NEW line \in WorkerOutput, Answer(line)
      PROVE  TokenTypes'
  <2>1. line.id = Head(input) /\ input # <<>> /\ input \in Seq(TokenIds)
    BY <1>1 DEF WorkerOutput, TokenTypes
  <2>2. line.id \in TokenIds
    BY <2>1
  <2>3. PICK pc \in {"token", "failed"} : Move(ToSet(pending[line.id]), pc)
    BY <1>1 DEF Answer
  <2>4. input' \in Seq(TokenIds)
    BY <1>1, <2>1 DEF Answer
  <2>5. pending' \in [TokenIds -> Seq(Asked)]
    <3>1. pending' = [pending EXCEPT ![line.id] = <<>>]
      BY <1>1 DEF Answer
    <3> QED
      BY <3>1 DEF TokenTypes
  <2>6. tokens' \subseteq TokenIds /\ UNCHANGED <<child, starting, start>>
    BY <1>1, <2>2 DEF Answer, TokenTypes
  <2> QED
    BY <2>2, <2>3, <2>4, <2>5, <2>6, GoingOnKeepsTokens DEF TokenTypes
<1>2. ASSUME NEW id \in TokenIds, TokenTimeout(id)
      PROVE  TokenTypes'
  <2>1. pending[id] \in Seq(Asked) /\ pending[id] # <<>>
    BY <1>2 DEF TokenTimeout, TokenTypes
  <2>2. {Head(pending[id])} \in SUBSET Asked
    BY <2>1
  <2>3. pending' \in [TokenIds -> Seq(Asked)]
    BY <1>2 DEF TokenTimeout, TokenTypes
  <2>4. Move({Head(pending[id])}, "failed") /\ UNCHANGED <<child, starting, start, input, tokens>>
    BY <1>2 DEF TokenTimeout
  <2> QED
    BY <2>2, <2>3, <2>4, GoingOnKeepsTokens DEF TokenTypes
<1>3. CASE TokensExpire
  BY <1>3 DEF TokensExpire, TokenTypes, Asked
<1> QED
  BY <1>1, <1>2, <1>3

\* The worker or the server ends.
LEMMA EndsAreTyped ==
    ASSUME TokenTypes, Exit \/ TokensLost
    PROVE  TokenTypes'
<1> USE AskedAtPlaces
<1>0. <<>> \in Seq(TokenIds)
  OBVIOUS
<1>1. CASE Exit
  <2> DEFINE S == {c \in Callers : \E i \in TokenIds : c \in ToSet(pending[i])}
                      \cup (IF start = "waiting" THEN At("starting") ELSE {})
  <2>1. S \in SUBSET Asked
    OBVIOUS
  <2>2. Move(S, "failed")
    BY <1>1 DEF Exit
  <2> HIDE DEF S
  <2>3. /\ pending' \in [TokenIds -> Seq(Asked)] /\ input' = <<>> /\ child' = "none" /\ UNCHANGED tokens
        /\ (starting' = "none" /\ start' = "none") \/ UNCHANGED <<starting, start>>
    BY <1>1 DEF Exit
  <2> QED
    BY <1>0, <2>1, <2>2, <2>3, GoingOnKeepsTokens DEF TokenTypes
<1>2. CASE TokensLost
  <2>1. Move(Asked, "lost")
    BY <1>2 DEF TokensLost, Asked
  <2>2. /\ pending' \in [TokenIds -> Seq(Asked)] /\ input' = <<>> /\ child' = "none"
        /\ starting' = "none" /\ start' = "none" /\ tokens' = {}
    BY <1>2 DEF TokensLost
  <2> QED
    BY <1>0, <2>1, <2>2, GoingOnKeepsTokens
<1> QED
  BY <1>1, <1>2

LEMMA TokenStepIsTyped == TokenTypes /\ [Next]_vars => TokenTypes'
<1> SUFFICES ASSUME TokenTypes, [Next]_vars
             PROVE  TokenTypes'
  OBVIOUS
<1>1. CASE UNCHANGED tokenVars
  BY <1>1 DEF tokenVars, TokenTypes, Asked
<1>2. CASE CatalogueNext \/ OfficeNext \/ StreamNext \/ UNCHANGED vars
  BY <1>2, <1>1 DEF CatalogueNext, OfficeNext, StreamNext, vars
<1>3. CASE TokenNext
  BY <1>3, GetTokenIsTyped, StartIsTyped, AnswersAreTyped, EndsAreTyped DEF TokenNext, TokenStep
<1> QED
  BY <1>2, <1>3 DEF Next

\* ensureSynced and the synchronisation: a page less each time, from SyncPages on.
LEMMA SyncStepIsTyped == CatalogRequestsAssumption /\ SyncTypes /\ [Next]_vars => SyncTypes'
<1> SUFFICES ASSUME CatalogRequestsAssumption, SyncTypes, [Next]_vars
             PROVE  SyncTypes'
  OBVIOUS
<1> USE DEF SyncTypes
<1>0. SyncPages \in Nat
  BY DEF CatalogRequestsAssumption
<1>1. CASE UNCHANGED sync
  BY <1>1
<1>2. CASE TokenNext \/ OfficeNext \/ StreamNext \/ UNCHANGED vars
  BY <1>2, <1>1 DEF TokenNext, OfficeNext, StreamNext, vars, catalogueVars, requestVars
<1>3. CASE Ask \/ Toggle \/ Curate
  BY <1>3, <1>1 DEF Ask, Arrive, Toggle, ToggleAdult, Curate, requestVars
<1>a. sync.left \in 0..SyncPages /\ sync.recent \in BOOLEAN
  OBVIOUS
<1>b. ASSUME NEW n \in 0..SyncPages, NEW recent \in BOOLEAN, sync' = [left |-> n, recent |-> recent]
      PROVE  SyncTypes'
  BY <1>b
<1>4. CASE CatalogueTick \/ CatalogueRestart
  <2>1. sync' = [left |-> sync.left, recent |-> FALSE] \/ sync' = [left |-> 0, recent |-> FALSE]
    BY <1>4 DEF CatalogueTick, RequestsTick, CatalogueRestart, RequestsLost
  <2>2. 0 \in 0..SyncPages
    BY <1>0
  <2> HIDE DEF SyncTypes
  <2> QED
    BY <1>a, <1>b, <2>1, <2>2
<1>5. CASE CatalogueStep
  <2>1. ASSUME NEW r \in Requests, SearchIndex(r)
        PROVE  SyncTypes'
    <3>1. sync' = [left |-> SyncPages, recent |-> TRUE] \/ sync' = sync
      BY <2>1 DEF SearchIndex, EnsureSynced
    <3>2. SyncPages \in 0..SyncPages
      BY <1>0
    <3> HIDE DEF SyncTypes
    <3> QED
      BY <1>1, <1>b, <3>1, <3>2
  <2>2. CASE SyncPage
    BY <1>0, <2>2 DEF SyncPage
  <2>3. ASSUME NEW r \in Requests,
               \/ ReadUser(r) \/ Handle(r) \/ Fetch(r)
               \/ \E type \in ContentTypes : Filter(r, type)
               \/ \E id \in Ids, type \in {"movie", "series"} : Details(r, id, type) \/ Streams(r, id, type)
        PROVE  SyncTypes'
    BY <1>1, <2>3 DEF ReadUser, Handle, Fetch, Filter, Details, Streams
  <2> QED
    BY <1>1, <1>5, <2>1, <2>2, <2>3 DEF CatalogueStep, RequestStep, requestVars
<1> QED
  BY <1>2, <1>3, <1>4, <1>5 DEF Next, CatalogueNext

\* createTerms: what was hurried is there, and the terms are never deleted.
LEMMA HurriedStepIsTyped == TermsIInv /\ HurriedTypes /\ [Next]_vars => HurriedTypes'
<1> SUFFICES ASSUME TermsIInv, HurriedTypes, [Next]_vars
             PROVE  HurriedTypes'
  OBVIOUS
<1>0. terms \in Seq(TermRows) /\ hurried \subseteq 1..Len(terms)
  BY DEF TermsIInv, OfficeTypes, HurriedTypes
<1>1. ASSUME UNCHANGED hurried, DOMAIN terms' = DOMAIN terms
      PROVE  HurriedTypes'
  BY <1>1 DEF HurriedTypes
<1>2. CASE CatalogueNext \/ TokenNext \/ StreamNext \/ UNCHANGED vars
  BY <1>2, <1>1 DEF CatalogueNext, TokenNext, StreamNext, vars, officeVars
<1>3. ASSUME NEW c \in Clerks, WriteTerms(c)
      PROVE  HurriedTypes'
  <2> DEFINE n == Len(terms)
             new == [version |-> task[c].of, published |-> FALSE, at |-> 0]
  <2>1. terms' = Append(terms, new) /\ hurried' \subseteq hurried \cup {n + 1}
    BY <1>3 DEF WriteTerms
  <2> HIDE DEF new
  <2>2. n \in Nat /\ DOMAIN terms' = 1..(n + 1)
    BY <1>0, <2>1
  <2>3. hurried \subseteq 1..n
    BY <1>0
  <2> HIDE DEF n
  <2> QED
    BY <2>1, <2>2, <2>3 DEF HurriedTypes
<1>4. ASSUME NEW c \in Clerks, NEW id, Unpublish(c, id) \/ Publish(c)
      PROVE  HurriedTypes'
  BY <1>1, <1>4 DEF Unpublish, Publish
<1>5. ASSUME NEW c \in Clerks,
             \/ \E d \in Clerks, new \in {"none", "ADMIN"} : SetRole(c, d, new)
             \/ CreateTerms(c)
             \/ \E reseller \in BOOLEAN : GenerateCodes(c, reseller)
             \/ \E code \in {<<>>} \cup MatchingCodes(batches, "AVAILABLE") : Pay(c, code)
             \/ \E i \in DOMAIN payments, status \in {"PAID", "REFUNDED"} : PaymentStatus(c, i, status)
             \/ CommitPayment(c) \/ WritePayment(c)
      PROVE  HurriedTypes'
  BY <1>1, <1>5 DEF SetRole, CreateTerms, GenerateCodes, Pay, PaymentStatus, CommitPayment, WritePayment, tables
<1>6. CASE \/ \E list, status : StartWalk(list, status)
           \/ ReadPage \/ OfficeTick \/ OfficeLost
  BY <1>1, <1>6 DEF StartWalk, ReadPage, OfficeTick, OfficeLost, tables
<1>7. CASE OfficeNext
  BY <1>7, <1>3, <1>4, <1>5, <1>6 DEF OfficeNext, OfficeStep
<1> QED
  BY <1>2, <1>7 DEF Next

\* playlist, proxy: a line of a playlist never leads to another first playlist, and so
\* each level is one deeper.
LEMMA DepthStepIsTyped == StreamProxyAssumption /\ StreamIInv /\ DepthTypes /\ [Next]_vars => DepthTypes'
<1> SUFFICES ASSUME StreamProxyAssumption, StreamIInv, DepthTypes, [Next]_vars
             PROVE  DepthTypes'
  OBVIOUS
<1>0. MaxDepth \in Nat /\ player \in PlayerStates
  BY DEF StreamProxyAssumption, StreamIInv
<1>d. player.depth \in 0..(MaxDepth + 1)
  BY DEF DepthTypes
<1>1. CASE UNCHANGED player
  BY <1>1 DEF DepthTypes
<1>2. CASE CatalogueNext \/ TokenNext \/ OfficeNext \/ UNCHANGED vars
  BY <1>2, <1>1 DEF CatalogueNext, TokenNext, OfficeNext, vars
<1>3. ASSUME NEW host \in Hosts, Play(host)
      PROVE  DepthTypes'
  <2>1. player'.depth = 0 /\ player'.pc = "asks"
    BY <1>3 DEF Play, NoPlayer
  <2>2. 0 \in 0..(MaxDepth + 1)
    BY <1>0
  <2>3. player'.depth \in 0..(MaxDepth + 1)
    BY <2>1, <2>2
  <2> QED
    BY <2>1, <2>3 DEF DepthTypes
<1>4. ASSUME player'.pc = "over", player'.depth = player.depth
      PROVE  DepthTypes'
  BY <1>4 DEF DepthTypes
<1>5. player' = Over \/ player' = [Over EXCEPT !.direct = TRUE] => DepthTypes'
  BY <1>0, <1>4 DEF Over, PlayerStates
<1>6. ASSUME NEW content \in SUBSET Lines, NEW tunnel \in BOOLEAN, Serve(content, tunnel), player.depth <= MaxDepth
      PROVE  DepthTypes'
  <2>1. player'.pc = "has lines" /\ player'.depth = player.depth
    BY <1>0, <1>6 DEF Serve, PlayerStates
  <2>2. player'.depth \in 0..(MaxDepth + 1) /\ player'.depth <= MaxDepth
    BY <1>6, <1>d, <2>1
  <2> QED
    BY <2>1, <2>2 DEF DepthTypes
<1>7. CASE Playlist
  <2>1. player.depth = 0 /\ (player.host = "locked") \in BOOLEAN
    BY <1>7 DEF Playlist, DepthTypes
  <2>2. player.depth <= MaxDepth
    BY <1>0, <2>1
  <2> QED
    BY <1>5, <1>6, <1>7, <2>1, <2>2 DEF Playlist
<1>8. CASE Proxy
  <2>1. player.depth < MaxDepth => player.depth <= MaxDepth
    BY <1>0, <1>d
  <2> QED
    BY <1>5, <1>6, <1>8, <2>1 DEF Proxy
<1>9. CASE AskDirectly \/ AskNothing
  BY <1>5, <1>9 DEF AskDirectly, AskNothing
<1>10. CASE Follow
  <2>1. ASSUME NEW l \in player.lines,
               player' = [player EXCEPT !.pc = "asks", !.to = l.to, !.depth = @ + 1, !.lines = {}]
        PROVE  DepthTypes'
    <3>1. l.to # "playlist"
      BY <1>0 DEF PlayerStates
    <3>2. player'.pc = "asks" /\ player'.to = l.to /\ player'.depth = player.depth + 1
      BY <1>0, <2>1 DEF PlayerStates
    <3>3. player.pc = "has lines"
      BY <1>10 DEF Follow
    <3>4. player.depth + 1 \in 0..(MaxDepth + 1)
      <4> DEFINE d == player.depth
      <4>1. d \in 0..(MaxDepth + 1) /\ d <= MaxDepth /\ MaxDepth \in Nat
        BY <1>0, <1>d, <3>3 DEF DepthTypes
      <4> HIDE DEF d
      <4>2. d + 1 \in 0..(MaxDepth + 1)
        BY <4>1
      <4> QED
        BY <4>2 DEF d
    <3>5. player'.depth \in 0..(MaxDepth + 1)
      BY <3>2, <3>4
    <3> QED
      BY <3>1, <3>2, <3>5 DEF DepthTypes
  <2> QED
    BY <1>5, <1>10, <2>1 DEF Follow
<1> QED
  BY <1>2, <1>3, <1>7, <1>8, <1>9, <1>10 DEF Next, StreamNext, StreamStep

\* The types of the parts, in any order of their steps: a request shows titles, a chain
\* has callers, what is hidden is a movie or a series, and no playlist is too deep.
THEOREM ServerIsTyped == Spec => []TypeOK
<1>1. Init => TokenTypes /\ SyncTypes /\ HurriedTypes /\ DepthTypes
  <2> SUFFICES ASSUME Init
               PROVE  TokenTypes /\ SyncTypes /\ HurriedTypes /\ DepthTypes
    OBVIOUS
  <2>1. TokenTypes
    BY TokensInitially DEF Init
  <2>2. SyncTypes
    BY CatalogRequestsAssumption DEF Init, RequestsInit, SyncTypes, CatalogRequestsAssumption
  <2>3. HurriedTypes
    BY DEF Init, OfficeInit, HurriedTypes
  <2>4. DepthTypes
    BY StreamProxyAssumption DEF Init, StreamInit, NoPlayer, DepthTypes, StreamProxyAssumption
  <2> QED
    BY <2>1, <2>2, <2>3, <2>4
<1>2. ASSUME AdultIInv, TableIInv, LedgerIInv, TokenTypes, SyncTypes, HurriedTypes, DepthTypes
      PROVE  TypeOK
  <2>1. \A r \in Requests : request[r].shows \subseteq Ids
    BY <1>2 DEF AdultIInv, AdultTypes, RequestStates
  <2>2. /\ unavailable \in [Keys -> [listed : BOOLEAN, due : BOOLEAN]]
        /\ \A id \in Ids : ~unavailable[<<id, "anime">>].listed
        /\ unawaited \subseteq Keys
    BY <1>2 DEF TableIInv, TableTypes, Titles, Keys, ContentTypes
  <2>3. pending \in [TokenIds -> Seq(Callers)]
    <3>1. \A i \in TokenIds : pending[i] \in Seq(Asked)
      BY <1>2 DEF TokenTypes
    <3>2. Asked \subseteq Callers
      BY DEF Asked
    <3>3. \A i \in TokenIds : pending[i] \in Seq(Callers)
      BY <3>1, <3>2, MoreMayBeChained, Zenon
    <3> QED
      BY <1>2, <3>3 DEF TokenTypes
  <2> QED
    BY <1>2, <2>1, <2>2, <2>3 DEF TypeOK, TokenTypes, SyncTypes, HurriedTypes, DepthTypes, LedgerIInv
<1> QED
  BY AdultInitially, AdultStepKeeps, TableInitially, TableStepKeeps, TermsInitially, TermsStepKeeps, LedgerInitially,
     LedgerStepKeeps, StreamInitially, StreamStepKeeps, TokenStepIsTyped, SyncStepIsTyped, HurriedStepIsTyped,
     DepthStepIsTyped, ServerAssumption, BackOfficeAssumption, UnavailableAssumption, CatalogRequestsAssumption,
     StreamProxyAssumption, <1>1, <1>2, PTL DEF Spec

-----------------------------------------------------------------------------
\* The engine again: a start is pending while it is under way, and what has a chain was
\* written to a worker that lives.
ChainsAreWritten ==
    /\ starting = "pending" => start # "none"
    /\ \A id \in TokenIds : pending[id] # <<>> => child # "none" /\ id \in ToSet(input)

WaitIInv == NobodyIsForgotten /\ ChainsAreWritten

\* An order of finitely many leaves nobody out.
LEMMA OrdersAreComplete ==
    ASSUME NEW T, IsFiniteSet(T), NEW f \in SetToSeqs(T)
    PROVE  ToSet(f) = T
<1> DEFINE D == 1..Cardinality(T)
<1>1. Cardinality(T) \in Nat
  BY FS_CardinalityType
<1>2. f \in [D -> T] /\ \A i, j \in D : i # j => f[i] # f[j]
  BY DEF SetToSeqs
<1>3. f \in Injection(D, T)
  BY <1>2 DEF Injection, IsInjective
<1>4. Cardinality(D) = Cardinality(T)
  BY <1>1, FS_Interval
<1> HIDE DEF D
<1>5. f \in Surjection(D, T)
  BY ONLY <1>3, <1>4, IsFiniteSet(T), FS_Injection, Zenon
<1> QED
  BY <1>2, <1>5 DEF Surjection, ToSet

LEMMA ConcatenatedElements ==
    ASSUME NEW T, NEW p \in Seq(T), NEW q \in Seq(T)
    PROVE  ToSet(p \o q) = ToSet(p) \cup ToSet(q)
<1> DEFINE m == Len(p)
           n == Len(q)
<1>1. /\ m \in Nat /\ n \in Nat /\ DOMAIN p = 1..m /\ DOMAIN q = 1..n /\ DOMAIN (p \o q) = 1..(m + n)
      /\ \A i \in 1..m : (p \o q)[i] = p[i]
      /\ \A i \in 1..n : (p \o q)[m + i] = q[i]
      /\ \A i \in 1..(m + n) : i > m => (p \o q)[i] = q[i - m]
  OBVIOUS
<1> HIDE DEF m, n
<1>2. \A i \in 1..m : i \in 1..(m + n)
  BY <1>1
<1>3. \A i \in 1..n : m + i \in 1..(m + n)
  BY <1>1
<1>4. \A i \in 1..(m + n) : i \in 1..m \/ (i > m /\ i - m \in 1..n)
  BY <1>1
<1>5. ASSUME NEW x \in ToSet(p) \cup ToSet(q)
      PROVE  x \in ToSet(p \o q)
  <2>1. CASE x \in ToSet(p)
    <3>1. PICK i \in 1..m : p[i] = x
      BY <1>1, <2>1 DEF ToSet
    <3>2. i \in 1..(m + n) /\ (p \o q)[i] = x
      BY <1>1, <1>2, <3>1
    <3> QED
      BY <1>1, <3>2 DEF ToSet
  <2>2. CASE x \in ToSet(q)
    <3>1. PICK i \in 1..n : q[i] = x
      BY <1>1, <2>2 DEF ToSet
    <3>2. m + i \in 1..(m + n) /\ (p \o q)[m + i] = x
      BY <1>1, <1>3, <3>1
    <3> QED
      BY <1>1, <3>2 DEF ToSet
  <2> QED
    BY <1>5, <2>1, <2>2
<1>6. ASSUME NEW x \in ToSet(p \o q)
      PROVE  x \in ToSet(p) \cup ToSet(q)
  BY <1>1, <1>4 DEF ToSet
<1> QED
  BY <1>5, <1>6

\* request: who asks is in the chain of an id that is written, and the chains only grow.
LEMMA RequestsAreWritten ==
    ASSUME caller' \in [Callers -> Calls],
           NEW A, pending \in [TokenIds -> Seq(A)], input \in Seq(TokenIds),
           NEW S \in SUBSET A, S \subseteq Callers, IsFiniteSet(S), \A c \in S : caller'[c].id \in TokenIds,
           Request(S)
    PROVE  \A id \in TokenIds :
              /\ ToSet(pending'[id]) = ToSet(pending[id]) \cup {c \in S : caller'[c].id = id}
              /\ id \in ToSet(input') <=>
                     id \in ToSet(input) \/ ({c \in S : caller'[c].id = id} # {} /\ pending[id] = <<>>)
              /\ pending'[id] # <<>> => pending[id] # <<>> \/ {c \in S : caller'[c].id = id} # {}
<1> DEFINE asking(id) == {c \in S : caller'[c].id = id}
           fresh      == {id \in TokenIds : asking(id) # {} /\ pending[id] = <<>>}
<1>1. PICK chain : /\ \A id \in TokenIds : chain[id] \in SetToSeqs(asking(id))
                   /\ pending' = [id \in TokenIds |-> pending[id] \o chain[id]]
  BY Zenon DEF Request
<1>2. PICK ids \in SetToSeqs(fresh) : input' = input \o ids
  BY Zenon DEF Request
<1>3. IsFiniteSet(fresh) /\ fresh \subseteq TokenIds
  <2> DEFINE asked == {c \in S : caller'[c].id \in fresh}
             f     == [c \in asked |-> caller'[c].id]
  <2>1. IsFiniteSet(asked)
    <3>1. asked \subseteq S
      OBVIOUS
    <3> HIDE DEF asked
    <3> QED
      BY <3>1, FS_Subset
  <2>2. \A id \in fresh : \E c \in asked : f[c] = id
    OBVIOUS
  <2>3. f \in Surjection(asked, fresh)
    <3>1. f \in [asked -> fresh]
      OBVIOUS
    <3> HIDE DEF f, asked, fresh
    <3> QED
      BY <2>2, <3>1 DEF Surjection
  <2>4. fresh \subseteq TokenIds
    OBVIOUS
  <2> HIDE DEF f, asked, fresh
  <2> QED
    BY ONLY <2>1, <2>3, <2>4, FS_Surjection, Zenon
<1>4. ToSet(input') = ToSet(input) \cup fresh
  <2> DEFINE F == fresh
  <2>1. IsFiniteSet(F) /\ F \subseteq TokenIds /\ ids \in SetToSeqs(F)
    BY <1>2, <1>3
  <2> HIDE DEF F, fresh
  <2>2. ToSet(ids) = F /\ ids \in Seq(F)
    BY ONLY <2>1, OrdersAreComplete, OrdersAreSequences, Zenon
  <2>3. ids \in Seq(TokenIds)
    BY ONLY <2>1, <2>2, MoreMayBeChained, Zenon
  <2>4. ToSet(input \o ids) = ToSet(input) \cup ToSet(ids)
    BY ONLY <2>3, input \in Seq(TokenIds), ConcatenatedElements, Zenon
  <2> QED
    BY <1>2, <2>2, <2>4 DEF F
<1>5. ASSUME NEW id \in TokenIds
      PROVE  /\ ToSet(pending'[id]) = ToSet(pending[id]) \cup asking(id)
             /\ pending'[id] # <<>> => pending[id] # <<>> \/ asking(id) # {}
  <2> DEFINE B == asking(id)
  <2>1. IsFiniteSet(B) /\ B \subseteq A
    BY FS_Subset
  <2>2. chain[id] \in SetToSeqs(B) /\ pending'[id] = pending[id] \o chain[id]
    BY <1>1
  <2>3. pending[id] \in Seq(A)
    OBVIOUS
  <2> HIDE DEF B
  <2>4. ToSet(chain[id]) = B /\ chain[id] \in Seq(B)
    BY ONLY <2>1, <2>2, OrdersAreComplete, OrdersAreSequences, Zenon
  <2>5. chain[id] \in Seq(A)
    BY ONLY <2>1, <2>4, MoreMayBeChained, Zenon
  <2>6. ToSet(pending[id] \o chain[id]) = ToSet(pending[id]) \cup ToSet(chain[id])
    BY ONLY <2>3, <2>5, ConcatenatedElements, Zenon
  <2>7. B = {} => chain[id] = <<>>
    BY <2>4
  <2> QED
    BY <2>2, <2>3, <2>4, <2>6, <2>7 DEF B
<1> QED
  BY <1>4, <1>5

LEMMA WaitInitially == Init => WaitIInv
  BY DEF Init, TokensInit, WaitIInv, NobodyIsForgotten, ChainsAreWritten, At

\* Nothing is said of who waits, or of what is written, but that it stays.
LEMMA QuietKeepsWait ==
    ASSUME WaitIInv, UNCHANGED <<pending, input>>,
           \A c \in Callers : caller'[c].pc = "waiting" /\ c \notin orphans' =>
               c \in At("waiting") \ orphans /\ caller'[c].id = caller[c].id,
           At("starting")' # {} => start' # "none",
           starting' = "pending" => start' # "none",
           start' = "waiting" => child' = "booting",
           child # "none" => child' # "none"
    PROVE  WaitIInv'
<1>1. ChainsAreWritten'
  BY DEF WaitIInv, ChainsAreWritten
<1>2. \A c \in (At("waiting") \ orphans)' :
          LET id == caller'[c].id
          IN  child' # "none" /\ c \in ToSet(pending'[id]) /\ id \in ToSet(input')
  <2> SUFFICES ASSUME NEW c \in Callers, caller'[c].pc = "waiting", c \notin orphans'
               PROVE  LET id == caller'[c].id
                      IN  child' # "none" /\ c \in ToSet(pending'[id]) /\ id \in ToSet(input')
    BY DEF At
  <2>1. c \in At("waiting") \ orphans /\ caller'[c].id = caller[c].id
    OBVIOUS
  <2> QED
    BY <2>1 DEF WaitIInv, NobodyIsForgotten
<1> QED
  BY <1>1, <1>2 DEF WaitIInv, NobodyIsForgotten

LEMMA WhereTheyGo ==
    ASSUME TokenTypes, NEW S \in SUBSET Asked,
           NEW pc \in {"starting", "waiting", "token", "failed", "not running", "lost"}, Move(S, pc)
    PROVE  \A c \in Callers : /\ caller'[c].id = caller[c].id
                              /\ caller'[c].pc = IF c \in S THEN pc ELSE caller[c].pc
<1>1. caller' = [c \in Callers |-> IF c \in S THEN [caller[c] EXCEPT !.pc = pc] ELSE caller[c]]
  BY Zenon DEF Move
<1>2. ASSUME NEW q \in Calls
      PROVE  [q EXCEPT !.pc = pc].pc = pc /\ [q EXCEPT !.pc = pc].id = q.id
  BY DEF Calls
<1>3. \A c \in Callers : caller[c] \in Calls
  BY DEF TokenTypes
<1> QED
  BY <1>1, <1>2, <1>3

\* getToken: who is neither answered nor refused waits for a start or for a request.
LEMMA GetTokenKeepsWait ==
    ASSUME TokenTypes, WaitIInv, NEW c \in Callers, NEW id \in TokenIds, GetToken(c, id)
    PROVE  WaitIInv'
<1>1. PICK pc \in {"starting", "waiting", "token", "not running"} :
          /\ caller' = [caller EXCEPT ![c] = [id |-> id, pc |-> pc]]
          /\ pc = "waiting" <=> id \notin tokens /\ child # "none"
          /\ pc = "starting" => id \notin tokens /\ child = "none" /\ starting # "done"
  BY DEF GetToken
<1>2. caller \in [Callers -> Calls] /\ caller[c].pc = "idle" /\ UNCHANGED <<child, tokens, orphans>>
  BY DEF GetToken, TokenTypes
<1>3. /\ caller'[c].pc = pc /\ caller'[c].id = id
      /\ \A d \in Callers : d # c => caller'[d] = caller[d]
  BY <1>1, <1>2
<1>4. CASE pc # "waiting"
  <2>1. UNCHANGED <<pending, input>>
    BY <1>1, <1>4 DEF GetToken
  <2>2. \/ UNCHANGED <<starting, start>> /\ (starting = "pending" \/ pc # "starting")
        \/ starting' = "pending" /\ start' = "files"
    BY <1>1, <1>4 DEF GetToken, TokenTypes
  <2>3. \A d \in Callers : caller'[d].pc = "waiting" /\ d \notin orphans' =>
            d \in At("waiting") \ orphans /\ caller'[d].id = caller[d].id
    BY <1>2, <1>3, <1>4 DEF At
  <2>4. At("starting")' # {} => start' # "none"
    <3>1. At("starting")' # {} => At("starting") # {} \/ pc = "starting"
      BY <1>3 DEF At
    <3>2. At("starting") # {} => start # "none"
      BY DEF WaitIInv, NobodyIsForgotten
    <3>3. starting = "pending" => start # "none"
      BY DEF WaitIInv, ChainsAreWritten
    <3> QED
      BY <2>2, <3>1, <3>2, <3>3
  <2>5. (starting' = "pending" => start' # "none") /\ (start' = "waiting" => child' = "booting")
    BY <1>2, <2>2 DEF WaitIInv, NobodyIsForgotten, ChainsAreWritten
  <2> QED
    BY <1>2, <2>1, <2>3, <2>4, <2>5, QuietKeepsWait
<1>5. CASE pc = "waiting"
  <2>1. Request({c}) /\ UNCHANGED <<starting, start>> /\ child # "none" /\ child' # "none"
    BY <1>1, <1>2, <1>5 DEF GetToken
  <2>2. caller' \in [Callers -> Calls] /\ (Asked \cup {c} = Asked')
    <3>1. [id |-> id, pc |-> pc] \in Calls
      BY DEF Calls
    <3> QED
      BY <1>1, <1>2, <1>3, <3>1 DEF Asked
  <2>3. \A i \in TokenIds :
            /\ ToSet(pending'[i]) = ToSet(pending[i]) \cup {d \in {c} : caller'[d].id = i}
            /\ i \in ToSet(input') <=>
                   i \in ToSet(input) \/ ({d \in {c} : caller'[d].id = i} # {} /\ pending[i] = <<>>)
            /\ pending'[i] # <<>> => pending[i] # <<>> \/ {d \in {c} : caller'[d].id = i} # {}
    <3> DEFINE A == Asked'
               S == {c}
    <3>1. pending \in [TokenIds -> Seq(A)] /\ input \in Seq(TokenIds)
      <4> DEFINE B == Asked
      <4>1. B \subseteq A /\ \A i \in TokenIds : pending[i] \in Seq(B)
        BY <2>2 DEF TokenTypes
      <4> HIDE DEF A, B
      <4>2. \A i \in TokenIds : pending[i] \in Seq(A)
        BY <4>1, MoreMayBeChained, Zenon
      <4> QED
        BY <4>2 DEF TokenTypes
    <3>2. IsFiniteSet(S) /\ S \in SUBSET A /\ S \subseteq Callers /\ \A d \in S : caller'[d].id \in TokenIds
      BY <1>3, <2>2, FS_Singleton
    <3>3. Request(S)
      BY <2>1
    <3> HIDE DEF A, S
    <3>4. \A i \in TokenIds :
              /\ ToSet(pending'[i]) = ToSet(pending[i]) \cup {d \in S : caller'[d].id = i}
              /\ i \in ToSet(input') <=>
                     i \in ToSet(input) \/ ({d \in S : caller'[d].id = i} # {} /\ pending[i] = <<>>)
              /\ pending'[i] # <<>> => pending[i] # <<>> \/ {d \in S : caller'[d].id = i} # {}
      BY ONLY <2>2, <3>1, <3>2, <3>3, RequestsAreWritten, Zenon
    <3> QED
      BY <3>4 DEF S
  <2>4. ChainsAreWritten'
    BY <2>1, <2>3 DEF WaitIInv, ChainsAreWritten
  <2>5. c \in ToSet(pending'[id]) /\ id \in ToSet(input')
    <3>1. c \in {d \in {c} : caller'[d].id = id}
      BY <1>3
    <3>2. pending[id] # <<>> => id \in ToSet(input)
      BY DEF WaitIInv, ChainsAreWritten
    <3> QED
      BY <2>3, <3>1, <3>2
  <2>6. ASSUME NEW d \in Callers, d # c, caller'[d].pc = "waiting", d \notin orphans'
        PROVE  d \in ToSet(pending'[caller'[d].id]) /\ caller'[d].id \in ToSet(input')
    <3>1. caller'[d] = caller[d] /\ d \in At("waiting") \ orphans
      BY <1>2, <1>3, <2>6 DEF At
    <3>2. caller[d].id \in TokenIds
      BY <3>1 DEF At, TokenTypes, Asked
    <3>3. d \in ToSet(pending[caller[d].id]) /\ caller[d].id \in ToSet(input)
      BY <3>1 DEF WaitIInv, NobodyIsForgotten
    <3> QED
      BY <2>3, <3>1, <3>2, <3>3
  <2>7. At("starting")' = At("starting")
    BY <1>2, <1>3, <1>5 DEF At
  <2>8. \A d \in (At("waiting") \ orphans)' :
            LET i == caller'[d].id
            IN  child' # "none" /\ d \in ToSet(pending'[i]) /\ i \in ToSet(input')
    BY <1>3, <2>1, <2>5, <2>6 DEF At
  <2>9. (At("starting")' # {} => start' # "none") /\ (start' = "waiting" => child' = "booting")
    BY <1>2, <2>1, <2>7 DEF WaitIInv, NobodyIsForgotten
  <2> QED
    BY <2>4, <2>8, <2>9 DEF WaitIInv, NobodyIsForgotten
<1> QED
  BY <1>4, <1>5

\* start: when it fails nobody is left waiting for it, and when it succeeds they have
\* their requests.
LEMMA StartKeepsWait ==
    ASSUME TokenTypes, WaitIInv, Files \/ Ready \/ StartTimeout
    PROVE  WaitIInv'
<1>0. At("starting") \subseteq Asked /\ Asked \subseteq Callers /\ UNCHANGED orphans
  BY DEF At, Asked, Files, Ready, StartTimeout
<1>1. ASSUME StartFails, UNCHANGED <<pending, input, child>>
      PROVE  WaitIInv'
  <2> DEFINE S == At("starting")
  <2>1. S \in SUBSET Asked /\ Move(S, "failed") /\ starting' = "none" /\ start' = "none"
    BY <1>0, <1>1 DEF StartFails
  <2>2. \A c \in Callers : c \in S <=> caller[c].pc = "starting"
    BY DEF At
  <2> HIDE DEF S
  <2>3. \A c \in Callers : caller'[c].id = caller[c].id /\ caller'[c].pc = IF c \in S THEN "failed" ELSE caller[c].pc
    BY <2>1, WhereTheyGo
  <2>4. At("starting")' = {}
    BY <2>2, <2>3 DEF At
  <2>5. \A c \in Callers : caller'[c].pc = "waiting" /\ c \notin orphans' =>
            c \in At("waiting") \ orphans /\ caller'[c].id = caller[c].id
    BY <1>0, <2>3 DEF At
  <2> QED
    BY <1>1, <2>1, <2>4, <2>5, QuietKeepsWait
<1>2. ASSUME UNCHANGED <<caller, starting, pending, input>>, child' # "none",
             start' = "waiting" => child' = "booting", start' = "none" => start = "none"
      PROVE  WaitIInv'
  <2>1. \A c \in Callers : caller'[c].pc = "waiting" /\ c \notin orphans' =>
            c \in At("waiting") \ orphans /\ caller'[c].id = caller[c].id
    BY <1>0, <1>2 DEF At
  <2>2. At("starting")' # {} => start' # "none"
    BY <1>2 DEF At, WaitIInv, NobodyIsForgotten
  <2>3. starting' = "pending" => start' # "none"
    BY <1>2 DEF WaitIInv, ChainsAreWritten
  <2> QED
    BY <1>2, <2>1, <2>2, <2>3, QuietKeepsWait
<1>3. CASE Ready /\ start = "waiting"
  <2> DEFINE S == At("starting")
  <2>1. S \in SUBSET Asked /\ Move(S, "waiting") /\ Request(S) /\ child' = "ready" /\ starting' = "done" /\ start' = "none"
    BY <1>0, <1>3 DEF Ready
  <2>2. \A c \in Callers : c \in S <=> caller[c].pc = "starting"
    BY DEF At
  <2> HIDE DEF S
  <2>3. \A c \in Callers : caller'[c].id = caller[c].id /\ caller'[c].pc = IF c \in S THEN "waiting" ELSE caller[c].pc
    BY <2>1, WhereTheyGo
  <2>4. caller' \in [Callers -> Calls] /\ S \subseteq Callers /\ \A c \in S : caller'[c].id \in TokenIds
    BY <1>0, <2>1, <2>3, GoingOnAsTyped DEF TokenTypes
  <2>5. IsFiniteSet(S)
    BY <2>1, FS_Subset DEF TokenTypes
  <2>6. \A i \in TokenIds :
            /\ ToSet(pending'[i]) = ToSet(pending[i]) \cup {d \in S : caller'[d].id = i}
            /\ i \in ToSet(input') <=>
                   i \in ToSet(input) \/ ({d \in S : caller'[d].id = i} # {} /\ pending[i] = <<>>)
            /\ pending'[i] # <<>> => pending[i] # <<>> \/ {d \in S : caller'[d].id = i} # {}
    <3> DEFINE A == Asked
    <3>1. S \in SUBSET A /\ pending \in [TokenIds -> Seq(A)] /\ input \in Seq(TokenIds)
      BY <2>1 DEF TokenTypes
    <3> HIDE DEF A
    <3> QED
      BY ONLY <2>1, <2>4, <2>5, <3>1, RequestsAreWritten, Zenon
  <2>7. ChainsAreWritten'
    BY <2>1, <2>6 DEF WaitIInv, ChainsAreWritten
  <2>8. ASSUME NEW c \in Callers, caller'[c].pc = "waiting", c \notin orphans'
        PROVE  c \in ToSet(pending'[caller'[c].id]) /\ caller'[c].id \in ToSet(input')
    <3>1. CASE c \in S
      <4> DEFINE i == caller'[c].id
      <4>1. i \in TokenIds /\ c \in {d \in S : caller'[d].id = i}
        BY <2>4, <3>1
      <4>2. pending[i] # <<>> => i \in ToSet(input)
        BY <4>1 DEF WaitIInv, ChainsAreWritten
      <4> QED
        BY <2>6, <4>1, <4>2
    <3>2. CASE c \notin S
      <4>1. caller[c].pc = "waiting" /\ caller'[c].id = caller[c].id /\ c \in At("waiting") \ orphans
        BY <1>0, <2>3, <2>8, <3>2 DEF At
      <4>2. caller[c].id \in TokenIds
        BY <4>1 DEF TokenTypes, Asked
      <4>3. c \in ToSet(pending[caller[c].id]) /\ caller[c].id \in ToSet(input)
        BY <4>1 DEF WaitIInv, NobodyIsForgotten
      <4> QED
        BY <2>6, <4>1, <4>2, <4>3
    <3> QED
      BY <3>1, <3>2
  <2>9. At("starting")' = {}
    BY <2>2, <2>3 DEF At
  <2>10. \A c \in (At("waiting") \ orphans)' :
            LET i == caller'[c].id
            IN  child' # "none" /\ c \in ToSet(pending'[i]) /\ i \in ToSet(input')
    BY <2>1, <2>8 DEF At
  <2> QED
    BY <2>1, <2>7, <2>9, <2>10 DEF WaitIInv, NobodyIsForgotten
<1>4. CASE Ready /\ start # "waiting"
  BY <1>2, <1>4 DEF Ready
<1>5. CASE StartTimeout
  BY <1>1, <1>5 DEF StartTimeout
<1>6. CASE Files
  BY <1>1, <1>2, <1>6 DEF Files
<1> QED
  BY <1>3, <1>4, <1>5, <1>6

\* handleOutput, the timer and the end of the worker: who leaves a chain is answered, or
\* is an orphan.
LEMMA LeavingKeepsWait ==
    ASSUME TokenTypes, WaitIInv,
           NEW S \in SUBSET Asked, NEW pc \in {"token", "failed"}, Move(S, pc),
           NEW gone \in SUBSET TokenIds,
           \A i \in TokenIds : pending'[i] = IF i \in gone THEN <<>> ELSE pending[i],
           \A i \in TokenIds : i \in ToSet(input) \ gone => i \in ToSet(input'),
           \A i \in gone : \A c \in ToSet(pending[i]) : c \in S \/ c \in orphans',
           orphans \subseteq orphans' \cup S,
           gone = TokenIds \/ UNCHANGED child,
           At("starting") \subseteq S \/ UNCHANGED start,
           starting' = "pending" => start' # "none" /\ UNCHANGED <<starting, start>>,
           start' = "waiting" => child' = "booting"
    PROVE  WaitIInv'
<1>1. \A c \in Callers : caller'[c].id = caller[c].id /\ caller'[c].pc = IF c \in S THEN pc ELSE caller[c].pc
  <2>1. caller' = [c \in Callers |-> IF c \in S THEN [caller[c] EXCEPT !.pc = pc] ELSE caller[c]]
    BY Zenon DEF Move
  <2>2. ASSUME NEW q \in Calls
        PROVE  [q EXCEPT !.pc = pc].pc = pc /\ [q EXCEPT !.pc = pc].id = q.id
    BY DEF Calls
  <2>3. \A c \in Callers : caller[c] \in Calls
    BY DEF TokenTypes
  <2> QED
    BY ONLY <2>1, <2>2, <2>3
<1>2. ChainsAreWritten'
  BY DEF WaitIInv, ChainsAreWritten
<1>3. ASSUME NEW c \in Callers, caller'[c].pc = "waiting", c \notin orphans'
      PROVE  child' # "none" /\ c \in ToSet(pending'[caller'[c].id]) /\ caller'[c].id \in ToSet(input')
  <2>1. c \notin S /\ caller[c].pc = "waiting" /\ caller'[c].id = caller[c].id
    BY <1>1, <1>3
  <2>2. c \in At("waiting") \ orphans
    BY <1>3, <2>1 DEF At
  <2>3. caller[c].id \in TokenIds
    BY <2>1 DEF TokenTypes, Asked
  <2>4. child # "none" /\ c \in ToSet(pending[caller[c].id]) /\ caller[c].id \in ToSet(input)
    BY <2>2 DEF WaitIInv, NobodyIsForgotten
  <2>5. caller[c].id \notin gone
    BY <1>3, <2>1, <2>4
  <2> QED
    BY <2>1, <2>3, <2>4, <2>5
<1>4. At("starting")' # {} => start' # "none"
  <2>1. At("starting")' \subseteq At("starting") \ S
    BY <1>1 DEF At
  <2> QED
    BY <2>1 DEF WaitIInv, NobodyIsForgotten
<1>5. \A c \in (At("waiting") \ orphans)' :
          LET i == caller'[c].id
          IN  child' # "none" /\ c \in ToSet(pending'[i]) /\ i \in ToSet(input')
  BY <1>3 DEF At
<1> QED
  BY <1>2, <1>4, <1>5 DEF WaitIInv, NobodyIsForgotten

LEMMA AnswersKeepWait ==
    ASSUME TokenTypes, WaitIInv,
           \/ \E line \in WorkerOutput : Answer(line)
           \/ \E id \in TokenIds : TokenTimeout(id)
           \/ TokensExpire
    PROVE  WaitIInv'
<1>0. \A i \in TokenIds : pending[i] \in Seq(Asked) /\ ToSet(pending[i]) \subseteq Asked
  <2>1. \A i \in TokenIds : pending[i] \in Seq(Asked)
    BY DEF TokenTypes
  <2> QED
    BY <2>1 DEF ToSet
<1>1. ASSUME NEW line \in WorkerOutput, Answer(line)
      PROVE  WaitIInv'
  <2> DEFINE id == line.id
             S  == ToSet(pending[id])
  <2>1. id = Head(input) /\ input # <<>> /\ input \in Seq(TokenIds)
    BY <1>1 DEF WorkerOutput, TokenTypes
  <2>2. id \in TokenIds
    BY <2>1
  <2>3. PICK pc \in {"token", "failed"} : Move(S, pc)
    BY <1>1 DEF Answer
  <2>4. input' = Tail(input) /\ pending' = [pending EXCEPT ![id] = <<>>] /\ UNCHANGED <<child, starting, start, orphans>>
    BY <1>1 DEF Answer
  <2>5. \A i \in TokenIds : pending'[i] = IF i \in {id} THEN <<>> ELSE pending[i]
    BY <2>4 DEF TokenTypes
  <2>6. \A i \in TokenIds : i \in ToSet(input) \ {id} => i \in ToSet(input')
    <3> SUFFICES ASSUME NEW i \in ToSet(input), i # id
                 PROVE  i \in ToSet(input')
      OBVIOUS
    <3> DEFINE n == Len(input)
    <3>1. /\ n \in Nat \ {0} /\ DOMAIN input = 1..n /\ Head(input) = input[1]
          /\ DOMAIN Tail(input) = 1..(n - 1) /\ \A k \in 1..(n - 1) : Tail(input)[k] = input[k + 1]
      BY <2>1
    <3> HIDE DEF n
    <3>2. PICK k \in 1..n : input[k] = i
      BY <3>1 DEF ToSet
    <3>3. k # 1
      BY <2>1, <3>1, <3>2
    <3>4. k - 1 \in 1..(n - 1) /\ (k - 1) + 1 = k
      BY <3>1, <3>2, <3>3
    <3>5. Tail(input)[k - 1] = i
      BY <3>1, <3>2, <3>4
    <3> QED
      BY <2>4, <3>1, <3>4, <3>5 DEF ToSet
  <2>7. /\ S \in SUBSET Asked /\ {id} \in SUBSET TokenIds
        /\ \A i \in {id} : \A c \in ToSet(pending[i]) : c \in S \/ c \in orphans'
        /\ orphans \subseteq orphans' \cup S
    BY <1>0, <2>2, <2>4
  <2>8. (starting' = "pending" => start' # "none" /\ UNCHANGED <<starting, start>>)
            /\ (start' = "waiting" => child' = "booting")
    BY <2>4 DEF WaitIInv, NobodyIsForgotten, ChainsAreWritten
  <2> HIDE DEF S, id
  <2> QED
    BY <2>3, <2>4, <2>5, <2>6, <2>7, <2>8, LeavingKeepsWait
<1>2. ASSUME NEW id \in TokenIds, TokenTimeout(id)
      PROVE  WaitIInv'
  <2> DEFINE q == pending[id]
             S == {Head(q)}
  <2>1. q \in Seq(Asked) /\ q # <<>>
    BY <1>0, <1>2 DEF TokenTimeout
  <2>2. /\ Move(S, "failed") /\ orphans' = orphans \cup ToSet(Tail(q))
        /\ pending' = [pending EXCEPT ![id] = <<>>] /\ UNCHANGED <<child, starting, start, input>>
    BY <1>2 DEF TokenTimeout
  <2>3. \A i \in TokenIds : pending'[i] = IF i \in {id} THEN <<>> ELSE pending[i]
    BY <2>2 DEF TokenTypes
  <2>4. S \in SUBSET Asked /\ \A c \in ToSet(q) : c \in S \/ c \in ToSet(Tail(q))
    <3> DEFINE n == Len(q)
    <3> HIDE DEF q
    <3>1. /\ n \in Nat \ {0} /\ DOMAIN q = 1..n /\ Head(q) = q[1] /\ q[1] \in Asked
          /\ DOMAIN Tail(q) = 1..(n - 1) /\ \A k \in 1..(n - 1) : Tail(q)[k] = q[k + 1]
      BY <2>1
    <3> HIDE DEF n
    <3>2. ASSUME NEW k \in 1..n
          PROVE  q[k] = Head(q) \/ q[k] \in ToSet(Tail(q))
      <4>1. k = 1 \/ (k - 1 \in 1..(n - 1) /\ (k - 1) + 1 = k)
        BY <3>1
      <4> QED
        BY <3>1, <4>1 DEF ToSet
    <3> QED
      BY <3>1, <3>2 DEF ToSet
  <2>5. /\ {id} \in SUBSET TokenIds
        /\ \A i \in {id} : \A c \in ToSet(pending[i]) : c \in S \/ c \in orphans'
        /\ orphans \subseteq orphans' \cup S
    BY <2>2, <2>4
  <2>6. (starting' = "pending" => start' # "none" /\ UNCHANGED <<starting, start>>)
            /\ (start' = "waiting" => child' = "booting")
    BY <2>2 DEF WaitIInv, NobodyIsForgotten, ChainsAreWritten
  <2> HIDE DEF S, q
  <2> QED
    BY <2>2, <2>3, <2>4, <2>5, <2>6, LeavingKeepsWait
<1>3. CASE TokensExpire
  <2>1. UNCHANGED <<caller, child, starting, start, pending, input, orphans>>
    BY <1>3 DEF TokensExpire
  <2> QED
    BY <2>1, QuietKeepsWait DEF At, WaitIInv, NobodyIsForgotten, ChainsAreWritten
<1> QED
  BY <1>1, <1>2, <1>3

LEMMA EndsKeepWait ==
    ASSUME TokenTypes, WaitIInv, Exit \/ TokensLost
    PROVE  WaitIInv'
<1>1. CASE Exit
  <2> DEFINE S == {c \in Callers : \E i \in TokenIds : c \in ToSet(pending[i])}
                      \cup (IF start = "waiting" THEN At("starting") ELSE {})
  <2>1. S \in SUBSET Asked
    BY AskedAtPlaces
  <2>2. Asked \subseteq Callers
    BY DEF Asked
  <2>3. \A i \in TokenIds : \A c \in ToSet(pending[i]) : c \in S
    BY <2>2, AskedAtPlaces
  <2>4. Move(S, "failed") /\ UNCHANGED orphans
    BY <1>1 DEF Exit
  <2>5. \A i \in TokenIds : pending'[i] = IF i \in TokenIds THEN <<>> ELSE pending[i]
    BY <1>1 DEF Exit
  <2>6. At("starting") \subseteq S \/ UNCHANGED start
    BY <1>1 DEF Exit
  <2>7. (starting' = "pending" => start' # "none" /\ UNCHANGED <<starting, start>>)
            /\ (start' = "waiting" => child' = "booting")
    BY <1>1 DEF Exit, WaitIInv, NobodyIsForgotten, ChainsAreWritten
  <2> HIDE DEF S
  <2> QED
    BY <2>1, <2>3, <2>4, <2>5, <2>6, <2>7, LeavingKeepsWait
<1>2. CASE TokensLost
  <2>1. Move(Asked, "lost")
    BY <1>2 DEF TokensLost, Asked
  <2>2. \A c \in Callers : caller'[c].pc = IF c \in Asked THEN "lost" ELSE caller[c].pc
    BY <2>1, WhereTheyGo
  <2>3. \A c \in Callers : caller'[c].pc # "waiting" /\ caller'[c].pc # "starting"
    BY <2>2 DEF Asked
  <2>4. starting' = "none" /\ start' = "none" /\ \A i \in TokenIds : pending'[i] = <<>>
    BY <1>2 DEF TokensLost
  <2> QED
    BY <2>3, <2>4 DEF WaitIInv, NobodyIsForgotten, ChainsAreWritten, At
<1> QED
  BY <1>1, <1>2

LEMMA WaitStepKeeps == TokenTypes /\ WaitIInv /\ [Next]_vars => WaitIInv'
<1> SUFFICES ASSUME TokenTypes, WaitIInv, [Next]_vars
             PROVE  WaitIInv'
  OBVIOUS
<1>1. CASE UNCHANGED tokenVars
  BY <1>1, QuietKeepsWait DEF tokenVars, At, WaitIInv, NobodyIsForgotten, ChainsAreWritten
<1>2. CASE CatalogueNext \/ OfficeNext \/ StreamNext \/ UNCHANGED vars
  BY <1>2, <1>1 DEF CatalogueNext, OfficeNext, StreamNext, vars
<1>3. CASE TokenNext
  BY <1>3, GetTokenKeepsWait, StartKeepsWait, AnswersKeepWait, EndsKeepWait DEF TokenNext, TokenStep
<1> QED
  BY <1>2, <1>3 DEF Next

\* getToken, ensureStarted and request: in whatever order the worker starts, answers and
\* dies, whoever waits is in the care of a start or of a worker, but for those who were
\* chained to a request that timed out.
THEOREM WhoWaitsIsAnswered == Spec => []NobodyIsForgotten
<1>1. Init => TokenTypes
  BY TokensInitially DEF Init
<1>2. WaitIInv => NobodyIsForgotten
  BY DEF WaitIInv
<1> QED
  BY <1>1, <1>2, TokenStepIsTyped, WaitInitially, WaitStepKeeps, PTL DEF Spec
=============================================================================
