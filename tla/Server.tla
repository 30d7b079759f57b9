-------------------------------- MODULE Server --------------------------------
(***************************************************************************)
(* What one process runs beside the modules of the accounts: the requests  *)
(* of the catalogue with the hidden titles they are filtered by, the       *)
(* engine of vidlink tokens, the tasks of the administration, and the      *)
(* stream proxy.  The tables and the index outlive the process, and the    *)
(* rest does not.                                                          *)
(*                                                                         *)
(* These parts share no variable and none waits for another, so their      *)
(* steps are not interleaved: a behaviour is one of one part.              *)
(***************************************************************************)
EXTENDS CatalogRequests, VidlinkTokens, BackOffice, StreamProxy

CONSTANT MaxOperations   \* bound: what comes from outside, by part

Parts == {"catalogue", "tokens", "office", "stream"}

ASSUME ServerAssumption == MaxOperations \in [Parts -> Nat]

VARIABLES part, operations

catalogueVars == <<unavailableVars, requestVars>>

vars == <<catalogueVars, tokenVars, officeVars, player, part, operations>>

Init ==
    /\ UnavailableInit /\ RequestsInit /\ TokensInit /\ OfficeInit /\ StreamInit
    /\ part \in Parts /\ operations = 0

Begin == operations < MaxOperations[part] /\ operations' = operations + 1

(***************************************************************************)
(* The catalogue.                                                          *)
(***************************************************************************)
Ask ==
    /\ Begin
    /\ \E r \in Requests, kind \in Kinds, bearer, code \in BOOLEAN :
        /\ code => kind = "search"
        /\ \A q \in Requests : request[q].pc = "none" => r <= q
        /\ Arrive(r, kind, bearer, code)
    /\ UNCHANGED unavailableVars

Toggle == Begin /\ ToggleAdult /\ UNCHANGED unavailableVars

\* Checks are alike: the first that is free is taken.
FreeCheck(c) == \A d \in Checks : check[d].pc = "none" => c <= d

Curate ==
    /\ Begin
    /\ \/ \E id \in Ids, type \in ContentTypes :
            \/ RegisterUnavailable(id, type)
            \/ RemoveUnavailable(id, type)
            \/ \E c \in Checks : FreeCheck(c) /\ StartCheck(c, id, type)
       \/ \E c \in Checks : FreeCheck(c) /\ StartRecheck(c)
    /\ UNCHANGED requestVars

CatalogueTick == Begin /\ UnavailableTick /\ RequestsTick

CatalogueRestart == Begin /\ UnavailableLost /\ RequestsLost

CatalogueStep ==
    /\ \/ UnavailableStep /\ UNCHANGED requestVars
       \/ RequestStep /\ UNCHANGED unavailableVars
    /\ UNCHANGED operations

CatalogueNext ==
    /\ part = "catalogue"
    /\ Ask \/ Toggle \/ Curate \/ CatalogueTick \/ CatalogueRestart \/ CatalogueStep
    /\ UNCHANGED <<tokenVars, officeVars, player, part>>

(***************************************************************************)
(* The engine of tokens.                                                   *)
(***************************************************************************)
TokenNext ==
    /\ part = "tokens"
    /\ \/ /\ Begin
          /\ \/ \E c \in Callers, id \in TokenIds :
                    (\A d \in At("idle") : c <= d) /\ GetToken(c, id)
             \/ Exit
             \/ TokensExpire
             \/ TokensLost
       \/ TokenStep /\ UNCHANGED operations
    /\ UNCHANGED <<catalogueVars, officeVars, player, part>>

(***************************************************************************)
(* The administration.                                                     *)
(***************************************************************************)
OfficeNext ==
    /\ part = "office"
    /\ \/ /\ Begin
          /\ \/ \E c \in Clerks :
                    \/ \E d \in Clerks, new \in {"none", "ADMIN"} : SetRole(c, d, new)
                    \/ CreateTerms(c)
                    \/ \E id \in 1..(Len(terms) + 1) : Unpublish(c, id)
                    \/ \E reseller \in BOOLEAN : GenerateCodes(c, reseller)
                    \/ \E code \in {<<>>} \cup MatchingCodes(batches, "AVAILABLE") : Pay(c, code)
                    \/ \E i \in DOMAIN payments, status \in {"PAID", "REFUNDED"} :
                            PaymentStatus(c, i, status)
             \/ \E list \in {"payments", "batches", "codes"} :
                    StartWalk(list, "ALL")
             \/ StartWalk("payments", "PAID") \/ StartWalk("codes", "AVAILABLE")
             \/ OfficeTick
             \/ OfficeLost
       \/ OfficeStep /\ UNCHANGED operations
    /\ UNCHANGED <<catalogueVars, tokenVars, player, part>>

(***************************************************************************)
(* The stream proxy.                                                       *)
(***************************************************************************)
StreamNext ==
    /\ part = "stream"
    /\ \/ Begin /\ \E host \in Hosts : Play(host)
       \/ StreamStep /\ UNCHANGED operations
    /\ UNCHANGED <<catalogueVars, tokenVars, officeVars, part>>

Next == CatalogueNext \/ TokenNext \/ OfficeNext \/ StreamNext

\* The worker or a timer answers, and the process goes on while there is something
\* to do.
Spec == Init /\ [][Next]_vars /\ WF_vars(part = "tokens" /\ TokenStep /\
            UNCHANGED <<catalogueVars, officeVars, player, part, operations>>)

-----------------------------------------------------------------------------
\* The types, with the rows the table of hidden titles can have (normalizeContentType).
TypeOK ==
    /\ unavailable \in [Keys -> [listed : BOOLEAN, due : BOOLEAN]]
    /\ \A id \in Ids : ~unavailable[<<id, "anime">>].listed
    /\ unawaited \subseteq Keys
    /\ \A r \in Requests : request[r].shows \subseteq Ids
    /\ sync \in [left : 0..SyncPages, recent : BOOLEAN]
    /\ child \in {"none", "booting", "ready"} /\ starting \in {"none", "pending", "done"}
    /\ start \in {"none", "files", "waiting"} /\ (start # "none" => starting = "pending")
    /\ pending \in [TokenIds -> Seq(Callers)] /\ input \in Seq(TokenIds) /\ tokens \subseteq TokenIds
    /\ today \in 1..Days /\ hurried \subseteq DOMAIN terms /\ midnights \subseteq DOMAIN payments
    /\ player.depth \in 0..(MaxDepth + 1)

\* register, remove and applyResult, awaited or not: once every operation on a
\* title is over, the table says what the last of them said, if it ran alone.
TableKeepsTheVerdict ==
    \A id \in Ids, type \in {"movie", "series"} :
        LET k == <<id, type>>
        IN  ~Busy(k) => /\ verdict[k] = "listed" => unavailable[k].listed
                        /\ verdict[k] = "free" => ~unavailable[k].listed

\* AdultFilterMiddleware, checkUnlock and get: a list from TMDB has adult titles
\* exactly if its request may have them, unless another request wrote the mode
\* while this one was under way.
AdultFollowsTheRequest ==
    \A r \in Requests :
        request[r].pc \in {"filter", "listed"} /\ ~request[r].overtaken =>
            request[r].adult = request[r].entitled

\* getToken: every caller is answered, but for those that were chained to a
\* request that timed out.
CallersAreAnswered ==
    LET unanswered == (At("starting") \cup At("waiting")) \ orphans
    IN  unanswered # {} ~> unanswered = {}

\* ensureStarted, request and the callbacks: nobody who waits is forgotten, but for those
\* that were chained to a request that timed out.  A start is under way for those who
\* wait for it; a request is in the chain of its id, which a living worker has to answer.
NobodyIsForgotten ==
    /\ At("starting") # {} => start # "none"
    /\ start = "waiting" => child = "booting"
    /\ \A c \in At("waiting") \ orphans :
           LET id == caller[c].id
           IN  child # "none" /\ c \in ToSet(pending[id]) /\ id \in ToSet(input)

\* createTerms and publishTerms, each of two statements: exactly one version is
\* in force whenever the last publication was alone and complete, and two have one
\* number only if the later read it before the other was written.
TermsAreInOrder ==
    /\ settled /\ Doing("publish") = {} =>
           LatestTerms = {i \in DOMAIN terms : terms[i].published} /\ Cardinality(LatestTerms) = 1
    /\ \A i, j \in DOMAIN terms : i < j /\ terms[i].version = terms[j].version => j \in hurried

Total(f) == FoldFunction(+, 0, f)

\* revenue, metrics and the reports on codes: the days of a report add up to its total,
\* but for payments that were recorded over a midnight, whatever becomes of their status
\* later; and the payments by code are as many as the codes redeemed.
ReportsAddUp ==
    LET missing(report) == report.income - Total(report.daily)
        byCode == {i \in DOMAIN payments : payments[i].provider = "ACTIVATION_CODE"}
    IN  /\ \A from, to \in 1..today : from <= to =>
                missing(Revenue(from, to)) \in 0..Cardinality(midnights)
        /\ missing(Metrics) \in 0..Cardinality(midnights)
        /\ Cardinality(byCode) = Total([b \in DOMAIN batches |-> BatchDetail(b).redeemed])
        /\ ResellersSummary.redeemed = Total([b \in DOMAIN batches |->
                IF batches[b].reseller THEN BatchRow(b).redeemed ELSE 0])

\* paymentsList, activationCodeBatches, activationCodesList: one who reads all the pages
\* of a list sees every row that was in it at the beginning, unless a row has left the
\* list meanwhile, or some of the rows have one createdAt.
PagesSkipOnlyAfterALeave ==
    LET ties == \E x, y \in walk.due : x # y /\ Instant(walk.list, x) = Instant(walk.list, y)
    IN  walk.pc = "done" /\ ~walk.left /\ ~ties => walk.due \subseteq walk.seen

\* tunnelIfLocked, playlist and proxy: the host of a stream that is locked to the server
\* is never asked by the player, at any level of its playlists; and only such a stream
\* goes through the proxy beyond its first playlist.
TunnelIsKept ==
    /\ player.host = "locked" /\ PublicBaseUrl => ~player.direct
    /\ player.host # "locked" => player.to # "proxy"
=============================================================================
