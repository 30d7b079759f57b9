------------------------------ MODULE Resolvers ------------------------------
(***************************************************************************)
(* What the providers may answer, and what discovery.service.ts, the three *)
(* resolvers and url-validate.util.ts make of it.  A URL is abstracted to  *)
(* what the code looks at: an HLS playlist or an MP4 file of the title, a  *)
(* playlist of sound only ("audio": index-a1.m3u8), and a host of adverts  *)
(* or test films ("fake").  The pages are external: each operator is the   *)
(* set of the results that some page produces.                             *)
(***************************************************************************)
EXTENDS FiniteSets, SourceRegistry

CONSTANTS
    FlareSolverr,   \* FLARESOLVERR_URL is set
    VidlinkOn       \* CATALOG_VIDLINK is not "off"

ASSUME ResolversAssumption == FlareSolverr \in BOOLEAN /\ VidlinkOn \in BOOLEAN

Urls == {"hls", "mp4", "audio", "fake"}

(***************************************************************************)
(* Discovery.                                                              *)
(***************************************************************************)
Failed == [ok |-> FALSE, found |-> {}]

Found(S) == [ok |-> TRUE, found |-> S]

Listed(provider) == {s \in Sources : ProviderOf[s] = provider}

\* discoverUnlimplay: a page without EMBEDS is asked for again through
\* FlareSolverr; with none, or with one that does not parse, it throws.  The
\* servers whose URL is not http are left out.
DiscoverUnlimplay(embeds, viaFlareSolverr) ==
    CASE embeds.page = "embeds"                     -> Found(embeds.servers)
      [] embeds.page = "challenge" /\ FlareSolverr
            /\ viaFlareSolverr.page = "embeds"      -> Found(viaFlareSolverr.servers)
      [] OTHER                                      -> Failed

EmbedPages(provider) ==
    [page : {"embeds", "challenge", "error"}, servers : SUBSET Listed(provider)]

\* discoverNsrplay: the servers that are eligible, none of them being an answer.
DiscoverNsrplay(servers) == Found(servers)

\* discoverVidlink: the source always exists, unless vidlink is off.
DiscoverVidlink(provider) == IF VidlinkOn THEN Found(Listed(provider)) ELSE Failed

\* discover: the results each provider may give, a failed request included.
Discoveries == [provider \in ToSet(Providers) |->
    CASE provider = "unlimplay" ->
            {DiscoverUnlimplay(a, b) : a, b \in EmbedPages(provider)}
      [] provider = "nsrplay" ->
            {DiscoverNsrplay(S) : S \in SUBSET Listed(provider)} \cup {Failed}
      [] OTHER -> {DiscoverVidlink(provider)}]

(***************************************************************************)
(* Resolution: the URLs of the leases, {} when the resolver throws or      *)
(* finds nothing (both are failures to resolveCandidates).                 *)
(***************************************************************************)
\* The MP4 qualities of vidlink, and their copies behind its own proxy (proxyUrl).
Qualities == {"360p", "1080p"}

ProxyUrl(quality) == "proxied " \o quality

KindOf(url) == IF url \in {"mp4"} \cup Qualities \cup {ProxyUrl(q) : q \in Qualities} THEN "mp4" ELSE "hls"

\* isBlockedHost, of the two resolvers that look at hosts.
IsBlockedHost(url) == url = "fake"

\* A page, by the URLs in its packed scripts and those in plain sight.
Pages == [packed : SUBSET Urls, plain : SUBSET Urls]

PlainPlaylists(page) == {u \in page.plain : KindOf(u) = "hls"}

\* extractFromPacked: the URLs of the packed scripts; with none, the first URL in
\* plain sight, of a playlist before one of a film.
ExtractFromPacked(page) ==
    LET first == IF PlainPlaylists(page) # {} THEN PlainPlaylists(page) ELSE page.plain
    IN  IF page.packed # {} \/ first = {} THEN {page.packed} ELSE {{u} : u \in first}

\* Tier 1 of unlimplay: the URLs that are on no blocked host, and of those the
\* ones with a picture if there are any.
Tier1(page) ==
    LET kept(packed) == {u \in packed \cup PlainPlaylists(page) : ~IsBlockedHost(u)}
        pictures(urls) == IF urls \ {"audio"} # {} THEN urls \ {"audio"} ELSE urls
    IN  {pictures(kept(packed)) : packed \in ExtractFromPacked(page)}

\* The extractors, by what each finds in a page.
StreamWish(page) == PlainPlaylists(page)

Filemoon(page) == PlainPlaylists(page)

Dood(page) == page.plain \cap {"mp4"}

GenericMedia(page) == page.plain

\* Tier 2: the extractor of the host.  Hosts are not filtered here.
Tier2(page) == {StreamWish(page), Filemoon(page), Dood(page), GenericMedia(page)}

\* Tier 3: the packed scripts and a playlist, of any host.
ViaFlareSolverr(page) ==
    LET direct == IF PlainPlaylists(page) = {} THEN {{}} ELSE {{u} : u \in PlainPlaylists(page)}
    IN  {packed \cup d : packed \in ExtractFromPacked(page), d \in direct}

\* resolve of unlimplay: a tier is asked when the one before it finds nothing.
UnlimplayLeases(first, second, third) ==
    CASE first # {}                  -> first
      [] first = {} /\ second # {}  -> second
      [] OTHER                       -> IF FlareSolverr THEN third ELSE {}

\* The vidlink resolver: a playlist, and the qualities, twice those that require
\* the proxy.
VidlinkLeases(playlist, qualities, locked) ==
    (IF playlist THEN {"hls"} ELSE {}) \cup qualities \cup {ProxyUrl(q) : q \in qualities \cap locked}

\* The nsrplay resolver throws unless the server is still listed, the address
\* is on no blocked host and its first segment is not an image.
NsrplayLeases(available, url, segment) ==
    IF available /\ ~IsBlockedHost(url) /\ segment = "video" THEN {"hls"} ELSE {}

Resolutions == [provider \in ToSet(Providers) |->
    CASE provider = "unlimplay" ->
            {UnlimplayLeases(a, b, c) : a \in UNION {Tier1(page) : page \in Pages},
                b \in UNION {Tier2(page) : page \in Pages},
                c \in UNION {ViaFlareSolverr(page) : page \in Pages}}
      [] provider = "nsrplay" ->
            {NsrplayLeases(a, u, g) : a \in BOOLEAN, u \in {"hls", "fake"}, g \in {"video", "image"}}
      [] OTHER -> {VidlinkLeases(p, q, r) : p \in BOOLEAN, q \in SUBSET Qualities, r \in SUBSET Qualities}]

\* A resolver of unlimplay swallows the status of the page: what it throws
\* names no status.  withTimeout adds a timeout to each.
FailuresOf(provider) == IF provider = "unlimplay" THEN {"timeout", "other"} ELSE FailureClasses

\* What the validation of a URL may say: a film or a playlist may be there or be
\* dead, and sound only is refused by its URL.
ValidateMp4(url) == BOOLEAN

ValidateHls(url) == IF url = "audio" THEN {FALSE} ELSE BOOLEAN

ValidateStreamUrl(url) == IF KindOf(url) = "mp4" THEN ValidateMp4(url) ELSE ValidateHls(url)

\* The URLs that are left: those that are valid, until the deadline cuts the loop.
Validated(urls) == SUBSET {u \in urls : TRUE \in ValidateStreamUrl(u)}

\* How many leases of a source pass the validation, when some do.
ValidLeases == [provider \in ToSet(Providers) |->
    {Cardinality(v) : v \in UNION {Validated(urls) : urls \in Resolutions[provider]}} \ {0}]
=============================================================================
