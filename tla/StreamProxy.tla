------------------------------ MODULE StreamProxy ------------------------------
(***************************************************************************)
(* A player and the stream proxy (stream-proxy.controller.ts).  A host     *)
(* that locks its tokens to one address (tunnel.util.ts) must be asked by  *)
(* the server only: the lease then holds the URL of the playlist behind    *)
(* the proxy, and the proxy rewrites the URLs of what it fetches, level by *)
(* level, down to the segments.                                            *)
(*                                                                         *)
(* A line of a playlist is abstracted to where its URL stands (a line of   *)
(* its own, the URI of a STREAM-INF, I-FRAME or MAP tag, the URI of        *)
(* another tag such as KEY or MEDIA) and to where it points.               *)
(***************************************************************************)
EXTENDS Naturals

CONSTANTS
    PublicBaseUrl,   \* PUBLIC_BASE_URL is set
    MaxDepth         \* bound: playlists within playlists

ASSUME StreamProxyAssumption == PublicBaseUrl \in BOOLEAN /\ MaxDepth \in Nat

VARIABLE player

NoPlayer == [pc |-> "idle", host |-> "open", to |-> "nowhere", depth |-> 0,
             lines |-> {}, direct |-> FALSE]

StreamInit == player = NoPlayer

Hosts == {"open", "locked", "nsrplay"}

Places == {"line", "stream tag", "other tag"}

Lines == [place : Places, to : {"relative", "cdn"}]

(***************************************************************************)
(* Rewriting.                                                              *)
(***************************************************************************)
\* resolveRelativeUrls: the URLs of the lines and of the stream tags become absolute.
ResolveRelativeUrl(line) ==
    IF line.place \in {"line", "stream tag"} THEN [line EXCEPT !.to = "cdn"] ELSE line

\* Faulty variant of TunnelizeUrl: the URIs of the tags are left.
TunnelizeLinesOnly(line) ==
    IF PublicBaseUrl /\ line.to = "cdn" /\ line.place = "line" THEN [line EXCEPT !.to = "proxy"] ELSE line

\* tunnelizeUrls: an absolute URL is wrapped, in a line or in any tag.
TunnelizeUrl(line) ==
    IF PublicBaseUrl /\ line.to = "cdn" THEN [line EXCEPT !.to = "proxy"] ELSE line

Rewritten(content, tunnel) ==
    {IF tunnel THEN TunnelizeUrl(ResolveRelativeUrl(l)) ELSE ResolveRelativeUrl(l) : l \in content}

(***************************************************************************)
(* The player.                                                             *)
(***************************************************************************)
\* tunnelIfLocked and wrapPlaylistOrThrow: what a lease points to.
TunnelIfLocked(host) == IF host = "locked" /\ PublicBaseUrl THEN "playlist" ELSE "cdn"

WrapPlaylist(host) == IF PublicBaseUrl THEN "playlist" ELSE "cdn"

\* A lease of nsrplay always goes through the proxy, without the tunnel.
Play(host) ==
    /\ player.pc \in {"idle", "over"}
    /\ player' = [NoPlayer EXCEPT !.pc = "asks", !.host = host,
                    !.to = IF host = "nsrplay" THEN WrapPlaylist(host) ELSE TunnelIfLocked(host)]

\* Something goes wrong: the upstream refuses or is no playlist.
Over == [player EXCEPT !.pc = "over", !.lines = {}]

Serve(content, tunnel) ==
    player' = [player EXCEPT !.pc = "has lines", !.lines = Rewritten(content, tunnel)]

\* playlist: what the upstream answers must be an HLS playlist.
Playlist ==
    /\ player.pc = "asks" /\ player.to = "playlist"
    /\ \/ \E content \in SUBSET Lines : Serve(content, player.host = "locked")
       \/ player' = Over

\* proxy, with tunnel=1: a playlist within, or the bytes of a segment or a film.
Proxy ==
    /\ player.pc = "asks" /\ player.to = "proxy"
    /\ \/ player.depth < MaxDepth /\ \E content \in SUBSET Lines : Serve(content, TRUE)
       \/ player' = Over

\* The player asks the host of the stream itself, and whatever follows is its own.
AskDirectly ==
    /\ player.pc = "asks" /\ player.to = "cdn"
    /\ player' = [Over EXCEPT !.direct = TRUE]

\* What stayed relative is asked of the server, which has nothing there.
AskNothing ==
    /\ player.pc = "asks" /\ player.to = "relative"
    /\ player' = Over

Follow ==
    /\ player.pc = "has lines"
    /\ \/ \E l \in player.lines :
            player' = [player EXCEPT !.pc = "asks", !.to = l.to, !.depth = @ + 1, !.lines = {}]
       \/ player.lines = {} /\ player' = Over

StreamStep == Playlist \/ Proxy \/ AskDirectly \/ AskNothing \/ Follow
=============================================================================
