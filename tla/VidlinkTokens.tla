---------------------------- MODULE VidlinkTokens ----------------------------
(***************************************************************************)
(* The engine that makes vidlink tokens (vidlink-token.engine.ts) and its  *)
(* worker, a child process (assets/vidlink-worker.js) that reads ids from  *)
(* its input and writes a token for each.  A caller of getToken goes       *)
(* through the awaits of ensureStarted and request; what the worker        *)
(* writes, its end and the timers are callbacks.                           *)
(***************************************************************************)
EXTENDS Naturals, Sequences, FiniteSets, SequencesExt

CONSTANTS
    Callers,   \* calls of getToken, one-shot
    TokenIds   \* what tokens are asked for

VARIABLES
    caller,    \* where each call is, and its answer
    child,     \* the worker: "none", "booting" or "ready"
    starting,  \* the promise: "none", "pending" or "done"
    start,     \* the start under way: "none", "files" or "waiting" for READY
    pending,   \* the callers of each id, the first with the timer
    input,     \* the ids written to the worker and not answered, in their order
    tokens,    \* the ids with a token that has not expired
    \* history
    orphans    \* callers chained to a request that timed out

tokenVars == <<caller, child, starting, start, pending, input, tokens, orphans>>

TokensInit ==
    /\ caller = [c \in Callers |-> [pc |-> "idle", id |-> CHOOSE i \in TokenIds : TRUE]]
    /\ child = "none" /\ starting = "none" /\ start = "none"
    /\ pending = [i \in TokenIds |-> <<>>]
    /\ input = <<>> /\ tokens = {}
    /\ orphans = {}

At(pc) == {c \in Callers : caller[c].pc = pc}

\* The callers of S go on to pc, or have pc for an answer.
Move(S, pc) ==
    caller' = [c \in Callers |-> IF c \in S THEN [caller[c] EXCEPT !.pc = pc] ELSE caller[c]]

\* request, of the callers of S, in any order (no event comes between a start that
\* succeeds and the requests of those who waited for it).  An id that is asked for
\* already is not written again: the caller is chained to the one before.
Request(S) ==
    LET asking(id) == {c \in S : caller'[c].id = id}
        fresh      == {id \in TokenIds : asking(id) # {} /\ pending[id] = <<>>}
    IN  /\ \E chain \in [TokenIds -> UNION {SetToSeqs(asking(id)) : id \in TokenIds}] :
            /\ \A id \in TokenIds : chain[id] \in SetToSeqs(asking(id))
            /\ pending' = [id \in TokenIds |-> pending[id] \o chain[id]]
        /\ \E ids \in SetToSeqs(fresh) : input' = input \o ids

\* getToken and ensureStarted: a token that is kept is the answer; with a worker
\* the request follows; without one the caller waits for the start, which it
\* begins unless one was begun before.  With no worker after a start that
\* succeeded, the request is refused.
GetToken(c, id) ==
    /\ caller[c].pc = "idle"
    /\ caller' = [caller EXCEPT ![c] = [id |-> id, pc |->
            CASE id \in tokens                       -> "token"
              [] id \notin tokens /\ child # "none"  -> "waiting"
              [] OTHER -> IF starting = "done" THEN "not running" ELSE "starting"]]
    /\ IF id \notin tokens /\ child # "none" THEN Request({c}) ELSE UNCHANGED <<pending, input>>
    /\ IF id \notin tokens /\ child = "none" /\ starting = "none"
       THEN starting' = "pending" /\ start' = "files"
       ELSE UNCHANGED <<starting, start>>
    /\ UNCHANGED <<child, tokens, orphans>>

(***************************************************************************)
(* start.                                                                  *)
(***************************************************************************)
\* The start fails: those who wait for it fail, and the next call begins another.
StartFails ==
    /\ starting' = "none" /\ start' = "none" /\ Move(At("starting"), "failed")

\* The script and the binary are there, or are downloaded; then the worker is
\* spawned.
Files ==
    /\ start = "files"
    /\ \/ /\ child' = "booting" /\ start' = "waiting"
          /\ UNCHANGED <<caller, starting>>
       \/ StartFails /\ UNCHANGED child
    /\ UNCHANGED <<pending, input, tokens, orphans>>

\* The worker says READY, to a start that may have given up.
Ready ==
    /\ child = "booting"
    /\ child' = "ready"
    /\ IF start = "waiting"
       THEN /\ starting' = "done" /\ start' = "none" /\ Move(At("starting"), "waiting")
            /\ Request(At("starting"))
       ELSE UNCHANGED <<starting, start, caller, pending, input>>
    /\ UNCHANGED <<tokens, orphans>>

\* Thirty seconds without READY: the start fails and the worker is left running.
StartTimeout ==
    /\ start = "waiting"
    /\ StartFails
    /\ UNCHANGED <<child, pending, input, tokens, orphans>>

\* Faulty variant of Exit: the requests under way are forgotten, and not rejected.
ExitForgets ==
    /\ child # "none"
    /\ child' = "none" /\ input' = <<>>
    /\ pending' = [i \in TokenIds |-> <<>>]
    /\ IF start = "waiting" THEN StartFails ELSE UNCHANGED <<starting, start, caller>>
    /\ UNCHANGED <<tokens, orphans>>

\* The worker ends: every request under way fails, and so does a start that
\* waits for it.
Exit ==
    /\ child # "none"
    /\ child' = "none" /\ input' = <<>>
    /\ pending' = [i \in TokenIds |-> <<>>]
    /\ Move({c \in Callers : \E i \in TokenIds : c \in ToSet(pending[i])}
                \cup (IF start = "waiting" THEN At("starting") ELSE {}), "failed")
    /\ IF start = "waiting" THEN starting' = "none" /\ start' = "none"
       ELSE UNCHANGED <<starting, start>>
    /\ UNCHANGED <<tokens, orphans>>

(***************************************************************************)
(* handleOutput and the timer of a request.                                *)
(***************************************************************************)
\* The worker reads a line after the other, and writes a token or an error for each.
WorkerOutput ==
    IF child = "ready" /\ input # <<>>
    THEN {[status |-> st, id |-> Head(input)] : st \in {"OK", "ERR"}} ELSE {}

\* A line of the worker is handled: a token is kept and given to every caller of the
\* chain; an error rejects them.  Nobody may be waiting any more.
Answer(line) ==
    LET id == line.id
    IN  /\ input' = Tail(input)
        /\ pending' = [pending EXCEPT ![id] = <<>>]
        /\ tokens' = IF line.status = "OK" /\ pending[id] # <<>> THEN tokens \cup {id} ELSE tokens
        /\ Move(ToSet(pending[id]), IF line.status = "OK" THEN "token" ELSE "failed")
        /\ UNCHANGED <<child, starting, start, orphans>>

\* Twenty seconds without an answer: the timer of the first caller rejects that
\* one and forgets the chain.
TokenTimeout(id) ==
    /\ pending[id] # <<>>
    /\ Move({Head(pending[id])}, "failed")
    /\ orphans' = orphans \cup ToSet(Tail(pending[id]))
    /\ pending' = [pending EXCEPT ![id] = <<>>]
    /\ UNCHANGED <<child, starting, start, input, tokens>>

\* Thirty minutes: the tokens expire.
TokensExpire ==
    /\ tokens # {}
    /\ tokens' = {}
    /\ UNCHANGED <<caller, child, starting, start, pending, input, orphans>>

\* The process of the server ends, its worker and its calls with it.
TokensLost ==
    /\ Move({c \in Callers : caller[c].pc # "idle"}, "lost")
    /\ child' = "none" /\ starting' = "none" /\ start' = "none"
    /\ pending' = [i \in TokenIds |-> <<>>]
    /\ input' = <<>> /\ tokens' = {} /\ orphans' = {}

TokenStep ==
    \/ Files \/ Ready \/ StartTimeout
    \/ \E line \in WorkerOutput : Answer(line)
    \/ \E id \in TokenIds : TokenTimeout(id)
=============================================================================
