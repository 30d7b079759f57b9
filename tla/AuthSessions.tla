--------------------------- MODULE AuthSessions ----------------------------
(***************************************************************************)
(* The authentication session: a login creates it, every refresh rotates   *)
(* its token, and a logout, a reused token, a change of password or the    *)
(* removal of the member ends it.                                          *)
(*                                                                         *)
(* A refresh reads the row, compares the hash of the presented token, and  *)
(* writes the hash of the new token some awaits later without comparing    *)
(* again.  A login checks the password in one step and creates the session *)
(* in another.  Replies may be lost: the client then has only the older    *)
(* token and presents it again.  Column status of User is not modelled: no *)
(* code writes it.                                                         *)
(***************************************************************************)
EXTENDS Naturals, FiniteSets

CONSTANTS
    Users,
    Calls,      \* calls of the use cases; a session is named after the login that
                \* created it, a refresh token after the call that issued it
    None,
    Pending     \* refreshTokenHash: 'pending'

ASSUME AuthAssumption == None \notin Users \cup Calls /\ Pending \notin Calls \cup {None}

VARIABLES
    status,     \* of the session each login created: NONE, LIVE, REVOKED (revokedAt is set)
    hash,       \* column refreshTokenHash: the token it is the hash of
    expired,    \* sessions whose expiresAt has passed
    call,       \* what each call has read, and where it is
    held,       \* refresh tokens some client has received
    rotatedBy,  \* history: rotations of the session a refresh relies on, since it read it
    outdated,   \* history: logins whose password was changed after they checked it
    overtaken,  \* history: logins in flight when the sessions of the person were ended, and
                \* sessions that were spared then
    lost        \* history: tokens whose reply was lost

tables == <<status, hash, expired>>
historyVars == <<rotatedBy, outdated, overtaken, lost>>
vars == <<status, hash, expired, call, held, rotatedBy, outdated, overtaken, lost>>

Steps == {"idle", "create", "store", "reuse", "rotate", "reply", "end", "done", "failed"}

Call == [pc : Steps,
         userId : Users \cup {None},
         session : Calls \cup {None},   \* session.id, or the administrator's own
         token : Calls \cup {None}]     \* the refresh token that was presented

CallOf(pc, u, s, t) == [pc |-> pc, userId |-> u, session |-> s, token |-> t]
NoCall(pc) == CallOf(pc, None, None, None)

-----------------------------------------------------------------------------
In(c, pc) == call[c].pc = pc
Goto(c, pc) == call' = [call EXCEPT ![c] = [@ EXCEPT !.pc = pc]]
Fail(c) == call' = [call EXCEPT ![c] = [@ EXCEPT !.pc = "failed"]]

UserOf(s) == call[s].userId
Live(s) == status[s] = "LIVE"
Usable(s) == Live(s) /\ s \notin expired

\* payload.sessionId of a refresh token.
SessionOf(t) == call[t].session

LiveSessionsOf(u) == {s \in Calls : Live(s) /\ UserOf(s) = u}

\* A change of the password of u has still to end the sessions.
Ending(u) == \E c \in Calls : In(c, "end") /\ UserOf(c) = u

\* Calls that have passed the password check and have not created their session yet.
LoggingIn(u) == {c \in Calls : In(c, "create") /\ UserOf(c) = u}

-----------------------------------------------------------------------------
\* LoginUserUseCase.execute, then CreateAuthSessionUseCase.execute.

\* user.findUnique and argon2.verify against the hash that was read.
CheckPassword(c, u) ==
    /\ In(c, "idle")
    /\ \/ call' = [call EXCEPT ![c] = CallOf("create", u, None, None)]
       \/ Fail(c)
    /\ UNCHANGED <<tables, held, historyVars>>

\* Faulty variant of CreateSession: refreshTokenHash, which is not nullable, is null.
CreateWithoutHash(c) ==
    /\ In(c, "create")
    /\ status' = [status EXCEPT ![c] = "LIVE"]
    /\ hash' = [hash EXCEPT ![c] = None]
    /\ call' = [call EXCEPT ![c] = [@ EXCEPT !.pc = "store", !.session = c]]
    /\ UNCHANGED <<expired, held, historyVars>>

\* Faulty variant of CreateSession: the reply is sent before the hash is stored.
CreateAndReply(c) ==
    /\ In(c, "create")
    /\ status' = [status EXCEPT ![c] = "LIVE"]
    /\ hash' = [hash EXCEPT ![c] = Pending]
    /\ call' = [call EXCEPT ![c] = [@ EXCEPT !.pc = "reply", !.session = c]]
    /\ UNCHANGED <<expired, held, historyVars>>

\* session.create with refreshTokenHash: 'pending'.
CreateSession(c) ==
    /\ In(c, "create")
    /\ status' = [status EXCEPT ![c] = "LIVE"]
    /\ hash' = [hash EXCEPT ![c] = Pending]
    /\ call' = [call EXCEPT ![c] = [@ EXCEPT !.pc = "store", !.session = c]]
    /\ UNCHANGED <<expired, held, historyVars>>

\* tokens.issue, then session.update of the hash.
StoreHash(c) ==
    /\ In(c, "store")
    /\ hash' = [hash EXCEPT ![c] = c]
    /\ Goto(c, "reply")
    /\ UNCHANGED <<status, expired, held, historyVars>>

\* The reply with the token c reaches the client, or is lost.
Reply(c) ==
    /\ In(c, "reply")
    /\ \/ held' = held \cup {c} /\ lost' = lost
       \/ held' = held /\ lost' = lost \cup {c}
    /\ Goto(c, "done")
    /\ UNCHANGED <<tables, rotatedBy, outdated, overtaken>>

-----------------------------------------------------------------------------
\* RefreshSessionUseCase.execute.

\* Faulty variant of FindSession: the hash is not compared.
FindSessionOnly(c, t) ==
    /\ In(c, "idle")
    /\ t \in held
    /\ LET s == SessionOf(t)
       IN  \/ Usable(s) /\ call' = [call EXCEPT ![c] = CallOf("rotate", UserOf(s), s, t)]
           \/ ~Usable(s) /\ Fail(c)
    /\ UNCHANGED <<tables, held, historyVars>>

\* verifyRefresh, session.findUnique and the comparison of the hash in the row read.
FindSession(c, t) ==
    /\ In(c, "idle")
    /\ t \in held
    /\ LET s == SessionOf(t)
       IN  \/ /\ Usable(s)
              /\ call' = [call EXCEPT ![c] =
                    CallOf(IF hash[s] = t THEN "rotate" ELSE "reuse", UserOf(s), s, t)]
           \/ ~Usable(s) /\ Fail(c)     \* SESSION_EXPIRED
    /\ UNCHANGED <<tables, held, historyVars>>

\* session.updateMany of revokedAt, then REFRESH_TOKEN_REUSED.
RevokeReused(c) ==
    /\ In(c, "reuse")
    /\ status' = [status EXCEPT ![call[c].session] = "REVOKED"]
    /\ Fail(c)
    /\ UNCHANGED <<hash, expired, held, historyVars>>

\* tokens.issue, then session.update where id: neither revokedAt nor the hash is
\* looked at again.
Rotate(c) ==
    /\ In(c, "rotate")
    /\ hash' = [hash EXCEPT ![call[c].session] = c]
    /\ rotatedBy' = [q \in Calls |->
          IF q # c /\ In(q, "rotate") /\ call[q].session = call[c].session
          THEN rotatedBy[q] \cup {c} ELSE rotatedBy[q]]
    /\ Goto(c, "reply")
    /\ UNCHANGED <<status, expired, held, outdated, overtaken, lost>>

-----------------------------------------------------------------------------
\* The other writers of the table.

\* LogoutUseCase.execute: session.updateMany where id.
Logout(s) ==
    /\ status[s] # "NONE"
    /\ status' = [status EXCEPT ![s] = "REVOKED"]
    /\ UNCHANGED <<hash, expired, call, held, historyVars>>

\* REFRESH_TOKEN_TTL_SECONDS pass since the session was created.
Expire(s) ==
    /\ Live(s)
    /\ s \notin expired
    /\ expired' = expired \cup {s}
    /\ UNCHANGED <<status, hash, call, held, historyVars>>

\* AdminController.changePassword: user.update.  An administrator who changes the own
\* password keeps the session the request was made with.
ChangePassword(c, u, own) ==
    /\ In(c, "idle")
    /\ own = None \/ (own \in Calls /\ own \in LiveSessionsOf(u))
    /\ call' = [call EXCEPT ![c] = CallOf("end", u, own, None)]
    /\ outdated' = outdated \cup {s \in Calls : status[s] # "NONE" /\ UserOf(s) = u}
                            \cup LoggingIn(u)
    /\ UNCHANGED <<tables, held, rotatedBy, overtaken, lost>>

\* Faulty variant of EndSessions: sessions whose first token is not stored are left out.
EndStoredSessions(c) ==
    /\ In(c, "end")
    /\ status' = [s \in Calls |->
          IF s \in LiveSessionsOf(UserOf(c)) /\ s # call[c].session /\ hash[s] # Pending
          THEN "REVOKED" ELSE status[s]]
    /\ overtaken' = overtaken \cup LoggingIn(UserOf(c)) \cup ({call[c].session} \cap Calls)
    /\ Goto(c, "done")
    /\ UNCHANGED <<hash, expired, held, rotatedBy, outdated, lost>>

\* session.updateMany({ userId, revokedAt: null, id: { not: own } }).
EndSessions(c) ==
    /\ In(c, "end")
    /\ status' = [s \in Calls |->
          IF s \in LiveSessionsOf(UserOf(c)) /\ s # call[c].session THEN "REVOKED" ELSE status[s]]
    /\ overtaken' = overtaken \cup LoggingIn(UserOf(c)) \cup ({call[c].session} \cap Calls)
    /\ Goto(c, "done")
    /\ UNCHANGED <<hash, expired, held, rotatedBy, outdated, lost>>

\* RemoveMemberUseCase: session.updateMany({ userId, revokedAt: null }).
RemoveMember(u) ==
    /\ LiveSessionsOf(u) # {}
    /\ status' = [s \in Calls |-> IF s \in LiveSessionsOf(u) THEN "REVOKED" ELSE status[s]]
    /\ UNCHANGED <<hash, expired, call, held, historyVars>>

\* The process stops and starts again: the calls in flight are gone, and with them the
\* replies that were not sent and the second statement of changePassword.
Crash ==
    /\ call' = [c \in Calls |-> IF call[c].pc \in {"idle", "done", "failed"} THEN call[c]
                                ELSE [call[c] EXCEPT !.pc = "failed"]]
    /\ lost' = lost \cup {c \in Calls : call[c].pc \in {"store", "reply"}}
    /\ overtaken' = overtaken \cup {s \in Calls : Live(s) /\ Ending(UserOf(s))}
    /\ UNCHANGED <<tables, held, rotatedBy, outdated>>

Init ==
    /\ status = [s \in Calls |-> "NONE"]
    /\ hash = [s \in Calls |-> Pending]
    /\ expired = {}
    /\ call = [c \in Calls |-> NoCall("idle")]
    /\ held = {}
    /\ rotatedBy = [c \in Calls |-> {}]
    /\ outdated = {}
    /\ overtaken = {}
    /\ lost = {}

CallStep(c) ==
    \/ CreateSession(c)
    \/ StoreHash(c)
    \/ Reply(c)
    \/ RevokeReused(c)
    \/ Rotate(c)
    \/ EndSessions(c)

Next ==
    \/ \E c \in Calls :
          \/ \E u \in Users : CheckPassword(c, u)
          \/ \E t \in Calls : FindSession(c, t)
          \/ \E u \in Users, own \in Calls \cup {None} : ChangePassword(c, u, own)
          \/ CallStep(c)
          \/ Logout(c)
          \/ Expire(c)
    \/ \E u \in Users : RemoveMember(u)
    \/ Crash

Spec == Init /\ [][Next]_vars

-----------------------------------------------------------------------------
(***************************************************************************)
(* Properties.                                                             *)
(***************************************************************************)

TypeOK ==
    /\ status \in [Calls -> {"NONE", "LIVE", "REVOKED"}]
    /\ hash \in [Calls -> Calls \cup {Pending}]
    /\ expired \subseteq Calls
    /\ call \in [Calls -> Call]
    /\ held \subseteq Calls
    /\ rotatedBy \in [Calls -> SUBSET Calls]
    /\ outdated \subseteq Calls
    /\ overtaken \subseteq Calls
    /\ lost \subseteq Calls

\* The refreshes that have rotated a token.
Rotated(c) == call[c].token # None /\ call[c].pc \in {"reply", "done"}

\* "Refresh tokens rotan": one token is rotated by two calls only when each had read the
\* session before the other wrote it; a token that was rotated away is never accepted
\* by a call that starts later.
OnlyOverlapRotatesTwice ==
    \A c, d \in Calls :
        c # d /\ Rotated(c) /\ Rotated(d) /\ call[c].token = call[d].token
            => c \in rotatedBy[d] \/ d \in rotatedBy[c]

\* The token a live session accepts is in the hands of a client or on the way to one,
\* unless the reply was lost: however refreshes interleave, the server never makes a
\* token current that it does not send.
CurrentTokenIsSent ==
    \A s \in Calls :
        Live(s) => \/ hash[s] \in held \cup lost
                   \/ hash[s] = Pending /\ (In(s, "store") \/ s \in lost)
                   \/ hash[s] # Pending /\ In(hash[s], "reply")

\* A change of password ends every session opened with the old one, except the
\* administrator's own, those of logins in flight at the moment of the second
\* statement, and all of them when the process stops between the two statements.
OutdatedSessionEnds ==
    \A s \in Calls : Live(s) /\ s \in outdated => Ending(UserOf(s)) \/ s \in overtaken

-----------------------------------------------------------------------------
(***************************************************************************)
(* What the documentation says and the code does not do.                   *)
(***************************************************************************)

\* "reusar un refresh anterior revoca la sesion": a token is never rotated twice.
TokenRotatesOnce ==
    \A c, d \in Calls : c # d /\ Rotated(c) /\ Rotated(d) => call[c].token # call[d].token

=============================================================================
