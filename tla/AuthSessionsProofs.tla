-------------------------- MODULE AuthSessionsProofs --------------------------
(***************************************************************************)
(* Proofs about AuthSessions, for any persons and any calls.               *)
(***************************************************************************)
EXTENDS AuthSessions, TLAPS

-----------------------------------------------------------------------------
\* What a call has read, by the step it is at; and whose answer a client can hold.
CallsAreKnown ==
    \A c \in Calls :
        /\ call[c].pc \in {"idle", "create"} => status[c] = "NONE" /\ call[c].token = None
        /\ call[c].pc \in {"store", "end"} => call[c].token = None
        /\ call[c].pc = "store" => call[c].session = c
        /\ call[c].pc \in {"rotate", "reuse"} => /\ call[c].token # None /\ call[c].session \in Calls
                                               /\ status[call[c].session] # "NONE"
        /\ call[c].pc = "reply" => call[c].session \in Calls
        /\ call[c].token # None => call[c].token \in held /\ call[c].session = SessionOf(call[c].token)
        /\ c \in held => call[c].pc = "done" /\ call[c].session \in Calls
        /\ c \in outdated => call[c].pc # "idle"

\* A token that was rotated is not accepted again,
RotatedIsReplaced ==
    \A d \in Calls : Rotated(d) => hash[call[d].session] # call[d].token

\* and a refresh that was accepted before knows who rotated it since.
RotationsAreSeen ==
    \A c, d \in Calls :
        In(c, "rotate") /\ Rotated(d) /\ call[c].token = call[d].token => d \in rotatedBy[c]

\* CurrentTokenIsSent, of the sessions that have ended too.
TokensAreSent ==
    \A s \in Calls :
        status[s] # "NONE" => \/ hash[s] \in held \cup lost
                              \/ hash[s] = Pending /\ (In(s, "store") \/ s \in lost)
                              \/ hash[s] # Pending /\ In(hash[s], "reply")

\* OutdatedSessionEnds, of the sessions that are about to be created too.
OutdatedEnd ==
    \A s \in Calls :
        (Live(s) \/ In(s, "create")) /\ s \in outdated => Ending(UserOf(s)) \/ s \in overtaken

IInv ==
    /\ TypeOK
    /\ CallsAreKnown
    /\ RotatedIsReplaced /\ RotationsAreSeen /\ OnlyOverlapRotatesTwice
    /\ TokensAreSent
    /\ OutdatedEnd

LEMMA CallsAreTyped ==
    /\ \A pc \in Steps, u \in Users \cup {None}, s, t \in Calls \cup {None} :
            /\ CallOf(pc, u, s, t) \in Call
            /\ CallOf(pc, u, s, t).pc = pc /\ CallOf(pc, u, s, t).userId = u
            /\ CallOf(pc, u, s, t).session = s /\ CallOf(pc, u, s, t).token = t
    /\ \A q \in Call : q.pc \in Steps /\ q.userId \in Users \cup {None}
                       /\ q.session \in Calls \cup {None} /\ q.token \in Calls \cup {None}
  BY DEF Call, CallOf

\* Goto and Fail: a call takes another step and keeps what it has read.
LEMMA OnlyThePlaceChanges ==
    ASSUME NEW q \in Call, NEW pc \in Steps, NEW new, new = [q EXCEPT !.pc = pc]
    PROVE  new \in Call /\ new.pc = pc /\ new.userId = q.userId /\ new.session = q.session
           /\ new.token = q.token
  BY DEF Call

LEMMA Initially == Init => IInv
<1> SUFFICES ASSUME Init
             PROVE  IInv
  OBVIOUS
<1>1. call \in [Calls -> Call] /\ \A c \in Calls : call[c].pc = "idle" /\ call[c].token = None
  <2>1. "idle" \in Steps
    BY DEF Steps
  <2>2. NoCall("idle") \in Call /\ NoCall("idle").pc = "idle" /\ NoCall("idle").token = None
    BY <2>1, CallsAreTyped DEF NoCall
  <2> QED
    BY <2>2 DEF Init
<1>2. TypeOK
  BY <1>1 DEF Init, TypeOK
<1>3. CallsAreKnown
  BY <1>1 DEF Init, CallsAreKnown
<1> QED
  BY <1>1, <1>2, <1>3 DEF Init, IInv, RotatedIsReplaced, RotationsAreSeen, OnlyOverlapRotatesTwice,
     Rotated, TokensAreSent, OutdatedEnd, Live, In

-----------------------------------------------------------------------------
\* The tables are read only, and the call goes on or fails: the calls that begin.
\* FindSession is accepted only with a token that nobody has rotated.
LEMMA FindSessionKeeps ==
    ASSUME IInv, AuthAssumption, NEW c \in Calls, NEW t \in Calls, FindSession(c, t)
    PROVE  IInv'
<1>0. /\ call[c].pc = "idle" /\ t \in held /\ t # c /\ SessionOf(t) \in Calls /\ call[c] \in Call
      /\ status[c] = "NONE" /\ c \notin held /\ c \notin outdated
      /\ UNCHANGED <<tables, held, historyVars>>
  BY DEF FindSession, In, IInv, CallsAreKnown, TypeOK, SessionOf
<1>1. PICK new \in Call :
        /\ call' = [call EXCEPT ![c] = new]
        /\ \/ /\ new.pc \in {"rotate", "reuse"} /\ new.session = SessionOf(t) /\ new.token = t
              /\ status[SessionOf(t)] # "NONE" /\ (new.pc = "rotate" => hash[SessionOf(t)] = t)
           \/ new.pc = "failed" /\ new.session = call[c].session /\ new.token = None
  <2>1. CASE Usable(SessionOf(t)) /\ status[SessionOf(t)] # "NONE" /\ call' = [call EXCEPT ![c] =
                CallOf(IF hash[SessionOf(t)] = t THEN "rotate" ELSE "reuse", UserOf(SessionOf(t)), SessionOf(t), t)]
    <3>1. UserOf(SessionOf(t)) \in Users \cup {None}
      BY <1>0, CallsAreTyped DEF IInv, TypeOK, UserOf
    <3>2. {"rotate", "reuse"} \subseteq Steps
      BY DEF Steps
    <3> DEFINE pc  == IF hash[SessionOf(t)] = t THEN "rotate" ELSE "reuse"
               new == CallOf(pc, UserOf(SessionOf(t)), SessionOf(t), t)
    <3>3. new \in Call /\ new.pc = pc /\ new.session = SessionOf(t) /\ new.token = t
      BY <3>1, <3>2, <1>0, CallsAreTyped
    <3>4. call' = [call EXCEPT ![c] = new]
      BY <2>1
    <3> HIDE DEF new
    <3> QED
      BY <2>1, <3>3, <3>4
  <2>2. CASE Fail(c)
    <3> DEFINE new == [call[c] EXCEPT !.pc = "failed"]
    <3>1. call' = [call EXCEPT ![c] = new]
      BY <2>2 DEF Fail
    <3>2. new \in Call /\ new.pc = "failed" /\ new.session = call[c].session /\ new.token = call[c].token
      BY <1>0, OnlyThePlaceChanges DEF Steps
    <3>3. call[c].token = None
      BY <1>0 DEF IInv, CallsAreKnown
    <3> QED
      BY <3>1, <3>2, <3>3
  <2> QED
    BY <2>1, <2>2 DEF FindSession, Usable, Live
<1>2. /\ \A q \in Calls : call'[q] = IF q = c THEN new ELSE call[q]
      /\ call' \in [Calls -> Call]
  BY <1>1 DEF IInv, TypeOK
<1>3. TypeOK'
  BY <1>0, <1>2 DEF IInv, TypeOK, tables, historyVars
<1>4. CallsAreKnown'
  BY <1>0, <1>1, <1>2 DEF IInv, CallsAreKnown, SessionOf, tables, historyVars
<1>5. \A d \in Calls : Rotated(d)' <=> Rotated(d) /\ d # c
  BY <1>0, <1>1, <1>2 DEF Rotated
<1>6. RotatedIsReplaced' /\ OnlyOverlapRotatesTwice'
  BY <1>0, <1>2, <1>5 DEF IInv, RotatedIsReplaced, OnlyOverlapRotatesTwice, tables, historyVars
<1>7. RotationsAreSeen'
  <2> SUFFICES ASSUME NEW q \in Calls, NEW d \in Calls, In(q, "rotate")', Rotated(d)',
                      call'[q].token = call'[d].token
               PROVE  d \in rotatedBy'[q]
    BY DEF RotationsAreSeen
  <2>1. CASE q = c
    <3>1. hash[SessionOf(t)] = t /\ call[d].token = t
      BY <1>1, <1>2, <1>5, <2>1 DEF In
    <3>2. Rotated(d) /\ call[d].session = SessionOf(t)
      BY <1>0, <1>5, <3>1, AuthAssumption DEF IInv, CallsAreKnown
    <3> QED
      BY <3>1, <3>2 DEF IInv, RotatedIsReplaced
  <2>2. CASE q # c
    BY <1>0, <1>2, <1>5, <2>2 DEF IInv, RotationsAreSeen, In, historyVars
  <2> QED
    BY <2>1, <2>2
<1>8. TokensAreSent'
  BY <1>0, <1>1, <1>2 DEF IInv, TokensAreSent, In, tables, historyVars, TypeOK
<1>9. OutdatedEnd'
  BY <1>0, <1>1, <1>2 DEF IInv, OutdatedEnd, In, Live, Ending, UserOf, tables, historyVars
<1> QED
  BY <1>3, <1>4, <1>6, <1>7, <1>8, <1>9 DEF IInv

LEMMA CheckPasswordKeeps ==
    ASSUME IInv, AuthAssumption, NEW c \in Calls, NEW u \in Users, CheckPassword(c, u)
    PROVE  IInv'
<1>0. /\ call[c].pc = "idle" /\ call[c] \in Call /\ call[c].token = None
      /\ status[c] = "NONE" /\ c \notin held /\ c \notin outdated
      /\ UNCHANGED <<tables, held, historyVars>>
  BY DEF CheckPassword, In, IInv, CallsAreKnown, TypeOK
<1>1. PICK new \in Call :
        /\ call' = [call EXCEPT ![c] = new] /\ new.pc \in {"create", "failed"} /\ new.token = None
  <2>1. CASE call' = [call EXCEPT ![c] = CallOf("create", u, None, None)]
    <3>1. CallOf("create", u, None, None) \in Call /\ CallOf("create", u, None, None).pc = "create"
          /\ CallOf("create", u, None, None).token = None
      BY CallsAreTyped DEF Steps
    <3> QED
      BY <2>1, <3>1
  <2>2. CASE Fail(c)
    <3> DEFINE new == [call[c] EXCEPT !.pc = "failed"]
    <3>1. call' = [call EXCEPT ![c] = new]
      BY <2>2 DEF Fail
    <3>2. new \in Call /\ new.pc = "failed" /\ new.token = call[c].token
      BY <1>0, OnlyThePlaceChanges DEF Steps
    <3> QED
      BY <1>0, <3>1, <3>2
  <2> QED
    BY <2>1, <2>2 DEF CheckPassword
<1>2. /\ \A q \in Calls : call'[q] = IF q = c THEN new ELSE call[q]
      /\ call' \in [Calls -> Call]
  BY <1>1 DEF IInv, TypeOK
<1>3. TypeOK'
  BY <1>0, <1>2 DEF IInv, TypeOK, tables, historyVars
<1>4. CallsAreKnown'
  BY <1>0, <1>1, <1>2, AuthAssumption DEF IInv, CallsAreKnown, SessionOf, tables, historyVars
<1>5. \A d \in Calls : Rotated(d)' <=> Rotated(d) /\ d # c
  BY <1>0, <1>1, <1>2 DEF Rotated
<1>6. RotatedIsReplaced' /\ OnlyOverlapRotatesTwice' /\ RotationsAreSeen'
  BY <1>0, <1>1, <1>2, <1>5 DEF IInv, RotatedIsReplaced, OnlyOverlapRotatesTwice, RotationsAreSeen,
     In, tables, historyVars
<1>7. TokensAreSent'
  BY <1>0, <1>1, <1>2 DEF IInv, TokensAreSent, In, tables, historyVars, TypeOK
<1>8. OutdatedEnd'
  BY <1>0, <1>1, <1>2 DEF IInv, OutdatedEnd, In, Live, Ending, UserOf, tables, historyVars
<1> QED
  BY <1>3, <1>4, <1>6, <1>7, <1>8 DEF IInv

\* A session is created: what is said of calls that log in holds of it now.
LEMMA CreateSessionKeeps ==
    ASSUME IInv, AuthAssumption, NEW c \in Calls, CreateSession(c)
    PROVE  IInv'
<1>0. /\ call[c].pc = "create" /\ call[c] \in Call /\ call[c].token = None
      /\ status[c] = "NONE" /\ c \notin held /\ Pending \notin Calls
      /\ status' = [status EXCEPT ![c] = "LIVE"] /\ hash' = [hash EXCEPT ![c] = Pending]
      /\ UNCHANGED <<expired, held, historyVars>>
  BY AuthAssumption DEF CreateSession, In, IInv, CallsAreKnown, TypeOK
<1>1. PICK new \in Call :
        /\ call' = [call EXCEPT ![c] = new] /\ new.pc = "store" /\ new.session = c
        /\ new.userId = call[c].userId /\ new.token = None
  <2> DEFINE new == [call[c] EXCEPT !.pc = "store", !.session = c]
  <2>1. call' = [call EXCEPT ![c] = new]
    BY DEF CreateSession
  <2>2. new \in Call /\ new.pc = "store" /\ new.session = c /\ new.userId = call[c].userId
        /\ new.token = call[c].token
    BY <1>0 DEF Call, Steps
  <2> QED
    BY <1>0, <2>1, <2>2
<1>2. /\ \A q \in Calls : call'[q] = IF q = c THEN new ELSE call[q]
      /\ call' \in [Calls -> Call]
      /\ \A s \in Calls : /\ status'[s] = IF s = c THEN "LIVE" ELSE status[s]
                          /\ hash'[s] = IF s = c THEN Pending ELSE hash[s]
  BY <1>0, <1>1 DEF IInv, TypeOK
<1>3. TypeOK'
  BY <1>0, <1>2 DEF IInv, TypeOK, historyVars
<1>4. CallsAreKnown'
  BY <1>0, <1>1, <1>2, AuthAssumption DEF IInv, CallsAreKnown, SessionOf, historyVars
<1>5. \A d \in Calls : Rotated(d)' <=> Rotated(d) /\ d # c
  BY <1>0, <1>1, <1>2 DEF Rotated
<1>6. RotatedIsReplaced'
  <2> SUFFICES ASSUME NEW d \in Calls, Rotated(d), d # c
               PROVE  hash'[call[d].session] # call[d].token
    BY <1>2, <1>5 DEF RotatedIsReplaced
  <2>1. call[d].token \in Calls /\ call[d].session \in Calls
    BY DEF IInv, CallsAreKnown, Rotated, TypeOK, SessionOf
  <2> QED
    BY <1>0, <1>2, <2>1 DEF IInv, RotatedIsReplaced
<1>7. OnlyOverlapRotatesTwice' /\ RotationsAreSeen'
  BY <1>0, <1>1, <1>2, <1>5 DEF IInv, OnlyOverlapRotatesTwice, RotationsAreSeen, In, historyVars
<1>8. TokensAreSent'
  BY <1>0, <1>1, <1>2 DEF IInv, TokensAreSent, In, historyVars, TypeOK
<1>9. OutdatedEnd'
  BY <1>0, <1>1, <1>2 DEF IInv, OutdatedEnd, In, Live, Ending, UserOf, historyVars
<1> QED
  BY <1>3, <1>4, <1>6, <1>7, <1>8, <1>9 DEF IInv

\* The first token of a session is stored.
LEMMA StoreHashKeeps ==
    ASSUME IInv, AuthAssumption, NEW c \in Calls, StoreHash(c)
    PROVE  IInv'
<1>0. /\ call[c].pc = "store" /\ call[c] \in Call /\ call[c].token = None /\ call[c].session = c
      /\ c \notin held /\ Pending \notin Calls
      /\ hash' = [hash EXCEPT ![c] = c] /\ UNCHANGED <<status, expired, held, historyVars>>
  BY AuthAssumption DEF StoreHash, In, IInv, CallsAreKnown, TypeOK
<1>1. PICK new \in Call :
        /\ call' = [call EXCEPT ![c] = new] /\ new.pc = "reply"
        /\ new.userId = call[c].userId /\ new.session = call[c].session /\ new.token = call[c].token
  <2> DEFINE new == [call[c] EXCEPT !.pc = "reply"]
  <2>1. call' = [call EXCEPT ![c] = new]
    BY DEF StoreHash, Goto
  <2>2. new \in Call /\ new.pc = "reply" /\ new.userId = call[c].userId
        /\ new.session = call[c].session /\ new.token = call[c].token
    BY <1>0, OnlyThePlaceChanges DEF Steps
  <2> QED
    BY <2>1, <2>2
<1>2. /\ \A q \in Calls : call'[q] = IF q = c THEN new ELSE call[q]
      /\ call' \in [Calls -> Call]
  BY <1>1 DEF IInv, TypeOK
<1>3. \A s \in Calls : hash'[s] = IF s = c THEN c ELSE hash[s]
  BY <1>0 DEF IInv, TypeOK
<1>4. TypeOK'
  BY <1>0, <1>2 DEF IInv, TypeOK, historyVars
<1>5. CallsAreKnown'
  BY <1>0, <1>1, <1>2, AuthAssumption DEF IInv, CallsAreKnown, SessionOf, historyVars
<1>6. \A d \in Calls : Rotated(d)' <=> Rotated(d) /\ d # c
  BY <1>0, <1>1, <1>2 DEF Rotated
<1>7. RotatedIsReplaced'
  <2> SUFFICES ASSUME NEW d \in Calls, Rotated(d), d # c
               PROVE  hash'[call[d].session] # call[d].token
    BY <1>2, <1>6 DEF RotatedIsReplaced
  <2>1. call[d].token \in Calls /\ call[d].session \in Calls /\ call[d].token \in held
    BY DEF IInv, CallsAreKnown, Rotated, TypeOK, SessionOf
  <2> QED
    BY <1>0, <1>3, <2>1 DEF IInv, RotatedIsReplaced
<1>8. OnlyOverlapRotatesTwice' /\ RotationsAreSeen'
  BY <1>0, <1>1, <1>2, <1>6 DEF IInv, OnlyOverlapRotatesTwice, RotationsAreSeen, In, historyVars
<1>9. TokensAreSent'
  BY <1>0, <1>1, <1>2, <1>3 DEF IInv, TokensAreSent, In, historyVars, TypeOK
<1>10. OutdatedEnd'
  BY <1>0, <1>1, <1>2 DEF IInv, OutdatedEnd, In, Live, Ending, UserOf, historyVars
<1> QED
  BY <1>4, <1>5, <1>7, <1>8, <1>9, <1>10 DEF IInv

\* The client receives a token, or its reply is lost.
LEMMA ReplyKeeps ==
    ASSUME IInv, AuthAssumption, NEW c \in Calls, Reply(c)
    PROVE  IInv'
<1>0. /\ call[c].pc = "reply" /\ call[c] \in Call /\ call[c].session \in Calls /\ Pending \notin Calls
      /\ held' \cup lost' = held \cup lost \cup {c} /\ held \subseteq held' /\ lost \subseteq lost'
      /\ held' \subseteq held \cup {c} /\ held' \subseteq Calls /\ lost' \subseteq Calls
      /\ UNCHANGED <<tables, rotatedBy, outdated, overtaken>>
  BY AuthAssumption DEF Reply, In, IInv, CallsAreKnown, TypeOK
<1>1. PICK new \in Call :
        /\ call' = [call EXCEPT ![c] = new] /\ new.pc = "done"
        /\ new.userId = call[c].userId /\ new.session = call[c].session /\ new.token = call[c].token
  <2> DEFINE new == [call[c] EXCEPT !.pc = "done"]
  <2>1. call' = [call EXCEPT ![c] = new]
    BY DEF Reply, Goto
  <2>2. new \in Call /\ new.pc = "done" /\ new.userId = call[c].userId
        /\ new.session = call[c].session /\ new.token = call[c].token
    BY <1>0, OnlyThePlaceChanges DEF Steps
  <2> QED
    BY <2>1, <2>2
<1>2. /\ \A q \in Calls : call'[q] = IF q = c THEN new ELSE call[q]
      /\ call' \in [Calls -> Call]
  BY <1>1 DEF IInv, TypeOK
<1>3. TypeOK'
  BY <1>0, <1>2 DEF IInv, TypeOK, tables
<1>4. CallsAreKnown'
  <2> SUFFICES ASSUME NEW q \in Calls
               PROVE  /\ call'[q].pc \in {"idle", "create"} => status'[q] = "NONE" /\ call'[q].token = None
                      /\ call'[q].pc \in {"store", "end"} => call'[q].token = None
                      /\ call'[q].pc = "store" => call'[q].session = q
                      /\ call'[q].pc \in {"rotate", "reuse"} => /\ call'[q].token # None /\ call'[q].session \in Calls
                                                              /\ status'[call'[q].session] # "NONE"
                      /\ call'[q].pc = "reply" => call'[q].session \in Calls
                      /\ call'[q].token # None =>
                            call'[q].token \in held' /\ call'[q].session = call'[call'[q].token].session
                      /\ q \in held' => call'[q].pc = "done" /\ call'[q].session \in Calls
                      /\ q \in outdated' => call'[q].pc # "idle"
    BY DEF CallsAreKnown, SessionOf
  <2>1. call'[q].token = call[q].token /\ call'[q].session = call[q].session
    BY <1>1, <1>2
  <2>2. call[q].token # None => call[q].token \in held /\ call[q].session = call[call[q].token].session
                               /\ call[q].token \in Calls
    BY DEF IInv, CallsAreKnown, SessionOf, TypeOK
  <2>3. call[q].token # None => call'[call[q].token].session = call[call[q].token].session
    BY <1>1, <1>2, <2>2
  <2> QED
    BY <1>0, <1>1, <1>2, <2>1, <2>2, <2>3 DEF IInv, CallsAreKnown, tables
<1>5. \A d \in Calls : Rotated(d)' <=> Rotated(d)
  BY <1>0, <1>1, <1>2 DEF Rotated
<1>6. \A d \in Calls : call'[d].token = call[d].token /\ call'[d].session = call[d].session
                       /\ (In(d, "rotate")' <=> In(d, "rotate"))
  BY <1>0, <1>1, <1>2 DEF In
<1>7. RotatedIsReplaced' /\ OnlyOverlapRotatesTwice' /\ RotationsAreSeen'
  BY <1>0, <1>5, <1>6 DEF IInv, RotatedIsReplaced, OnlyOverlapRotatesTwice, RotationsAreSeen, tables
<1>8. TokensAreSent'
  BY <1>0, <1>1, <1>2 DEF IInv, TokensAreSent, In, tables, TypeOK
<1>9. OutdatedEnd'
  BY <1>0, <1>1, <1>2 DEF IInv, OutdatedEnd, In, Live, Ending, UserOf, tables
<1> QED
  BY <1>3, <1>4, <1>7, <1>8, <1>9 DEF IInv

\* A session whose token was reused ends.
LEMMA RevokeReusedKeeps ==
    ASSUME IInv, AuthAssumption, NEW c \in Calls, RevokeReused(c)
    PROVE  IInv'
<1>0. /\ call[c].pc = "reuse" /\ call[c] \in Call /\ call[c].session \in Calls /\ c \notin held
      /\ status[call[c].session] # "NONE"
      /\ status' = [status EXCEPT ![call[c].session] = "REVOKED"]
      /\ UNCHANGED <<hash, expired, held, historyVars>>
  BY DEF RevokeReused, In, IInv, CallsAreKnown, TypeOK
<1>1. PICK new \in Call :
        /\ call' = [call EXCEPT ![c] = new] /\ new.pc = "failed"
        /\ new.userId = call[c].userId /\ new.session = call[c].session /\ new.token = call[c].token
  <2> DEFINE new == [call[c] EXCEPT !.pc = "failed"]
  <2>1. call' = [call EXCEPT ![c] = new]
    BY DEF RevokeReused, Fail
  <2>2. new \in Call /\ new.pc = "failed" /\ new.userId = call[c].userId
        /\ new.session = call[c].session /\ new.token = call[c].token
    BY <1>0, OnlyThePlaceChanges DEF Steps
  <2> QED
    BY <2>1, <2>2
<1>2. /\ \A q \in Calls : call'[q] = IF q = c THEN new ELSE call[q]
      /\ call' \in [Calls -> Call]
  BY <1>1 DEF IInv, TypeOK
<1>3. \A s \in Calls : status'[s] = IF s = call[c].session THEN "REVOKED" ELSE status[s]
  BY <1>0 DEF IInv, TypeOK
<1>4. TypeOK'
  BY <1>0, <1>2 DEF IInv, TypeOK, historyVars
<1>5. CallsAreKnown'
  BY <1>0, <1>1, <1>2, <1>3 DEF IInv, CallsAreKnown, SessionOf, historyVars
<1>6. \A d \in Calls : Rotated(d)' <=> Rotated(d) /\ d # c
  BY <1>0, <1>1, <1>2 DEF Rotated
<1>7. RotatedIsReplaced' /\ OnlyOverlapRotatesTwice' /\ RotationsAreSeen'
  BY <1>0, <1>1, <1>2, <1>6 DEF IInv, RotatedIsReplaced, OnlyOverlapRotatesTwice, RotationsAreSeen,
     In, historyVars
<1>8. TokensAreSent'
  BY <1>0, <1>1, <1>2, <1>3 DEF IInv, TokensAreSent, In, historyVars, TypeOK
<1>9. OutdatedEnd'
  BY <1>0, <1>1, <1>2, <1>3 DEF IInv, OutdatedEnd, In, Live, Ending, UserOf, historyVars
<1> QED
  BY <1>4, <1>5, <1>7, <1>8, <1>9 DEF IInv

\* A refresh writes its token: those that were accepted with the same one see it.
LEMMA RotateKeeps ==
    ASSUME IInv, AuthAssumption, NEW c \in Calls, Rotate(c)
    PROVE  IInv'
<1>0. /\ call[c].pc = "rotate" /\ call[c] \in Call /\ call[c].session \in Calls /\ c \notin held
      /\ call[c].token # None /\ call[c].token \in held /\ status[call[c].session] # "NONE"
      /\ call[c].session = call[call[c].token].session /\ Pending \notin Calls
      /\ hash' = [hash EXCEPT ![call[c].session] = c]
      /\ UNCHANGED <<status, expired, held, outdated, overtaken, lost>>
  BY AuthAssumption DEF Rotate, In, IInv, CallsAreKnown, TypeOK, SessionOf
<1>1. PICK new \in Call :
        /\ call' = [call EXCEPT ![c] = new] /\ new.pc = "reply"
        /\ new.userId = call[c].userId /\ new.session = call[c].session /\ new.token = call[c].token
  <2> DEFINE new == [call[c] EXCEPT !.pc = "reply"]
  <2>1. call' = [call EXCEPT ![c] = new]
    BY DEF Rotate, Goto
  <2>2. new \in Call /\ new.pc = "reply" /\ new.userId = call[c].userId
        /\ new.session = call[c].session /\ new.token = call[c].token
    BY <1>0, OnlyThePlaceChanges DEF Steps
  <2> QED
    BY <2>1, <2>2
<1>2. /\ \A q \in Calls : call'[q] = IF q = c THEN new ELSE call[q]
      /\ call' \in [Calls -> Call]
  BY <1>1 DEF IInv, TypeOK
<1>3. /\ \A s \in Calls : hash'[s] = IF s = call[c].session THEN c ELSE hash[s]
      /\ \A q \in Calls : rotatedBy[q] \subseteq rotatedBy'[q] /\ rotatedBy'[q] \subseteq rotatedBy[q] \cup {c}
      /\ \A q \in Calls : q # c /\ In(q, "rotate") /\ call[q].session = call[c].session => c \in rotatedBy'[q]
  BY <1>0 DEF IInv, TypeOK, Rotate
<1>4. TypeOK'
  <2>1. rotatedBy' \in [Calls -> SUBSET Calls]
    BY DEF IInv, TypeOK, Rotate
  <2> QED
    BY <1>0, <1>2, <2>1 DEF IInv, TypeOK
<1>5. CallsAreKnown'
  BY <1>0, <1>1, <1>2 DEF IInv, CallsAreKnown, SessionOf
<1>6. \A d \in Calls : Rotated(d)' <=> Rotated(d) \/ d = c
  BY <1>0, <1>1, <1>2 DEF Rotated
<1>7. \A d \in Calls : call'[d].token = call[d].token /\ call'[d].session = call[d].session
  BY <1>1, <1>2
<1>8. \A d \in Calls : Rotated(d)' => call[d].token \in held /\ call[d].session = call[call[d].token].session
  BY <1>0, <1>6 DEF Rotated, IInv, CallsAreKnown, SessionOf
<1>9. RotatedIsReplaced'
  <2> SUFFICES ASSUME NEW d \in Calls, Rotated(d)'
               PROVE  hash'[call[d].session] # call[d].token
    BY <1>7 DEF RotatedIsReplaced
  <2>1. call[d].session \in Calls /\ call[d].token # c
    BY <1>0, <1>8 DEF IInv, CallsAreKnown, TypeOK
  <2> QED
    BY <1>0, <1>3, <1>6, <2>1 DEF IInv, RotatedIsReplaced
<1>10. RotationsAreSeen'
  <2> SUFFICES ASSUME NEW q \in Calls, NEW d \in Calls, In(q, "rotate")', Rotated(d)',
                      call[q].token = call[d].token
               PROVE  d \in rotatedBy'[q]
    BY <1>7 DEF RotationsAreSeen
  <2>1. In(q, "rotate") /\ q # c
    BY <1>1, <1>2 DEF In
  <2>2. CASE d # c
    BY <1>3, <1>6, <2>1, <2>2 DEF IInv, RotationsAreSeen
  <2>3. CASE d = c
    <3>1. call[q].session = call[c].session
      BY <1>0, <2>1, <2>3 DEF IInv, CallsAreKnown, SessionOf
    <3> QED
      BY <1>3, <2>1, <2>3, <3>1
  <2> QED
    BY <2>2, <2>3
<1>11. OnlyOverlapRotatesTwice'
  <2> SUFFICES ASSUME NEW q \in Calls, NEW d \in Calls, q # d, Rotated(q)', Rotated(d)',
                      call[q].token = call[d].token
               PROVE  q \in rotatedBy'[d] \/ d \in rotatedBy'[q]
    BY <1>7 DEF OnlyOverlapRotatesTwice
  <2>1. In(c, "rotate")
    BY <1>0 DEF In
  <2>2. CASE q = c
    BY <1>3, <1>6, <2>1, <2>2 DEF IInv, RotationsAreSeen
  <2>3. CASE d = c
    BY <1>3, <1>6, <2>1, <2>3 DEF IInv, RotationsAreSeen
  <2>4. CASE q # c /\ d # c
    BY <1>3, <1>6, <2>4 DEF IInv, OnlyOverlapRotatesTwice
  <2> QED
    BY <2>2, <2>3, <2>4
<1>12. TokensAreSent'
  BY <1>0, <1>1, <1>2, <1>3 DEF IInv, TokensAreSent, In, TypeOK
<1>13. OutdatedEnd'
  BY <1>0, <1>1, <1>2 DEF IInv, OutdatedEnd, In, Live, Ending, UserOf
<1> QED
  BY <1>4, <1>5, <1>9, <1>10, <1>11, <1>12, <1>13 DEF IInv

\* The second statement of a change of password.
LEMMA EndSessionsKeeps ==
    ASSUME IInv, AuthAssumption, NEW c \in Calls, EndSessions(c)
    PROVE  IInv'
<1>0. /\ call[c].pc = "end" /\ call[c] \in Call /\ c \notin held /\ call[c].token = None
      /\ UNCHANGED <<hash, expired, held, rotatedBy, outdated, lost>>
  BY DEF EndSessions, In, IInv, CallsAreKnown, TypeOK
<1>1. PICK new \in Call :
        /\ call' = [call EXCEPT ![c] = new] /\ new.pc = "done"
        /\ new.userId = call[c].userId /\ new.session = call[c].session /\ new.token = call[c].token
  <2> DEFINE new == [call[c] EXCEPT !.pc = "done"]
  <2>1. call' = [call EXCEPT ![c] = new]
    BY DEF EndSessions, Goto
  <2>2. new \in Call /\ new.pc = "done" /\ new.userId = call[c].userId
        /\ new.session = call[c].session /\ new.token = call[c].token
    BY <1>0, OnlyThePlaceChanges DEF Steps
  <2> QED
    BY <2>1, <2>2
<1>2. /\ \A q \in Calls : call'[q] = IF q = c THEN new ELSE call[q]
      /\ call' \in [Calls -> Call]
  BY <1>1 DEF IInv, TypeOK
<1>3. /\ \A s \in Calls : status'[s] = IF s \in LiveSessionsOf(UserOf(c)) /\ s # call[c].session
                                     THEN "REVOKED" ELSE status[s]
      /\ overtaken' = overtaken \cup LoggingIn(UserOf(c)) \cup ({call[c].session} \cap Calls)
      /\ status' \in [Calls -> {"NONE", "LIVE", "REVOKED"}]
  BY DEF EndSessions, IInv, TypeOK
<1>4. \A s \in Calls : (status'[s] = "NONE" <=> status[s] = "NONE") /\ (Live(s)' => Live(s))
  BY <1>3 DEF LiveSessionsOf, Live
<1>5. TypeOK'
  BY <1>0, <1>2, <1>3 DEF IInv, TypeOK, LoggingIn
<1>6. CallsAreKnown'
  BY <1>0, <1>1, <1>2, <1>4 DEF IInv, CallsAreKnown, SessionOf
<1>7. \A d \in Calls : Rotated(d)' <=> Rotated(d) /\ d # c
  BY <1>0, <1>1, <1>2 DEF Rotated
<1>8. RotatedIsReplaced' /\ OnlyOverlapRotatesTwice' /\ RotationsAreSeen'
  BY <1>0, <1>1, <1>2, <1>7 DEF IInv, RotatedIsReplaced, OnlyOverlapRotatesTwice, RotationsAreSeen, In
<1>9. TokensAreSent'
  BY <1>0, <1>1, <1>2, <1>4 DEF IInv, TokensAreSent, In, TypeOK
<1>10. OutdatedEnd'
  <2> SUFFICES ASSUME NEW s \in Calls, Live(s)' \/ In(s, "create")', s \in outdated,
                      s \notin overtaken'
               PROVE  Ending(UserOf(s))'
    BY <1>0 DEF OutdatedEnd
  <2>1. (Live(s) \/ In(s, "create")) /\ s \notin overtaken /\ UserOf(s)' = UserOf(s)
    BY <1>1, <1>2, <1>3, <1>4 DEF In, UserOf
  <2>2. PICK d \in Calls : In(d, "end") /\ UserOf(d) = UserOf(s)
    BY <2>1 DEF IInv, OutdatedEnd, Ending
  <2>3. CASE UserOf(s) = UserOf(c)
    BY <1>0, <1>1, <1>2, <1>3, <2>1, <2>3 DEF LiveSessionsOf, LoggingIn, Live, In
  <2>4. CASE UserOf(s) # UserOf(c)
    BY <1>2, <2>1, <2>2, <2>4 DEF Ending, In, UserOf
  <2> QED
    BY <2>3, <2>4
<1> QED
  BY <1>5, <1>6, <1>8, <1>9, <1>10 DEF IInv

\* The first statement of a change of password: the sessions of the person and the calls
\* that log in are outdated, and the second is to come.
LEMMA ChangePasswordKeeps ==
    ASSUME IInv, AuthAssumption, NEW c \in Calls, NEW u \in Users, NEW own \in Calls \cup {None},
           ChangePassword(c, u, own)
    PROVE  IInv'
<1>0. /\ call[c].pc = "idle" /\ call[c].token = None /\ status[c] = "NONE" /\ c \notin held
      /\ outdated' = outdated \cup {s \in Calls : status[s] # "NONE" /\ UserOf(s) = u} \cup LoggingIn(u)
      /\ UNCHANGED <<tables, held, rotatedBy, overtaken, lost>>
  BY DEF ChangePassword, In, IInv, CallsAreKnown, TypeOK
<1>1. PICK new \in Call :
        /\ call' = [call EXCEPT ![c] = new] /\ new.pc = "end" /\ new.userId = u /\ new.token = None
  <2>1. /\ CallOf("end", u, own, None) \in Call /\ CallOf("end", u, own, None).pc = "end"
        /\ CallOf("end", u, own, None).userId = u /\ CallOf("end", u, own, None).token = None
    BY CallsAreTyped DEF Steps
  <2> QED
    BY <2>1 DEF ChangePassword
<1>2. /\ \A q \in Calls : call'[q] = IF q = c THEN new ELSE call[q]
      /\ call' \in [Calls -> Call]
  BY <1>1 DEF IInv, TypeOK
<1>3. TypeOK'
  BY <1>0, <1>2 DEF IInv, TypeOK, tables, LoggingIn
<1>4. CallsAreKnown'
  <2>1. \A s \in Calls : s \in outdated' => call'[s].pc # "idle"
    BY <1>0, <1>1, <1>2 DEF IInv, CallsAreKnown, LoggingIn, In
  <2> QED
    BY <1>0, <1>1, <1>2, <2>1, AuthAssumption DEF IInv, CallsAreKnown, SessionOf, tables
<1>5. \A d \in Calls : Rotated(d)' <=> Rotated(d) /\ d # c
  BY <1>0, <1>1, <1>2 DEF Rotated
<1>6. RotatedIsReplaced' /\ OnlyOverlapRotatesTwice' /\ RotationsAreSeen'
  BY <1>0, <1>1, <1>2, <1>5 DEF IInv, RotatedIsReplaced, OnlyOverlapRotatesTwice, RotationsAreSeen,
     In, tables
<1>7. TokensAreSent'
  BY <1>0, <1>1, <1>2 DEF IInv, TokensAreSent, In, tables, TypeOK
<1>8. OutdatedEnd'
  <2> SUFFICES ASSUME NEW s \in Calls, Live(s)' \/ In(s, "create")', s \in outdated',
                      s \notin overtaken
               PROVE  Ending(UserOf(s))'
    BY <1>0 DEF OutdatedEnd
  <2>1. s # c /\ (Live(s) \/ In(s, "create")) /\ UserOf(s)' = UserOf(s)
    BY <1>0, <1>1, <1>2 DEF In, Live, UserOf, tables
  <2>2. CASE UserOf(s) = u
    BY <1>1, <1>2, <2>1, <2>2 DEF Ending, In, UserOf
  <2>3. CASE UserOf(s) # u
    <3>1. s \in outdated
      BY <1>0, <2>3 DEF LoggingIn
    <3>2. PICK d \in Calls : In(d, "end") /\ UserOf(d) = UserOf(s)
      BY <2>1, <3>1 DEF IInv, OutdatedEnd, Ending
    <3>3. d # c
      BY <1>0, <3>2 DEF In
    <3> QED
      BY <1>2, <2>1, <3>2, <3>3 DEF Ending, In, UserOf
  <2> QED
    BY <2>2, <2>3
<1> QED
  BY <1>3, <1>4, <1>6, <1>7, <1>8 DEF IInv

\* Sessions end or expire, by a logout, a removal or the clock.
LEMMA EndedSessionsKeep ==
    ASSUME IInv, UNCHANGED <<hash, call, held, historyVars>>,
           status' \in [Calls -> {"NONE", "LIVE", "REVOKED"}], expired' \subseteq Calls,
           \A s \in Calls : (status'[s] = "NONE" <=> status[s] = "NONE") /\ (Live(s)' => Live(s))
    PROVE  IInv'
<1>1. TypeOK' /\ CallsAreKnown'
  BY DEF IInv, TypeOK, CallsAreKnown, SessionOf, historyVars
<1>2. \A d \in Calls : (Rotated(d)' <=> Rotated(d)) /\ (In(d, "rotate")' <=> In(d, "rotate"))
  BY DEF Rotated, In
<1>3. RotatedIsReplaced' /\ OnlyOverlapRotatesTwice' /\ RotationsAreSeen'
  BY <1>2 DEF IInv, RotatedIsReplaced, OnlyOverlapRotatesTwice, RotationsAreSeen, historyVars
<1>4. TokensAreSent'
  BY DEF IInv, TokensAreSent, In, historyVars
<1>5. OutdatedEnd'
  BY DEF IInv, OutdatedEnd, In, Ending, UserOf, historyVars
<1> QED
  BY <1>1, <1>3, <1>4, <1>5 DEF IInv

\* The process stops: no call goes on.
LEMMA CrashKeeps ==
    ASSUME IInv, AuthAssumption, Crash
    PROVE  IInv'
<1> DEFINE over(c) == call[c].pc \in {"idle", "done", "failed"}
<1>1. ASSUME NEW c \in Calls
      PROVE  /\ call'[c] \in Call /\ call'[c].userId = call[c].userId
             /\ call'[c].session = call[c].session /\ call'[c].token = call[c].token
             /\ call'[c].pc = IF over(c) THEN call[c].pc ELSE "failed"
  <2> DEFINE new == [call[c] EXCEPT !.pc = "failed"]
  <2>1. call[c] \in Call
    BY DEF IInv, TypeOK
  <2>2. new \in Call /\ new.pc = "failed" /\ new.userId = call[c].userId
        /\ new.session = call[c].session /\ new.token = call[c].token
    BY <2>1, OnlyThePlaceChanges DEF Steps
  <2>3. call'[c] = IF over(c) THEN call[c] ELSE new
    BY DEF Crash
  <2> HIDE DEF new
  <2> QED
    BY <2>1, <2>2, <2>3
<1>2. call' \in [Calls -> Call]
  BY <1>1 DEF Crash
<1>3. /\ lost' = lost \cup {c \in Calls : call[c].pc \in {"store", "reply"}}
      /\ overtaken' = overtaken \cup {s \in Calls : Live(s) /\ Ending(UserOf(s))}
      /\ UNCHANGED <<tables, held, rotatedBy, outdated>>
  BY DEF Crash
<1>4. TypeOK'
  BY <1>2, <1>3 DEF IInv, TypeOK, tables
<1>5. CallsAreKnown'
  BY <1>1, <1>3 DEF IInv, CallsAreKnown, SessionOf, tables, TypeOK
<1>6. \A d \in Calls : (Rotated(d)' => Rotated(d)) /\ ~In(d, "rotate")'
  BY <1>1 DEF Rotated, In
<1>7. RotatedIsReplaced' /\ OnlyOverlapRotatesTwice' /\ RotationsAreSeen'
  BY <1>1, <1>3, <1>6 DEF IInv, RotatedIsReplaced, OnlyOverlapRotatesTwice, RotationsAreSeen, tables
<1>8. TokensAreSent'
  BY <1>1, <1>3 DEF IInv, TokensAreSent, In, tables, TypeOK
<1>9. OutdatedEnd'
  BY <1>1, <1>3 DEF IInv, OutdatedEnd, In, Live, UserOf, tables
<1> QED
  BY <1>4, <1>5, <1>7, <1>8, <1>9 DEF IInv

LEMMA StepKeeps == AuthAssumption /\ IInv /\ [Next]_vars => IInv'
<1> SUFFICES ASSUME AuthAssumption, IInv, [Next]_vars
             PROVE  IInv'
  OBVIOUS
<1>1. ASSUME NEW c \in Calls, NEW u \in Users, CheckPassword(c, u)
      PROVE  IInv'
  BY <1>1, CheckPasswordKeeps
<1>2. ASSUME NEW c \in Calls, NEW t \in Calls, FindSession(c, t)
      PROVE  IInv'
  BY <1>2, FindSessionKeeps
<1>3. ASSUME NEW c \in Calls, NEW u \in Users, NEW own \in Calls \cup {None}, ChangePassword(c, u, own)
      PROVE  IInv'
  BY <1>3, ChangePasswordKeeps
<1>4. ASSUME NEW c \in Calls, CallStep(c)
      PROVE  IInv'
  BY <1>4, CreateSessionKeeps, StoreHashKeeps, ReplyKeeps, RevokeReusedKeeps, RotateKeeps,
     EndSessionsKeeps DEF CallStep
<1>5. ASSUME NEW c \in Calls, Logout(c)
      PROVE  IInv'
  <2>1. status' \in [Calls -> {"NONE", "LIVE", "REVOKED"}]
    BY <1>5 DEF Logout, IInv, TypeOK
  <2>2. \A s \in Calls : (status'[s] = "NONE" <=> status[s] = "NONE") /\ (Live(s)' => Live(s))
    BY <1>5 DEF Logout, IInv, TypeOK, Live
  <2> QED
    BY <1>5, <2>1, <2>2, EndedSessionsKeep DEF Logout, IInv, TypeOK
<1>6. ASSUME NEW c \in Calls, Expire(c)
      PROVE  IInv'
  BY <1>6, EndedSessionsKeep DEF Expire, IInv, TypeOK, Live
<1>7. ASSUME NEW u \in Users, RemoveMember(u)
      PROVE  IInv'
  <2>1. status' \in [Calls -> {"NONE", "LIVE", "REVOKED"}]
    BY <1>7 DEF RemoveMember, IInv, TypeOK
  <2>2. \A s \in Calls : (status'[s] = "NONE" <=> status[s] = "NONE") /\ (Live(s)' => Live(s))
    BY <1>7 DEF RemoveMember, LiveSessionsOf, Live
  <2> QED
    BY <1>7, <2>1, <2>2, EndedSessionsKeep DEF RemoveMember, IInv, TypeOK
<1>8. CASE Crash
  BY <1>8, CrashKeeps
<1>9. CASE UNCHANGED vars
  BY <1>9, EndedSessionsKeep DEF vars, historyVars, IInv, TypeOK, Live
<1> QED
  BY <1>1, <1>2, <1>3, <1>4, <1>5, <1>6, <1>7, <1>8, <1>9 DEF Next

LEMMA InductiveInvariant == Spec => []IInv
  BY Initially, StepKeeps, AuthAssumption, PTL DEF Spec

-----------------------------------------------------------------------------
\* Every state of login, refresh, logout and the change of password is type-correct.
THEOREM TypeCorrect == Spec => []TypeOK
<1>1. IInv => TypeOK
  BY DEF IInv
<1> QED
  BY InductiveInvariant, <1>1, PTL

\* RefreshSessionUseCase: a token is rotated twice only by refreshes that read the session
\* before the other wrote it.
THEOREM TokensRotateTwiceOnlyByOverlap == Spec => []OnlyOverlapRotatesTwice
<1>1. IInv => OnlyOverlapRotatesTwice
  BY DEF IInv
<1> QED
  BY InductiveInvariant, <1>1, PTL

\* Login and refresh: the token a live session accepts was sent, is being sent, or was lost
\* on the way.
THEOREM CurrentTokensAreSent == Spec => []CurrentTokenIsSent
<1>1. IInv => CurrentTokenIsSent
  BY DEF IInv, TokensAreSent, CurrentTokenIsSent, Live
<1> QED
  BY InductiveInvariant, <1>1, PTL

\* AdminController.changePassword: a session opened with the old password lives on only if
\* it was spared, created by a login in flight, or the process stopped between the statements.
THEOREM OutdatedSessionsAreEnded == Spec => []OutdatedSessionEnds
<1>1. IInv => OutdatedSessionEnds
  BY DEF IInv, OutdatedEnd, OutdatedSessionEnds
<1> QED
  BY InductiveInvariant, <1>1, PTL
=============================================================================
