--------------------------- MODULE KeyValueProofs ---------------------------
(***************************************************************************)
(* As long as no signal arrives, no client quits in the middle and the     *)
(* system refuses nothing, the server is the map that KeyValue describes:  *)
(* every call takes effect at one moment between its call and its return   *)
(* and returns what it found at that moment.                               *)
(***************************************************************************)
EXTENDS SessionProofs

(* Nothing is to come that could stop the server or a client. *)
Quiet ==
  /\ srv = "running" /\ db # "closed" /\ \A t \in Thread : handler[t] = "none"
  /\ budget = [signals |-> 0, quits |-> 0, refused |-> 0]

(* A worker ends when its client has left, and not before. *)
Together ==
  \A c \in Client : /\ cl[c].pc = "gone" => w[c].pc = "done"
                    /\ w[c].pc = "done" => cl[c].pc \in {"bye", "gone"}

CalmInv == SessionInv /\ Quiet /\ Together

(* In the calm every client with a worker is in step with it. *)
LEMMA InSession ==
  ASSUME CalmInv, NEW c \in Client, w[c].pc # "done"
  PROVE  Session(cl[c], w[c], wire[c], back[c], peer[c], eff[c]) /\ peer[c] = "up"
BY DEF CalmInv, Quiet, Together, SessionInv, Local, Connection, Session

(* No step of a server without faults is one of these. *)
LEMMA NoFaults ==
  ASSUME CalmInv
  PROVE  /\ ~StartFails /\ \A t \in Thread : ~Interrupt(t) /\ ~exit_nicely(t)
         /\ \A c \in Client : ~Quit(c) /\ ~BrokenPipe(c)
<1>1. ~StartFails
  BY DEF CalmInv, Quiet, StartFails
<1>2. ASSUME NEW t \in Thread PROVE ~Interrupt(t) /\ ~exit_nicely(t)
  BY DEF CalmInv, Quiet, Interrupt, exit_nicely, HandlerEnter, CloseStore, HandlerLeave,
     DestroyLock, ExitProcess, HandlerStep
<1>3. ASSUME NEW c \in Client PROVE ~Quit(c) /\ ~BrokenPipe(c)
  BY DEF CalmInv, Quiet, Together, Quit, BrokenPipe, ServerGone
<1> QED BY <1>1, <1>2, <1>3

(* A step of client c, given where it takes it. *)
LEMMA ClientCalm ==
  ASSUME CalmInv, SessionInv', NEW c \in Client,
         UNCHANGED <<w, srv, db, handler, budget>>,
         \A d \in Client \ {c} : cl'[d] = cl[d],
         cl'[c].pc = "gone" => w[c].pc = "done",
         w[c].pc = "done" => cl'[c].pc \in {"bye", "gone"}
  PROVE  CalmInv'
<1>1. Quiet'
  BY DEF CalmInv, Quiet
<1>2. Together'
  BY DEF CalmInv, Together
<1> QED BY <1>1, <1>2 DEF CalmInv

(* The clients' calls and receipts. *)
LEMMA ClientStepCalm ==
  ASSUME CalmInv, SessionInv', NEW c \in Client,
         \/ Connect(c) \/ get(c) \/ set(c) \/ del(c) \/ Exit(c) \/ ClientReceives(c)
  PROVE  CalmInv'
<1>1. UNCHANGED <<w, srv, db, handler, budget>>
  BY DEF Connect, get, set, del, Call, Exit, ClientReceives, ClientRecvCode,
     ClientRecvLength, ClientRecvValue, ClientRecvBye, ClientRecv, serverVars
<1>2. ClientTyped(cl[c]) /\ DOMAIN cl = Client
  BY DEF CalmInv, SessionInv, Shape, Local, Connection
<1>3. \A d \in Client \ {c} : cl'[d] = cl[d]
  BY <1>2 DEF Connect, get, set, del, Call, Exit, ClientReceives, ClientRecvCode,
     ClientRecvLength, ClientRecvValue, ClientRecvBye, ClientRecv
<1>4. CASE ClientRecvBye(c)
  <2>1. cl[c].pc = "bye" /\ cl'[c].pc = "gone" /\ (back[c] # <<>> \/ ServerGone(c))
    BY <1>2, <1>4 DEF ClientRecvBye, ClientTyped
  <2>2. w[c].pc = "done"
    BY <2>1, InSession DEF Session, Leaving, ServerGone, CalmInv, Quiet
  <2> QED BY <1>1, <1>3, <2>1, <2>2, ClientCalm
<1>5. CASE Connect(c) \/ get(c) \/ set(c) \/ del(c) \/ Exit(c)
  <2>1. cl[c].pc \in {"out", "idle"} /\ cl'[c].pc \in {"idle", "answer", "bye"}
    BY <1>2, <1>5 DEF Connect, get, set, del, Call, Exit, ClientTyped
  <2>2. w[c].pc # "done"
    BY <2>1 DEF CalmInv, Together
  <2> QED BY <1>1, <1>3, <2>1, <2>2, ClientCalm
<1>6. CASE ClientRecvCode(c) \/ ClientRecvLength(c) \/ ClientRecvValue(c)
  <2>1. cl[c].pc \in {"answer", "length", "value"}
    BY <1>6 DEF ClientRecvCode, ClientRecvLength, ClientRecvValue, ClientRecv
  <2>2. w[c].pc # "done"
    BY <2>1 DEF CalmInv, Together
  <2>3. cl'[c].pc # "gone"
    <3>1. \A r : Result(r).pc = "idle"
      BY DEF Result
    <3>2. \A x \in {"length", "value"} : [cl[c] EXCEPT !.pc = x].pc = x
      BY <1>2 DEF ClientTyped
    <3>3. \A x : Decode(c, x).pc \in {"idle", "length"}
      BY <3>1, <3>2 DEF Decode
    <3>4. CASE ClientRecvCode(c)
      BY <1>2, <3>1, <3>3, <3>4 DEF ClientRecvCode, ClientRecv
    <3>5. CASE ClientRecvLength(c)
      BY <1>2, <3>1, <3>2, <3>5 DEF ClientRecvLength, ClientRecv
    <3>6. CASE ClientRecvValue(c)
      BY <1>2, <3>1, <3>6 DEF ClientRecvValue, ClientRecv
    <3> QED BY <1>6, <3>4, <3>5, <3>6
  <2> QED BY <1>1, <1>3, <2>2, <2>3, ClientCalm
<1> QED BY <1>4, <1>5, <1>6 DEF ClientReceives

(* A step of the worker of c, given where it takes it. *)
LEMMA WorkerCalm ==
  ASSUME CalmInv, SessionInv', NEW c \in Client,
         UNCHANGED <<cl, srv, db, handler, budget>>, w[c].pc # "done",
         \A d \in Client \ {c} : w'[d] = w[d],
         w'[c].pc = "done" => cl[c].pc \in {"bye", "gone"}
  PROVE  CalmInv'
<1>1. Quiet'
  BY DEF CalmInv, Quiet
<1>2. Together'
  BY DEF CalmInv, Together
<1> QED BY <1>1, <1>2 DEF CalmInv

(* What a send does in the calm. *)
LEMMA CalmSend ==
  ASSUME CalmInv, NEW c \in Client, NEW at, NEW x, NEW code, NEW next,
         Send(c, at, x, code, next), at # "done"
  PROVE  /\ UNCHANGED <<cl, srv, store, main, db, handler, budget>> /\ w[c].pc = at
         /\ \A d \in Client \ {c} : w'[d] = w[d]
         /\ w'[c].pc = next
<1>1. w[c].pc = at /\ peer[c] = "up"
  BY InSession DEF Send, Step
<1>2. DOMAIN w = Client /\ WorkerTyped(w[c])
  BY DEF CalmInv, SessionInv, Shape, Local, Connection
<1>3. UNCHANGED <<cl, srv, store, main, db, handler, budget>> /\ w' = Sent(c, code, next)
  BY <1>1 DEF Send, clientVars
<1>4. (\A d \in Client \ {c} : w'[d] = w[d]) /\ w'[c].pc = next
  <2>1. CASE next = "code"
    BY <1>2, <1>3, <2>1 DEF Sent
  <2>2. CASE next # "code"
    BY <1>2, <1>3, <2>2 DEF Sent, WorkerTyped
  <2> QED BY <2>1, <2>2
<1> QED BY <1>1, <1>3, <1>4

(* The receipts of a worker: there is something to receive, or it waits. *)
LEMMA RecvCalm ==
  ASSUME CalmInv, SessionInv', NEW c \in Client,
         \/ RecvCode(c) \/ GetRecvKey(c) \/ SetRecvKey(c) \/ SetRecvValue(c)
         \/ DelRecvKey(c)
  PROVE  CalmInv' /\ UNCHANGED <<cl, store, eff>>
<1> USE DEF RecvCode, GetRecvKey, SetRecvKey, SetRecvValue, DelRecvKey, RecvWord, RecvBytes
<1>1. w[c].pc # "done"
  BY Zenon DEF Step
<1>2. ~EndOfFile(c) /\ ~Broken(c)
  BY <1>1, InSession, Zenon DEF EndOfFile, Broken
<1>3. UNCHANGED <<cl, store, eff, srv, db, handler, budget>>
  BY <1>2, Zenon DEF clientVars, serverVars, history
<1>4. DOMAIN w = Client /\ WorkerTyped(w[c])
  BY Zenon DEF CalmInv, SessionInv, Shape, Local, Connection
<1>5. \A d \in Client \ {c} : w'[d] = w[d]
  BY <1>2, <1>4, Zenon
<1>6. w'[c].pc # "done"
  <2>1. \A x : Branch(x) \in {"getLength", "setLength", "delLength", "exit", "code"}
    BY Zenon DEF Branch
  <2>2. "pc" \in DOMAIN w[c]
    BY <1>4, Zenon DEF WorkerTyped
  <2>3. CASE RecvCode(c)
    <3>1. PICK x : w' = [w EXCEPT ![c].code = x, ![c].pc = Branch(x)]
      BY <1>2, <2>3, Zenon
    <3> QED BY <1>4, <2>1, <3>1, SetWord, Zenon
  <2>4. CASE GetRecvKey(c)
    <3>1. w'[c].pc \in {"getKey", "getLong", "getEnter"}
      BY <1>2, <1>4, <2>2, <2>4, Zenon
    <3> QED BY <3>1, Zenon
  <2>5. CASE SetRecvKey(c)
    <3>1. w'[c].pc \in {"setKey", "setValueLength"}
      BY <1>2, <1>4, <2>2, <2>5, Zenon
    <3> QED BY <3>1, Zenon
  <2>6. CASE SetRecvValue(c)
    <3>1. w'[c].pc \in {"setValue", "setKeyLong", "setValueLong", "setEnter"}
      BY <1>2, <1>4, <2>2, <2>6, Zenon
    <3> QED BY <3>1, Zenon
  <2>7. CASE DelRecvKey(c)
    <3>1. w'[c].pc \in {"delKey", "delLong", "delEnter"}
      BY <1>2, <1>4, <2>2, <2>7, Zenon
    <3> QED BY <3>1, Zenon
  <2> QED BY <2>3, <2>4, <2>5, <2>6, <2>7, Zenon
<1> QED BY <1>1, <1>3, <1>5, <1>6, WorkerCalm, Zenon

(* Entering and leaving the critical section. *)
LEMMA LockCalm ==
  ASSUME CalmInv, SessionInv', NEW c \in Client, NEW at, NEW next,
         WorkerEnter(c, at, next) \/ WorkerLeave(c, at, next), at # "done", next # "done"
  PROVE  CalmInv' /\ UNCHANGED <<cl, store, eff>>
<1>1. /\ UNCHANGED <<cl, store, eff, srv, db, handler, budget>> /\ w[c].pc = at
      /\ w' = [w EXCEPT ![c].pc = next]
  BY DEF WorkerEnter, WorkerLeave, Step, clientVars, history
<1>2. DOMAIN w = Client /\ WorkerTyped(w[c])
  BY DEF CalmInv, SessionInv, Shape, Local, Connection
<1>3. w'[c].pc = next /\ \A d \in Client \ {c} : w'[d] = w[d]
  BY <1>1, <1>2, SetPc
<1> QED BY <1>1, <1>3, WorkerCalm

(* Answers: a worker ends only when its client has said good bye. *)
LEMMA AnswerCalm ==
  ASSUME CalmInv, SessionInv', NEW c \in Client,
         GetAnswer(c) \/ SetAnswer(c) \/ DelAnswer(c) \/ WorkerExit(c)
  PROVE  CalmInv' /\ UNCHANGED <<cl, store, eff>>
<1>1. ASSUME NEW at, NEW x, NEW code, NEW next, Send(c, at, x, code, next), UNCHANGED history,
             at # "done", next = "done" => at = "exit"
      PROVE  CalmInv' /\ UNCHANGED <<cl, store, eff>>
  <2>1. /\ UNCHANGED <<cl, srv, store, db, handler, budget>> /\ w[c].pc = at
        /\ (\A d \in Client \ {c} : w'[d] = w[d]) /\ w'[c].pc = next
    BY <1>1, CalmSend
  <2>2. next = "done" => cl[c].pc = "bye"
    <3>1. Session(cl[c], w[c], wire[c], back[c], peer[c], eff[c])
      BY <1>1, <2>1, InSession
    <3> QED BY <1>1, <2>1, <3>1 DEF Session, Asking, KeyOnTheWay, PairOnTheWay, Answering,
               AnsweringLength, AnsweringValue, Leaving
  <2> QED BY <1>1, <2>1, <2>2, WorkerCalm DEF history
<1> QED BY <1>1 DEF GetAnswer, SetAnswer, DelAnswer, WorkerExit, SendAnswer

-----------------------------------------------------------------------------
(* The moment at which a request takes effect. *)

(* A refused request changes nothing and earns the refusal. *)
LEMMA RefusalDoes ==
  ASSUME CalmInv, SessionInv', NEW c \in Client,
         GetTooLong(c) \/ SetTooLong(c) \/ DelTooLong(c)
  PROVE  CalmInv' /\ KV!Do(c)
<1>1. ASSUME NEW at, NEW x, NEW refusal, SendRefusal(c, at, x, refusal),
             \/ at \in {"getLong", "delLong", "setKeyLong"} /\ refusal = "key too long"
             \/ at = "setValueLong" /\ refusal = "value too long"
      PROVE  CalmInv' /\ KV!Do(c)
  <2>1. /\ Send(c, at, x, x, "code") /\ at # "done"
        /\ eff' = [eff EXCEPT ![c] = refusal]
    BY <1>1 DEF SendRefusal
  <2>2. /\ UNCHANGED <<cl, srv, store, db, handler, budget>> /\ w[c].pc = at
        /\ (\A d \in Client \ {c} : w'[d] = w[d]) /\ w'[c].pc = "code"
    BY <2>1, CalmSend
  <2>3. CalmInv'
    BY <2>1, <2>2, WorkerCalm
  <2>4. Session(cl[c], w[c], wire[c], back[c], peer[c], eff[c])
    BY <2>1, <2>2, InSession
  <2>5. /\ cl[c].pc = "answer" /\ cl[c].req \in Request /\ eff[c] = "none"
        /\ at \in {"getLong", "delLong", "setKeyLong"} <=> KeyLen(cl[c].req.key) > MAX_STR_LEN
        /\ at = "setValueLong" =>
             cl[c].req.op = "set" /\ ValueLen(cl[c].req.value) > MAX_STR_LEN
    BY <1>1, <2>2, <2>4, HasRequest, ZenonT(40)
  <2>6. cl[c].req # NoRequest
    BY <2>5, ServiceAssumption
  <2>7. KV!Do(c)
    BY <1>1, <2>1, <2>2, <2>5, <2>6 DEF KV!Do
  <2> QED BY <2>3, <2>7
<1> QED BY <1>1 DEF GetTooLong, SetTooLong, DelTooLong

(* A call of myjql does what was asked for, and finds what is there. *)
LEMMA MyjqlDoes ==
  ASSUME CalmInv, SessionInv', NEW c \in Client, NEW at, NEW after, NEW answer, NEW next,
         Myjql(c, at, after, answer, next), next # "done",
         \/ /\ at = "getCall" /\ after = store /\ answer = store[w[c].key]
         \/ /\ at = "setCall" /\ after = [store EXCEPT ![w[c].key] = w[c].value]
            /\ answer = "ok"
         \/ /\ at = "delCall" /\ after = [store EXCEPT ![w[c].key] = NoValue]
            /\ answer = "ok"
  PROVE  CalmInv' /\ KV!Do(c)
<1>1. db # "closed"
  BY DEF CalmInv, Quiet
<1>2. /\ UNCHANGED <<cl, srv, db, handler, budget>> /\ w[c].pc = at /\ store' = after
      /\ w' = [w EXCEPT ![c].pc = next,
                        ![c].value = IF at = "getCall" THEN answer ELSE @]
      /\ eff' = [eff EXCEPT ![c] = IF answer = NoValue THEN "missing" ELSE answer]
  BY <1>1 DEF Myjql, Step, clientVars
<1>3. DOMAIN w = Client /\ "pc" \in DOMAIN w[c]
  BY DEF CalmInv, SessionInv, Shape, Local, Connection, WorkerTyped
<1>4. w'[c].pc = next /\ \A d \in Client \ {c} : w'[d] = w[d]
  BY <1>2, <1>3
<1>5. CalmInv'
  BY <1>2, <1>4, WorkerCalm
<1>6. Session(cl[c], w[c], wire[c], back[c], peer[c], eff[c])
  BY <1>2, InSession
<1>7. /\ cl[c].pc = "answer" /\ cl[c].req \in Request /\ eff[c] = "none"
      /\ cl[c].req.op = CASE at \in {"getLong", "getCall"} -> "get"
                          [] at \in {"delLong", "delCall"} -> "del"
                          [] OTHER -> "set"
      /\ ~(KeyLen(cl[c].req.key) > MAX_STR_LEN) /\ w[c].key = cl[c].req.key
      /\ at = "setCall" =>
           w[c].value = cl[c].req.value /\ ~(ValueLen(cl[c].req.value) > MAX_STR_LEN)
  BY <1>2, <1>6, HasRequest
<1>8. cl[c].req # NoRequest /\ "ok" # NoValue
  BY <1>7, ServiceAssumption
<1>9. CASE at = "getCall"
  <2>1. cl[c].req.op = "get"
    BY <1>7, <1>9
  <2> QED BY <1>2, <1>5, <1>7, <1>8, <1>9, <2>1 DEF KV!Do, KV!Effect, KV!Answer
<1>10. CASE at = "setCall"
  <2>1. cl[c].req.op = "set"
    BY <1>7, <1>10
  <2> QED BY <1>2, <1>5, <1>7, <1>8, <1>10, <2>1 DEF KV!Do, KV!Effect, KV!Answer
<1>11. CASE at = "delCall"
  <2>1. cl[c].req.op = "del"
    BY <1>7, <1>11
  <2> QED BY <1>2, <1>5, <1>7, <1>8, <1>11, <2>1 DEF KV!Do, KV!Effect, KV!Answer
<1> QED BY <1>9, <1>10, <1>11

(* A step of a worker is the moment of its request, or nothing to be seen. *)
LEMMA WorkerRefines ==
  ASSUME CalmInv, SessionInv', NEW c \in Client, InstanceThread(c)
  PROVE  CalmInv' /\ (KV!Do(c) \/ UNCHANGED <<cl, store, eff>>)
<1>1. CASE GetLocked(c)
  BY <1>1, LockCalm, MyjqlDoes DEF GetLocked
<1>2. CASE SetLocked(c)
  BY <1>2, LockCalm, MyjqlDoes DEF SetLocked
<1>3. CASE DelLocked(c)
  BY <1>3, LockCalm, MyjqlDoes DEF DelLocked
<1> QED BY <1>1, <1>2, <1>3, RecvCalm, AnswerCalm, RefusalDoes DEF InstanceThread

-----------------------------------------------------------------------------
(* The calls and returns of the clients. *)

(* A call. *)
LEMMA CallRefines ==
  ASSUME CalmInv, NEW c \in Client, NEW r \in Request, Call(c, r)
  PROVE  KV!Call(c, r)
<1>1. /\ cl[c].pc = "idle" /\ eff' = [eff EXCEPT ![c] = "none"] /\ store' = store
      /\ DOMAIN cl = Client
  BY DEF Call, serverVars, CalmInv, SessionInv, Shape
<1>2. /\ cl'[c].pc = "answer" /\ cl'[c].req = r /\ cl'[c].res = "none"
      /\ \A d \in Client \ {c} : cl'[d] = cl[d]
  BY <1>1 DEF Call
<1> QED BY <1>1, <1>2 DEF KV!Call

(* The receipt of an answer: the call returns what it has earned, or goes on. *)
LEMMA ReceiveRefines ==
  ASSUME CalmInv, NEW c \in Client,
         ClientRecvCode(c) \/ ClientRecvLength(c) \/ ClientRecvValue(c)
  PROVE  /\ UNCHANGED <<store, eff>>
         /\ \/ KV!Return(c)
            \/ /\ cl[c].pc \in {"answer", "length"} /\ cl'[c].pc \in {"length", "value"}
               /\ cl'[c].req = cl[c].req /\ cl'[c].res = cl[c].res
               /\ \A d \in Client \ {c} : cl'[d] = cl[d]
<1>1. UNCHANGED <<store, eff>> /\ cl[c].pc \in {"answer", "length", "value"}
  BY DEF ClientRecvCode, ClientRecvLength, ClientRecvValue, ClientRecv, serverVars, history
<1>2. DOMAIN cl = Client /\ ClientTyped(cl[c])
  BY DEF CalmInv, SessionInv, Shape, Local, Connection
<1>3. w[c].pc # "done" /\ ~ServerGone(c)
  BY <1>1 DEF CalmInv, Together, Quiet, ServerGone
<1>4. Session(cl[c], w[c], wire[c], back[c], peer[c], eff[c])
  BY <1>3, InSession
<1>5. cl[c].req \in Request
  BY <1>1, <1>4 DEF Session
<1>6. ASSUME eff[c] # "none", cl' = [cl EXCEPT ![c] = Result(eff[c])]
      PROVE  KV!Return(c)
  <2>1. /\ cl'[c].pc = "idle" /\ cl'[c].res = eff[c]
        /\ \A d \in Client \ {c} : cl'[d] = cl[d]
    BY <1>2, <1>6 DEF Result
  <2>2. cl[c].req # NoRequest
    BY <1>5, ServiceAssumption
  <2> DEFINE call == [d \in Client |-> IF cl[d].pc \in {"answer", "length", "value"}
                                       THEN cl[d].req ELSE NoRequest]
             res == [d \in Client |-> cl[d].res]
  <2>3. call[c] # NoRequest /\ eff[c] # "none"
    BY <1>1, <1>6, <2>2
  <2>4. res' = [res EXCEPT ![c] = eff[c]]
    BY <2>1
  <2>5. call' = [call EXCEPT ![c] = NoRequest]
    BY <2>1
  <2> QED BY <1>1, <2>3, <2>4, <2>5 DEF KV!Return
<1>7. ASSUME NEW x \in {"length", "value"}, cl' = [cl EXCEPT ![c] = [cl[c] EXCEPT !.pc = x]]
      PROVE  /\ cl'[c].pc = x /\ cl'[c].req = cl[c].req /\ cl'[c].res = cl[c].res
             /\ \A d \in Client \ {c} : cl'[d] = cl[d]
  BY <1>2, <1>7 DEF ClientTyped
<1>8. CASE ClientRecvCode(c)
  <2>1. /\ cl[c].pc = "answer" /\ back[c] # <<>>
        /\ cl' = [cl EXCEPT ![c] = Decode(c, Head(back[c]))]
    BY <1>3, <1>8 DEF ClientRecvCode, ClientRecv
  <2>2. /\ eff[c] # "none"
        /\ \/ Decode(c, Head(back[c])) = Result(eff[c])
           \/ Decode(c, Head(back[c])) = [cl[c] EXCEPT !.pc = "length"]
    BY <1>4, <2>1, Decoded
  <2> QED BY <1>1, <1>6, <1>7, <2>1, <2>2
<1>9. CASE ClientRecvLength(c)
  <2>1. cl[c].pc = "length" /\ cl' = [cl EXCEPT ![c] = [cl[c] EXCEPT !.pc = "value"]]
    BY <1>3, <1>9 DEF ClientRecvLength, ClientRecv
  <2> QED BY <1>1, <1>7, <2>1
<1>10. CASE ClientRecvValue(c)
  <2>1. /\ cl[c].pc = "value" /\ back[c] # <<>>
        /\ cl' = [cl EXCEPT ![c] = Result(Head(back[c]))]
    BY <1>3, <1>10 DEF ClientRecvValue, ClientRecv
  <2>2. Head(back[c]) = eff[c] /\ eff[c] \in Value
    BY <1>4, <2>1, ValueArrives
  <2>3. eff[c] # "none"
    BY <2>2, ServiceAssumption
  <2> QED BY <1>1, <1>6, <2>1, <2>2, <2>3
<1> QED BY <1>8, <1>9, <1>10

-----------------------------------------------------------------------------
(* The server starts in the calm when nothing is to come that could disturb it. *)
LEMMA InitCalm ==
  ASSUME MaxSignals = 0, MaxQuits = 0, MaxRefused = 0, Init
  PROVE  CalmInv /\ KV!Init
<1>1. Quiet
  BY DEF Init, Quiet
<1>2. Together
  BY DEF Init, Together
<1>3. KV!Init
  BY DEF Init, KV!Init
<1> QED BY <1>1, <1>2, <1>3, InitSessionInv DEF CalmInv

(* What the clients of the map see. *)
view ==
  <<store,
    [c \in Client |-> IF cl[c].pc \in {"answer", "length", "value"} THEN cl[c].req
                      ELSE NoRequest],
    eff,
    [c \in Client |-> cl[c].res]>>

(* A step that leaves the calls and their results alone is none of the map. *)
LEMMA NothingSeen ==
  ASSUME UNCHANGED <<store, eff>>,
         \A c \in Client :
           /\ cl'[c].res = cl[c].res
           /\ cl'[c].pc \in {"answer", "length", "value"}
                <=> cl[c].pc \in {"answer", "length", "value"}
           /\ cl[c].pc \in {"answer", "length", "value"} => cl'[c].req = cl[c].req
  PROVE  UNCHANGED view
BY DEF view

(* Every step of the server is a step of the map or is not seen. *)
LEMMA NextCalm ==
  ASSUME CalmInv, [Next]_vars
  PROVE  CalmInv' /\ (KV!Next \/ UNCHANGED view)
<1>1. SessionInv'
  BY NextSessionInv DEF CalmInv
<1>2. CASE UNCHANGED vars
  <2>1. UNCHANGED <<cl, w, store, eff, srv, db, handler, budget>>
    BY <1>2 DEF vars, serverVars, history
  <2> QED BY <1>1, <2>1, NothingSeen DEF CalmInv, Quiet, Together
<1>3. ASSUME NEW c \in Client, get(c) \/ set(c) \/ del(c)
      PROVE  CalmInv' /\ KV!Next
  <2>1. PICK r \in Request : Call(c, r)
    BY <1>3 DEF get, set, del
  <2> QED BY <1>1, <1>3, <2>1, ClientStepCalm, CallRefines DEF KV!Next
<1>4. ASSUME NEW c \in Client, Connect(c) \/ Exit(c) \/ ClientRecvBye(c)
      PROVE  CalmInv' /\ UNCHANGED view
  <2>1. UNCHANGED <<store, eff>>
    BY <1>4 DEF Connect, Exit, ClientRecvBye, serverVars, history
  <2>2. DOMAIN cl = Client /\ ClientTyped(cl[c])
    BY DEF CalmInv, SessionInv, Shape, Local, Connection
  <2>3. /\ cl[c].pc \in {"out", "idle", "bye"} /\ cl'[c].pc \in {"idle", "bye", "gone"}
        /\ cl'[c].res = cl[c].res /\ \A d \in Client \ {c} : cl'[d] = cl[d]
    BY <1>4, <2>2 DEF Connect, Exit, ClientRecvBye, ClientTyped
  <2>4. UNCHANGED view
    BY <2>1, <2>3, NothingSeen
  <2> QED BY <1>1, <1>4, <2>4, ClientStepCalm DEF ClientReceives
<1>5. ASSUME NEW c \in Client,
             ClientRecvCode(c) \/ ClientRecvLength(c) \/ ClientRecvValue(c)
      PROVE  CalmInv' /\ (KV!Next \/ UNCHANGED view)
  <2>1. KV!Return(c) => KV!Next
    BY DEF KV!Next
  <2>2. KV!Return(c) \/ UNCHANGED view
    BY <1>5, ReceiveRefines, NothingSeen
  <2> QED BY <1>1, <1>5, <2>1, <2>2, ClientStepCalm DEF ClientReceives
<1>6. ASSUME NEW c \in Client, InstanceThread(c)
      PROVE  CalmInv' /\ (KV!Next \/ UNCHANGED view)
  <2>1. KV!Do(c) => KV!Next
    BY DEF KV!Next
  <2>2. UNCHANGED <<cl, store, eff>> => UNCHANGED view
    BY DEF view
  <2> QED BY <1>1, <1>6, <2>1, <2>2, WorkerRefines
<1>7. ASSUME NEW c \in Client, Accept(c) PROVE CalmInv' /\ UNCHANGED view
  <2>1. /\ UNCHANGED <<cl, store, eff, srv, db, handler, budget>> /\ w[c].pc = "none"
        /\ w' = [w EXCEPT ![c].pc = "code"]
    BY <1>7 DEF Accept, clientVars, serverVars, history, CalmInv, Quiet
  <2>2. DOMAIN w = Client /\ WorkerTyped(w[c])
    BY DEF CalmInv, SessionInv, Shape, Local, Connection
  <2>3. w'[c].pc = "code" /\ \A d \in Client \ {c} : w'[d] = w[d]
    BY <2>1, <2>2, SetPc
  <2> QED BY <1>1, <2>1, <2>3, WorkerCalm DEF view
<1>8. CASE Listen \/ OpenStore
  <2>1. UNCHANGED <<cl, w, store, eff, srv, handler, budget>> /\ db' # "closed"
    BY <1>8 DEF Listen, OpenStore, clientVars, history, CalmInv, Quiet
  <2> QED BY <1>1, <2>1 DEF CalmInv, Quiet, Together, view
<1>9. ASSUME NEW c \in Client, ResetArrives(c) PROVE CalmInv' /\ UNCHANGED view
  <2>1. UNCHANGED <<cl, w, store, eff, srv, db, handler, budget>>
    BY <1>9 DEF ResetArrives, clientVars, serverVars, history
  <2> QED BY <1>1, <2>1 DEF CalmInv, Quiet, Together, view
<1> QED BY <1>2, <1>3, <1>4, <1>5, <1>6, <1>7, <1>8, <1>9, NoFaults DEF Next, ClientReceives

(* Without signals, quitting clients and refusals of the system the clients of
   the server see the one map of KeyValue, for every number of clients,
   requests, keys and values. *)
THEOREM OneMap ==
  ASSUME MaxSignals = 0, MaxQuits = 0, MaxRefused = 0
  PROVE  Spec => ImplementsKeyValue
<1>1. Init => CalmInv /\ KV!Init
  BY InitCalm
<1>2. CalmInv /\ [Next]_vars => CalmInv' /\ [KV!Next]_view
  BY NextCalm
<1> QED BY <1>1, <1>2, PTL DEF Spec, ImplementsKeyValue, KV!Spec, KV!vars, view
=============================================================================
