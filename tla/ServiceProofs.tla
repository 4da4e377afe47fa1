---------------------------- MODULE ServiceProofs ----------------------------
(***************************************************************************)
(* The critical section of the server protects the store for every number  *)
(* of clients, requests, signals and failures.                             *)
(***************************************************************************)
EXTENDS Service, FiniteSetTheorems, TLAPS

CriticalPc ==
  {"getCall", "setCall", "delCall", "getLeave", "setLeave", "delLeave"}
HandlerPc == {"none", "enter", "close", "leave", "destroy", "exit"}

(* The records the workers' variables are. *)
Shape ==
  /\ DOMAIN w = Client
  /\ \A c \in Client : "pc" \in DOMAIN w[c]
  /\ handler \in [Thread -> HandlerPc]

(* The threads between entering and leaving the critical section. *)
Critical ==
  {c \in Client : w[c].pc \in CriticalPc}
    \cup {t \in Thread : handler[t] \in {"close", "leave"}}

(* Until the store is closed a thread in its critical section has the lock. *)
LockHeld == db # "closed" => \A t \in Critical : lock = t

(* exit_nicely gets beyond myjql_close only with the store closed, or when the
   process has died. *)
ClosedBehind ==
  srv = "running" /\ db # "closed" =>
    /\ lock # "destroyed"
    /\ \A t \in Thread : handler[t] \notin {"leave", "destroy", "exit"}

(* The store is opened once. *)
OpenedOnce == db # "unopened" => main = "accepting"

MutexInv == Shape /\ LockHeld /\ ClosedBehind /\ OpenedOnce

(* A step that brings nobody into the critical section and leaves lock, handler
   and store alone preserves the invariant. *)
Quiet ==
  /\ UNCHANGED <<handler, lock, db, main>>
  /\ srv' = srv \/ srv' # "running"
  /\ \A c \in Client : w'[c].pc \in CriticalPc => w[c].pc \in CriticalPc

(* A quiet step preserves the invariant. *)
LEMMA QuietInv ==
  ASSUME MutexInv, Shape', Quiet
  PROVE  MutexInv'
<1>1. Critical' \subseteq Critical
  BY DEF Quiet, Critical
<1> QED BY <1>1 DEF MutexInv, Quiet, LockHeld, ClosedBehind, OpenedOnce


(* The top of the worker's loop preserves the invariant: it leads to the receipt
   of a request or back to itself. *)
LEMMA RecvCodeInv ==
  ASSUME MutexInv, NEW c \in Client, RecvCode(c)
  PROVE  MutexInv'
<1> USE DEF RecvCode, RecvWord, Fail
<1>1. UNCHANGED <<handler, lock, db, main, srv>>
  BY DEF serverVars
<1>2. Shape'
  BY <1>1 DEF MutexInv, Shape
<1>3. \A d \in Client \ {c} : w'[d] = w[d]
  BY DEF MutexInv, Shape
<1>4. \A x : Branch(x) \in {"getLength", "setLength", "delLength", "exit", "code"}
  BY DEF Branch
<1>5. w'[c].pc \in {"getLength", "setLength", "delLength", "exit", "code", "done"}
  <2>1. ASSUME NEW x, w' = [w EXCEPT ![c].code = x, ![c].pc = Branch(x)]
        PROVE  w'[c].pc = Branch(x)
    BY <2>1 DEF MutexInv, Shape
  <2>2. CASE w' = [w EXCEPT ![c].pc = "done"]
    BY <2>2 DEF MutexInv, Shape
  <2>3. CASE \E x : w' = [w EXCEPT ![c].code = x, ![c].pc = Branch(x)]
    BY <2>1, <2>3, <1>4
  <2> QED BY <2>2, <2>3
<1> QED BY <1>1, <1>2, <1>3, <1>5, QuietInv DEF Quiet, CriticalPc

(* So does the receipt of the key of a get, *)
LEMMA GetRecvKeyInv ==
  ASSUME MutexInv, NEW c \in Client, GetRecvKey(c)
  PROVE  MutexInv'
<1> USE DEF GetRecvKey, RecvWord, RecvBytes, Fail
<1>1. UNCHANGED <<handler, lock, db, main, srv>>
  BY DEF serverVars
<1>2. Shape'
  BY <1>1 DEF MutexInv, Shape
<1>3. \A d \in Client \ {c} : w'[d] = w[d]
  BY DEF MutexInv, Shape
<1>4. w'[c].pc \in {"getKey", "getLong", "getEnter", "done"}
  BY ZenonT(40) DEF MutexInv, Shape
<1> QED BY <1>1, <1>2, <1>3, <1>4, QuietInv DEF Quiet, CriticalPc

(* of the key of a set, *)
LEMMA SetRecvKeyInv ==
  ASSUME MutexInv, NEW c \in Client, SetRecvKey(c)
  PROVE  MutexInv'
<1> USE DEF SetRecvKey, RecvWord, RecvBytes, Fail
<1>1. UNCHANGED <<handler, lock, db, main, srv>>
  BY DEF serverVars
<1>2. Shape'
  BY <1>1 DEF MutexInv, Shape
<1>3. \A d \in Client \ {c} : w'[d] = w[d]
  BY DEF MutexInv, Shape
<1>4. w'[c].pc \in {"setKey", "setValueLength", "done"}
  BY ZenonT(40) DEF MutexInv, Shape
<1> QED BY <1>1, <1>2, <1>3, <1>4, QuietInv DEF Quiet, CriticalPc

(* of its value, *)
LEMMA SetRecvValueInv ==
  ASSUME MutexInv, NEW c \in Client, SetRecvValue(c)
  PROVE  MutexInv'
<1> USE DEF SetRecvValue, RecvWord, RecvBytes, Fail
<1>1. UNCHANGED <<handler, lock, db, main, srv>>
  BY DEF serverVars
<1>2. Shape'
  BY <1>1 DEF MutexInv, Shape
<1>3. \A d \in Client \ {c} : w'[d] = w[d]
  BY DEF MutexInv, Shape
<1>4. w'[c].pc \in {"setValue", "setKeyLong", "setValueLong", "setEnter", "done"}
  BY ZenonT(40) DEF MutexInv, Shape
<1> QED BY <1>1, <1>2, <1>3, <1>4, QuietInv DEF Quiet, CriticalPc

(* and of the key of a del: none of them is in the critical section. *)
LEMMA DelRecvKeyInv ==
  ASSUME MutexInv, NEW c \in Client, DelRecvKey(c)
  PROVE  MutexInv'
<1> USE DEF DelRecvKey, RecvWord, RecvBytes, Fail
<1>1. UNCHANGED <<handler, lock, db, main, srv>>
  BY DEF serverVars
<1>2. Shape'
  BY <1>1 DEF MutexInv, Shape
<1>3. \A d \in Client \ {c} : w'[d] = w[d]
  BY DEF MutexInv, Shape
<1>4. w'[c].pc \in {"delKey", "delLong", "delEnter", "done"}
  BY ZenonT(40) DEF MutexInv, Shape
<1> QED BY <1>1, <1>2, <1>3, <1>4, QuietInv DEF Quiet, CriticalPc

(* Sending an answer preserves the invariant, even when it kills the process. *)
LEMMA SendInv ==
  ASSUME MutexInv, NEW c \in Client, NEW at, NEW x, NEW code, NEW next,
         next \notin CriticalPc, Send(c, at, x, code, next)
  PROVE  MutexInv'
<1>1. UNCHANGED <<handler, lock, db, main>> /\ (srv' = srv \/ srv' # "running")
  BY DEF Send
<1>2. /\ DOMAIN w' = Client /\ "pc" \in DOMAIN w'[c]
      /\ \A d \in Client \ {c} : w'[d] = w[d]
      /\ w'[c] = w[c] \/ w'[c].pc \in {next, "done"}
  <2> USE DEF MutexInv, Shape
  <2>1. CASE w' = w
    BY <2>1
  <2>2. CASE w' = [w EXCEPT ![c].pc = "done"]
    BY <2>2
  <2>3. CASE w' = Sent(c, code, next) /\ next = "code"
    BY <2>3 DEF Sent
  <2>4. CASE w' = Sent(c, code, next) /\ next # "code"
    BY <2>4 DEF Sent
  <2> QED BY <2>1, <2>2, <2>3, <2>4 DEF Send
<1>3. Shape'
  BY <1>1, <1>2 DEF MutexInv, Shape
<1> QED BY <1>1, <1>2, <1>3, QuietInv DEF Quiet, CriticalPc

(* Every answer of a worker is sent outside the critical section. *)
LEMMA AnswerInv ==
  ASSUME MutexInv, NEW c \in Client,
         \/ GetTooLong(c) \/ GetAnswer(c) \/ SetTooLong(c) \/ SetAnswer(c)
         \/ DelTooLong(c) \/ DelAnswer(c) \/ WorkerExit(c)
  PROVE  MutexInv'
<1> USE SendInv DEF SendAnswer, SendRefusal
<1>1. ASSUME NEW at, NEW x, NEW next, next \notin CriticalPc, SendAnswer(c, at, x, next)
      PROVE  MutexInv'
  BY <1>1
<1>2. ASSUME NEW at, NEW x, NEW e, SendRefusal(c, at, x, e)
      PROVE  MutexInv'
  BY <1>2 DEF CriticalPc
<1>3. CASE GetAnswer(c)
  BY <1>1, <1>3 DEF GetAnswer, CriticalPc
<1>4. CASE SetAnswer(c) \/ DelAnswer(c) \/ WorkerExit(c)
  BY <1>1, <1>4 DEF SetAnswer, DelAnswer, WorkerExit, CriticalPc
<1>5. CASE GetTooLong(c) \/ SetTooLong(c) \/ DelTooLong(c)
  BY <1>2, <1>5 DEF GetTooLong, SetTooLong, DelTooLong
<1> QED BY <1>3, <1>4, <1>5

(* A worker enters the critical section with the lock, or with the store
   closed: before that the lock is not destroyed. *)
LEMMA WorkerEnterInv ==
  ASSUME MutexInv, NEW c \in Client, NEW at, NEW next, WorkerEnter(c, at, next)
  PROVE  MutexInv'
<1> USE DEF WorkerEnter
<1>1. UNCHANGED <<handler, db, main, srv>> /\ srv = "running"
  BY DEF Step, Runs
<1>2. Shape'
  BY <1>1 DEF MutexInv, Shape
<1>3. Critical' \subseteq Critical \cup {c}
  BY <1>1 DEF MutexInv, Shape, Critical
<1>4. CASE db = "closed"
  BY <1>1, <1>2, <1>4 DEF MutexInv, LockHeld, ClosedBehind, OpenedOnce
<1>5. CASE db # "closed"
  <2>1. lock = "free" /\ lock' = c
    BY <1>1, <1>5 DEF MutexInv, ClosedBehind, Enter
  <2>2. Critical = {}
    BY <2>1, <1>5, ServiceAssumption DEF MutexInv, LockHeld, Critical, Thread
  <2>3. c # "destroyed"
    BY ServiceAssumption
  <2> QED BY <1>1, <1>2, <1>3, <2>1, <2>2, <2>3
          DEF MutexInv, LockHeld, ClosedBehind, OpenedOnce
<1> QED BY <1>4, <1>5

(* A worker inside stays inside while the store is called. *)
LEMMA MyjqlInv ==
  ASSUME MutexInv, NEW c \in Client, NEW at \in CriticalPc, NEW after, NEW answer,
         NEW next, Myjql(c, at, after, answer, next)
  PROVE  MutexInv'
<1> USE DEF Myjql
<1>1. UNCHANGED <<handler, lock, db, main>> /\ (srv' = srv \/ srv' # "running")
  OBVIOUS
<1>2. Shape'
  BY <1>1 DEF MutexInv, Shape
<1>3. \A d \in Client \ {c} : w'[d] = w[d]
  BY DEF MutexInv, Shape
<1>4. w[c].pc \in CriticalPc
  BY DEF Step
<1> QED BY <1>1, <1>2, <1>3, <1>4, QuietInv DEF Quiet

(* A worker that leaves gives the lock back and is out. *)
LEMMA WorkerLeaveInv ==
  ASSUME MutexInv, NEW c \in Client, NEW at \in CriticalPc, NEW next,
         next \notin CriticalPc, WorkerLeave(c, at, next)
  PROVE  MutexInv'
<1> USE DEF WorkerLeave
<1>1. UNCHANGED <<handler, db, main, srv>> /\ srv = "running" /\ w[c].pc = at
  BY DEF Step, Runs
<1>2. Shape'
  BY <1>1 DEF MutexInv, Shape
<1>3. Critical' \subseteq Critical /\ handler[c] = "none" /\ c \notin Critical'
  BY <1>1 DEF MutexInv, Shape, Critical, Step, Runs
<1>4. CASE db = "closed"
  BY <1>1, <1>2, <1>4 DEF MutexInv, LockHeld, ClosedBehind, OpenedOnce
<1>5. CASE db # "closed"
  <2>1. lock = c /\ lock' = "free" /\ Critical' = {}
    BY <1>1, <1>3, <1>5 DEF MutexInv, LockHeld, Critical, Leave
  <2> QED BY <1>1, <1>2, <2>1 DEF MutexInv, LockHeld, ClosedBehind, OpenedOnce
<1> QED BY <1>4, <1>5

(* Every step of a worker preserves the invariant. *)
LEMMA InstanceThreadInv ==
  ASSUME MutexInv, NEW c \in Client, InstanceThread(c)
  PROVE  MutexInv'
<1>1. CASE GetLocked(c)
  BY <1>1, WorkerEnterInv, MyjqlInv, WorkerLeaveInv DEF GetLocked, CriticalPc
<1>2. CASE SetLocked(c)
  BY <1>2, WorkerEnterInv, MyjqlInv, WorkerLeaveInv DEF SetLocked, CriticalPc
<1>3. CASE DelLocked(c)
  BY <1>3, WorkerEnterInv, MyjqlInv, WorkerLeaveInv DEF DelLocked, CriticalPc
<1> QED BY <1>1, <1>2, <1>3, RecvCodeInv, GetRecvKeyInv, SetRecvKeyInv, SetRecvValueInv,
           DelRecvKeyInv, AnswerInv DEF InstanceThread

-----------------------------------------------------------------------------
(* The clients and the network touch nothing the invariant speaks of. *)
LEMMA ClientInv ==
  ASSUME MutexInv, NEW c \in Client,
         \/ Connect(c) \/ get(c) \/ set(c) \/ del(c) \/ Exit(c) \/ Quit(c)
         \/ ClientReceives(c) \/ BrokenPipe(c) \/ ResetArrives(c)
  PROVE  MutexInv'
<1>1. UNCHANGED <<w, serverVars>>
  BY DEF Connect, get, set, del, Call, Exit, Quit, ClientReceives, ClientRecvCode,
         ClientRecvLength, ClientRecvValue, ClientRecvBye, ClientRecv, BrokenPipe,
         ResetArrives
<1> QED BY <1>1 DEF serverVars, MutexInv, Shape, LockHeld, Critical, ClosedBehind, OpenedOnce

(* A new worker is outside the critical section. *)
LEMMA AcceptInv ==
  ASSUME MutexInv, NEW c \in Client, Accept(c)
  PROVE  MutexInv'
<1> USE DEF Accept
<1>1. UNCHANGED <<handler, lock, db, main, srv>>
  BY DEF serverVars
<1>2. Shape'
  BY <1>1 DEF MutexInv, Shape
<1>3. \A d \in Client \ {c} : w'[d] = w[d]
  BY DEF MutexInv, Shape
<1>4. w'[c].pc \in {"code", "done"}
  BY DEF MutexInv, Shape
<1> QED BY <1>1, <1>2, <1>3, <1>4, QuietInv DEF Quiet, CriticalPc

(* The main thread opens the store when no handler has got far, or ends the
   process before. *)
LEMMA MainInv ==
  ASSUME MutexInv, Listen \/ OpenStore \/ StartFails
  PROVE  MutexInv'
<1>1. UNCHANGED <<w, handler, lock>> /\ srv = "running"
  BY DEF Listen, OpenStore, StartFails, Runs
<1>2. CASE Listen
  BY <1>1, <1>2 DEF Listen, MutexInv, Shape, LockHeld, Critical, ClosedBehind, OpenedOnce
<1>3. CASE OpenStore
  <2>1. db = "unopened" /\ db' = "open" /\ main' = "accepting"
    BY <1>3 DEF OpenStore, MutexInv, OpenedOnce
  <2> QED BY <1>1, <2>1 DEF MutexInv, Shape, LockHeld, Critical, ClosedBehind, OpenedOnce
<1>4. CASE StartFails
  BY <1>1, <1>4, QuietInv DEF StartFails, Quiet, MutexInv, Shape
<1> QED BY <1>2, <1>3, <1>4

(* SIGINT puts a thread before the critical section of the handler. *)
LEMMA InterruptInv ==
  ASSUME MutexInv, NEW t \in Thread, Interrupt(t)
  PROVE  MutexInv'
<1>1. UNCHANGED <<w, lock, db, main, srv>> /\ handler' = [handler EXCEPT ![t] = "enter"]
  BY DEF Interrupt
<1>2. Shape' /\ handler'[t] = "enter" /\ \A u \in Thread \ {t} : handler'[u] = handler[u]
  BY <1>1 DEF MutexInv, Shape, HandlerPc
<1>3. Critical' \subseteq Critical
  BY <1>1, <1>2 DEF Critical
<1> QED BY <1>1, <1>2, <1>3 DEF MutexInv, LockHeld, ClosedBehind, OpenedOnce

(* The handler takes the lock, closes the store while it has it, and only then
   gives the lock back and destroys it. *)
LEMMA HandlerInv ==
  ASSUME MutexInv, NEW t \in Thread, exit_nicely(t)
  PROVE  MutexInv'
<1>1. ASSUME NEW at, NEW next \in HandlerPc, HandlerStep(t, at, next)
      PROVE  /\ srv = "running" /\ handler[t] = at /\ UNCHANGED <<w, main>>
             /\ Shape' /\ handler'[t] = next
             /\ \A u \in Thread \ {t} : handler'[u] = handler[u]
  BY <1>1 DEF HandlerStep, MutexInv, Shape
<1>2. CASE HandlerEnter(t)
  <2>1. /\ srv = "running" /\ UNCHANGED <<w, main, db, srv>> /\ Shape' /\ Enter(t)
        /\ handler'[t] = "close" /\ \A u \in Thread \ {t} : handler'[u] = handler[u]
    BY <1>1, <1>2 DEF HandlerEnter, HandlerPc
  <2>2. CASE db = "closed"
    BY <2>1, <2>2 DEF MutexInv, LockHeld, ClosedBehind, OpenedOnce
  <2>3. CASE db # "closed"
    <3>1. lock = "free" /\ lock' = t /\ t # "destroyed"
      BY <2>1, <2>3, ServiceAssumption DEF MutexInv, ClosedBehind, Enter, Thread
    <3>2. Critical = {}
      BY <3>1, <2>3, ServiceAssumption DEF MutexInv, LockHeld, Critical, Thread
    <3>3. Critical' \subseteq {t}
      BY <2>1, <3>2 DEF Critical
    <3> QED BY <2>1, <3>1, <3>3 DEF MutexInv, LockHeld, ClosedBehind, OpenedOnce
  <2> QED BY <2>2, <2>3
<1>3. CASE CloseStore(t)
  <2>1. /\ srv = "running" /\ handler[t] = "close" /\ UNCHANGED <<w, main, lock>> /\ Shape'
        /\ handler'[t] = "leave" /\ \A u \in Thread \ {t} : handler'[u] = handler[u]
    BY <1>1, <1>3 DEF CloseStore, HandlerPc
  <2>2. db' = "closed" \/ (srv' = "killed" /\ db' = db)
    BY <1>3 DEF CloseStore
  <2>3. Critical' = Critical
    BY <2>1 DEF Critical
  <2>4. OpenedOnce'
    BY <1>3, <2>1 DEF CloseStore, MutexInv, OpenedOnce
  <2> QED BY <2>1, <2>2, <2>3, <2>4 DEF MutexInv, LockHeld, ClosedBehind
<1>4. ASSUME HandlerLeave(t) \/ DestroyLock(t) \/ ExitProcess(t)
      PROVE  MutexInv'
  <2>1. /\ srv = "running" /\ handler[t] \in {"leave", "destroy", "exit"}
        /\ UNCHANGED <<w, main, db>> /\ Shape'
    BY <1>1, <1>4 DEF HandlerLeave, DestroyLock, ExitProcess, HandlerPc
  <2>2. db = "closed"
    BY <2>1 DEF MutexInv, ClosedBehind
  <2> QED BY <2>1, <2>2 DEF MutexInv, LockHeld, ClosedBehind, OpenedOnce
<1> QED BY <1>2, <1>3, <1>4 DEF exit_nicely

-----------------------------------------------------------------------------
(* The process starts with nobody in the critical section. *)
LEMMA InitMutexInv == Init => MutexInv
<1> SUFFICES ASSUME Init PROVE MutexInv
  OBVIOUS
<1>1. Shape /\ Critical = {}
  BY DEF Init, Shape, HandlerPc, Critical, CriticalPc
<1> QED BY <1>1 DEF Init, MutexInv, LockHeld, ClosedBehind, OpenedOnce

(* Every step preserves the invariant. *)
LEMMA NextMutexInv == MutexInv /\ [Next]_vars => MutexInv'
<1> SUFFICES ASSUME MutexInv, [Next]_vars PROVE MutexInv'
  OBVIOUS
<1>1. CASE UNCHANGED vars
  BY <1>1 DEF vars, serverVars, MutexInv, Shape, LockHeld, Critical, ClosedBehind, OpenedOnce
<1>2. ASSUME NEW c \in Client,
             \/ Connect(c) \/ get(c) \/ set(c) \/ del(c) \/ Exit(c) \/ Quit(c)
             \/ ClientReceives(c) \/ BrokenPipe(c) \/ ResetArrives(c)
             \/ InstanceThread(c) \/ Accept(c)
      PROVE  MutexInv'
  BY <1>2, ClientInv, InstanceThreadInv, AcceptInv
<1>3. ASSUME NEW t \in Thread, Interrupt(t) \/ exit_nicely(t)
      PROVE  MutexInv'
  BY <1>3, InterruptInv, HandlerInv
<1> QED BY <1>1, <1>2, <1>3, MainInv DEF Next

(* At most one thread is in the open store, whatever the workers, the clients,
   the network and the signals do. *)
THEOREM MutualExclusion == Spec => []OneAtATime
<1>1. MutexInv => OneAtATime
  <2> SUFFICES ASSUME MutexInv, db = "open" PROVE Cardinality(Inside) <= 1
    BY DEF OneAtATime
  <2>1. Inside \subseteq {lock}
    BY DEF Inside, MutexInv, LockHeld, Critical, CriticalPc
  <2>2. IsFiniteSet({lock}) /\ Cardinality({lock}) = 1
    BY FS_Singleton
  <2>3. Cardinality(Inside) <= Cardinality({lock})
    BY <2>1, <2>2, FS_Subset
  <2> QED BY <2>2, <2>3
<1> QED BY InitMutexInv, NextMutexInv, <1>1, PTL DEF Spec
=============================================================================
