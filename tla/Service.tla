------------------------------- MODULE Service -------------------------------
(***************************************************************************)
(* The running system: clients (driver/myjqlclient.cpp, driven by          *)
(* main/myjqlshell.cpp), the connections between them and the server,      *)
(* and the server process (main/myjqlserver.c): its main thread, one       *)
(* worker thread per client, the mutex around the store, and the SIGINT    *)
(* handler that stops it.  The store (src/myjql.c) is the map from         *)
(* keys to values that it keeps; what it does to keep it is the subject of *)
(* the other modules.                                                      *)
(*                                                                         *)
(* On the wire every send is one element: an integer (a code or a length)  *)
(* or the bytes of a key or a value; a send is received whole.  What recv  *)
(* and send do when the other side is gone is what TCP on Linux does.      *)
(***************************************************************************)
EXTENDS Naturals, Sequences, FiniteSets

CONSTANTS
  Client,            \* the clients, each with one connection and one worker
  Key, Value,        \* keys and values, the ones only garbage can spell included
  UserKey, UserValue,\* those the clients use, none of length 0
  NoValue,           \* get finds no value
  NoRequest,         \* no call is being served
  Junk,              \* a variable that was never written
  KeyLen(_), ValueLen(_),
  MAX_STR_LEN,
  MaxCalls,          \* bound: requests per client
  MaxSignals,        \* bound: SIGINTs
  MaxQuits,          \* bound: clients that leave without saying so
  MaxRefused         \* bound: sockets, mutexes and threads the system refuses

Request ==
  [op : {"get", "del"}, key : UserKey, value : {NoValue}]
    \cup [op : {"set"}, key : UserKey, value : UserValue]

ASSUME ServiceAssumption ==
  /\ Client \cap {"main", "free", "destroyed"} = {}
  /\ UserKey \subseteq Key /\ UserValue \subseteq Value
  /\ NoValue \notin Value /\ NoRequest \notin Request
  /\ {"none", "ok", "missing"} \cap (Value \cup {NoValue}) = {}
  /\ \A k \in UserKey : KeyLen(k) > 0
  /\ \A v \in UserValue : ValueLen(v) > 0

Thread == Client \cup {"main"}

VARIABLES
  cl,      \* cl[c]: the client: pc, its request, the variable `code`, its result
  calls,   \* calls[c]: requests made so far
  wire,    \* wire[c]: sent by the client, not yet received
  back,    \* back[c]: sent by the worker, not yet received
  peer,    \* peer[c]: the client's end of the connection, as the server sees it
  w,       \* w[c]: the worker thread: pc and the variables code, key and value
  main,    \* pc of the main thread
  handler, \* handler[t]: pc of exit_nicely, when thread t is in the SIGINT handler
  lock,    \* CriticalSection: "free", "destroyed" or the thread that holds it
  db,      \* "unopened", "open" or "closed"
  store,   \* the pairs in the store
  srv,     \* the process: "running", "exited" or "killed"
  budget,  \* signals, quits and refusals that are still to come
  eff,     \* history: what the request of c did, "none" before it has
  late     \* history: clients whose last request took effect on a closed store

clientVars == <<cl, calls>>
serverVars == <<main, handler, lock, db, store, srv>>
history == <<eff, late>>
vars == <<cl, calls, wire, back, peer, w, serverVars, budget, history>>

Init ==
  /\ cl = [c \in Client |-> [pc |-> "out", req |-> NoRequest, code |-> 0, res |-> "none"]]
  /\ calls = [c \in Client |-> 0]
  /\ wire = [c \in Client |-> <<>>]
  /\ back = [c \in Client |-> <<>>]
  /\ peer = [c \in Client |-> "up"]
  /\ w = [c \in Client |-> [pc |-> "none", code |-> Junk, key |-> "none", value |-> "none"]]
  /\ main = "start"
  /\ handler = [t \in Thread |-> "none"]
  /\ lock = "free"
  /\ db = "unopened"
  /\ store = [k \in Key |-> NoValue]
  /\ srv = "running"
  /\ budget = [signals |-> MaxSignals, quits |-> MaxQuits, refused |-> MaxRefused]
  /\ eff = [c \in Client |-> "none"]
  /\ late = {}

-----------------------------------------------------------------------------
(* The clients. *)

(* The connection is gone from where the client sits: the process has ended
   or the worker has closed the socket. *)
ServerGone(c) == srv # "running" \/ w[c].pc = "done"

(* client::client: the connection is made as soon as the server listens; it
   may wait long to be accepted. *)
Connect(c) ==
  /\ cl[c].pc = "out" /\ main # "start" /\ srv = "running"
  /\ cl' = [cl EXCEPT ![c].pc = "idle"]
  /\ UNCHANGED <<calls, wire, back, peer, w, serverVars, budget, history>>

(* What a call sends, and what its variable `code` then holds: the length it
   sent last. *)
Message(r) ==
  CASE r.op = "get" -> <<0, KeyLen(r.key), r.key>>
    [] r.op = "set" -> <<1, KeyLen(r.key), r.key, ValueLen(r.value), r.value>>
    [] r.op = "del" -> <<2, KeyLen(r.key), r.key>>

LastCode(r) == IF r.op = "set" THEN ValueLen(r.value) ELSE KeyLen(r.key)

Call(c, r) ==
  /\ cl[c].pc = "idle" /\ calls[c] < MaxCalls
  /\ cl' = [cl EXCEPT ![c] = [pc |-> "answer", req |-> r, code |-> LastCode(r),
                              res |-> "none"]]
  /\ calls' = [calls EXCEPT ![c] = @ + 1]
  /\ wire' = [wire EXCEPT ![c] = @ \o Message(r)]
  /\ eff' = [eff EXCEPT ![c] = "none"]
  /\ late' = late \ {c}
  /\ UNCHANGED <<back, peer, w, serverVars, budget>>

get(c)       == \E r \in Request : r.op = "get" /\ Call(c, r)
set(c)       == \E r \in Request : r.op = "set" /\ Call(c, r)
del(c)       == \E r \in Request : r.op = "del" /\ Call(c, r)

(* The call returns, or throws. *)
Result(r) == [pc |-> "idle", req |-> NoRequest, code |-> 0, res |-> r]

(* A server that goes closes its end in order if it has accepted the
   connection and left nothing unread.  Otherwise the kernel resets it. *)
ClosedInOrder(c) == w[c].pc # "none" /\ wire[c] = <<>>

(* recv in the client, of x into `code` or into a buffer.  With the server
   gone and nothing left to receive it fails, and the client throws; if the
   server's end was closed in order it returns 0, which the client does not
   tell from success. *)
ClientRecv(c, at, Got(_), Nothing) ==
  /\ cl[c].pc = at
  /\ \/ /\ back[c] # <<>>
        /\ cl' = [cl EXCEPT ![c] = Got(Head(back[c]))]
        /\ back' = [back EXCEPT ![c] = Tail(@)]
     \/ /\ back[c] = <<>> /\ ServerGone(c) /\ ClosedInOrder(c)
        /\ cl' = [cl EXCEPT ![c] = Nothing]
        /\ UNCHANGED back
     \/ /\ back[c] = <<>> /\ ServerGone(c)
        /\ cl' = [cl EXCEPT ![c] = Result("error")]
        /\ UNCHANGED back
  /\ UNCHANGED <<calls, wire, peer, w, serverVars, budget, history>>

(* The second send to a server that has gone raises SIGPIPE in the client,
   which does not handle it. *)
BrokenPipe(c) ==
  /\ cl[c].pc = "answer" /\ ServerGone(c) /\ wire[c] # <<>>
  /\ cl' = [cl EXCEPT ![c].pc = "gone"]
  /\ UNCHANGED <<calls, wire, back, peer, w, serverVars, budget, history>>

(* What a call makes of the code it has, received or stale. *)
Decode(c, code) ==
  CASE cl[c].req.op = "get" /\ code = 0 -> Result("missing")
    [] cl[c].req.op = "get" /\ code = 1 -> [cl[c] EXCEPT !.pc = "length"]
    [] cl[c].req.op # "get" /\ code = 1 -> Result("ok")
    [] code = 2                         -> Result("key too long")
    [] cl[c].req.op = "set" /\ code = 3 -> Result("value too long")
    [] OTHER                            -> Result("error")

ClientRecvCode(c) ==
  ClientRecv(c, "answer", LAMBDA x : Decode(c, x), Decode(c, cl[c].code))

ClientRecvLength(c) ==
  ClientRecv(c, "length", LAMBDA x : [cl[c] EXCEPT !.pc = "value"],
             [cl[c] EXCEPT !.pc = "value"])

(* Fewer bytes than announced are an "incomplete response". *)
ClientRecvValue(c) ==
  ClientRecv(c, "value", LAMBDA x : Result(x), Result("error"))

(* client::~client: 3 is sent and an answer awaited. *)
Exit(c) ==
  /\ cl[c].pc = "idle"
  /\ cl' = [cl EXCEPT ![c].pc = "bye"]
  /\ wire' = [wire EXCEPT ![c] = Append(@, 3)]
  /\ UNCHANGED <<calls, back, peer, w, serverVars, budget, history>>

ClientRecvBye(c) ==
  /\ cl[c].pc = "bye"
  /\ back[c] # <<>> \/ ServerGone(c)
  /\ cl' = [cl EXCEPT ![c].pc = "gone"]
  /\ back' = [back EXCEPT ![c] = <<>>]
  /\ peer' = [peer EXCEPT ![c] = "fin"]
  /\ UNCHANGED <<calls, wire, w, serverVars, budget, history>>

(* The client ends without its destructor: the shell calls exit at the end of
   its input, or the process is killed, perhaps before it has sent all of a
   request.  The server's end sees an end of file, or a reset if an answer
   was left unread. *)
Quit(c) ==
  /\ cl[c].pc \in {"idle", "answer", "length", "value"} /\ srv = "running"
  /\ budget.quits > 0
  /\ budget' = [budget EXCEPT !.quits = @ - 1]
  /\ \E n \in 0 .. Len(wire[c]) : wire' = [wire EXCEPT ![c] = SubSeq(@, 1, n)]
  /\ cl' = [cl EXCEPT ![c].pc = "gone", ![c].res = "none"]
  /\ peer' = [peer EXCEPT ![c] = IF back[c] = <<>> THEN "fin" ELSE "rst"]
  /\ back' = [back EXCEPT ![c] = <<>>]
  /\ UNCHANGED <<calls, w, serverVars, history>>

(* The client's kernel answers what was sent to the closed socket. *)
ResetArrives(c) ==
  /\ peer[c] = "answered"
  /\ peer' = [peer EXCEPT ![c] = "reset"]
  /\ UNCHANGED <<clientVars, wire, back, w, serverVars, budget, history>>

-----------------------------------------------------------------------------
(* The worker threads: InstanceThread. *)

(* Thread t runs its own code: the process lives and t is not in the handler. *)
Runs(t) == srv = "running" /\ handler[t] = "none"

Step(c, at) == Runs(c) /\ w[c].pc = at

(* The peer has closed its end and all it sent has been received: recv
   returns 0.  InstanceThread takes that for success. *)
EndOfFile(c) == wire[c] = <<>> /\ peer[c] \in {"fin", "answered", "reset"}

Broken(c) == wire[c] = <<>> /\ peer[c] = "rst"

(* The error paths: the socket is closed and the thread returns. *)
Fail(c) ==
  /\ w' = [w EXCEPT ![c].pc = "done"]
  /\ UNCHANGED <<clientVars, wire, back, peer, serverVars, budget, history>>

(* recv of an integer into `code`; at the end of the file it keeps the value
   it has, at the very start whatever was on the stack. *)
RecvWord(c, at, next(_)) ==
  /\ Step(c, at)
  /\ \/ /\ wire[c] # <<>>
        /\ w' = [w EXCEPT ![c].code = Head(wire[c]), ![c].pc = next(Head(wire[c]))]
        /\ wire' = [wire EXCEPT ![c] = Tail(@)]
        /\ UNCHANGED <<clientVars, back, peer, serverVars, budget, history>>
     \/ /\ EndOfFile(c)
        /\ \E x \in IF w[c].code = Junk THEN 0 .. 4 ELSE {w[c].code} :
             w' = [w EXCEPT ![c].code = x, ![c].pc = next(x)]
        /\ UNCHANGED <<clientVars, wire, back, peer, serverVars, budget, history>>
     \/ Broken(c) /\ Fail(c)

(* recv of `code` bytes into a buffer just allocated, which at the end of the
   file keeps what malloc left there. *)
RecvBytes(c, at, garbage, Got(_)) ==
  /\ Step(c, at)
  /\ \/ /\ wire[c] # <<>>
        /\ w' = [w EXCEPT ![c] = Got(Head(wire[c]))]
        /\ wire' = [wire EXCEPT ![c] = Tail(@)]
        /\ UNCHANGED <<clientVars, back, peer, serverVars, budget, history>>
     \/ /\ EndOfFile(c)
        /\ \E x \in garbage : w' = [w EXCEPT ![c] = Got(x)]
        /\ UNCHANGED <<clientVars, wire, back, peer, serverVars, budget, history>>
     \/ Broken(c) /\ Fail(c)

GarbageKey(c)   == {k \in Key : KeyLen(k) = w[c].code}
GarbageValue(c) == {v \in Value : ValueLen(v) = w[c].code}

(* The worker after a send: back at the top of the loop the locals of the
   branch are gone, `code` is not. *)
Sent(c, code, next) ==
  [w EXCEPT ![c] = IF next = "code"
                   THEN [pc |-> next, code |-> code, key |-> "none", value |-> "none"]
                   ELSE [@ EXCEPT !.code = code, !.pc = next]]

(* send of x.  A closed peer takes the first one and answers with a reset;
   the next one raises SIGPIPE, which nobody handles. *)
Send(c, at, x, code, next) ==
  /\ Step(c, at)
  /\ \/ /\ peer[c] = "up"
        /\ back' = [back EXCEPT ![c] = Append(@, x)]
        /\ w' = Sent(c, code, next)
        /\ UNCHANGED <<peer, srv>>
     \/ /\ peer[c] \in {"fin", "answered"}
        /\ peer' = [peer EXCEPT ![c] = "answered"]
        /\ w' = Sent(c, code, next)
        /\ UNCHANGED <<back, srv>>
     \/ /\ peer[c] = "reset"
        /\ srv' = "killed"
        /\ UNCHANGED <<back, peer, w>>
     \/ /\ peer[c] = "rst"
        /\ w' = [w EXCEPT ![c].pc = "done"]
        /\ UNCHANGED <<back, peer, srv>>
  /\ UNCHANGED <<clientVars, wire, main, handler, lock, db, store, budget>>

SendAnswer(c, at, x, next) == Send(c, at, x, x, next) /\ UNCHANGED history

SendRefusal(c, at, x, refusal) ==
  /\ Send(c, at, x, x, "code")
  /\ eff' = [eff EXCEPT ![c] = refusal]
  /\ UNCHANGED late

(* Mutant: the mutex is not waited for. *)
EnterAnyway(t) == lock' = t

(* EnterCriticalSection and LeaveCriticalSection.  A destroyed mutex is
   neither taken nor waited for: the call fails, and nobody looks. *)
Enter(t) ==
  /\ lock \in {"free", "destroyed"}
  /\ lock' = IF lock = "free" THEN t ELSE lock

Leave(t) == lock' = IF lock = t THEN "free" ELSE lock

WorkerEnter(c, at, next) ==
  /\ Step(c, at)
  /\ Enter(c)
  /\ w' = [w EXCEPT ![c].pc = next]
  /\ UNCHANGED <<clientVars, wire, back, peer, main, handler, db, store, srv, budget,
                 history>>

WorkerLeave(c, at, next) ==
  /\ Step(c, at)
  /\ Leave(c)
  /\ w' = [w EXCEPT ![c].pc = next]
  /\ UNCHANGED <<clientVars, wire, back, peer, main, handler, db, store, srv, budget,
                 history>>

(* A call of myjql: `after` becomes of the store, `answer` is what it tells.
   A store that has been closed still finds what is in its caches, or the
   process dies of the closed file. *)
Myjql(c, at, after, answer, next) ==
  /\ Step(c, at)
  /\ \/ /\ store' = after
        /\ w' = [w EXCEPT ![c].pc = next, ![c].value = IF at = "getCall" THEN answer
                                                       ELSE @]
        /\ eff' = [eff EXCEPT ![c] = IF answer = NoValue THEN "missing" ELSE answer]
        /\ late' = IF db = "open" THEN late ELSE late \cup {c}
        /\ UNCHANGED srv
     \/ /\ db = "closed"
        /\ srv' = "killed"
        /\ UNCHANGED <<w, store, history>>
  /\ UNCHANGED <<clientVars, wire, back, peer, main, handler, lock, db, budget>>

(* The top of the loop; a code that is none of the four is ignored. *)
Branch(code) ==
  CASE code = 0 -> "getLength"
    [] code = 1 -> "setLength"
    [] code = 2 -> "delLength"
    [] code = 3 -> "exit"
    [] OTHER    -> "code"

RecvCode(c) == RecvWord(c, "code", Branch)

(* get *)
GetRecvKey(c) ==
  \/ RecvWord(c, "getLength", LAMBDA n : "getKey")
  \/ RecvBytes(c, "getKey", GarbageKey(c),
       LAMBDA k : [w[c] EXCEPT !.key = k,
                     !.pc = IF w[c].code > MAX_STR_LEN THEN "getLong" ELSE "getEnter"])

GetTooLong(c) == SendRefusal(c, "getLong", 2, "key too long")

GetLocked(c) ==
  \/ WorkerEnter(c, "getEnter", "getCall")
  \/ Myjql(c, "getCall", store, store[w[c].key], "getLeave")
  \/ WorkerLeave(c, "getLeave", "getAnswer")

(* Mutant: the value is looked up again, outside the critical section. *)
GetAnswerUnlocked(c) ==
  LET v == IF w[c].key \in Key THEN store[w[c].key] ELSE NoValue
  IN  \/ v = NoValue /\ SendAnswer(c, "getAnswer", 0, "code")
      \/ v # NoValue /\ SendAnswer(c, "getAnswer", 1, "getAnswerLength")
      \/ SendAnswer(c, "getAnswerLength", 1, "getAnswerValue")
      \/ /\ Send(c, "getAnswerValue", v, w[c].code, "code")
         /\ UNCHANGED history

GetAnswer(c) ==
  \/ w[c].value = NoValue /\ SendAnswer(c, "getAnswer", 0, "code")
  \/ w[c].value # NoValue /\ SendAnswer(c, "getAnswer", 1, "getAnswerLength")
  \/ SendAnswer(c, "getAnswerLength", ValueLen(w[c].value), "getAnswerValue")
  \/ /\ Send(c, "getAnswerValue", w[c].value, w[c].code, "code")
     /\ UNCHANGED history

(* Mutant: a key that is too long is refused before the value is received. *)
SetRefusesEarly(c) ==
  \/ RecvWord(c, "setLength", LAMBDA n : "setKey")
  \/ RecvBytes(c, "setKey", GarbageKey(c),
       LAMBDA k : [w[c] EXCEPT !.key = k,
                     !.pc = IF w[c].code > MAX_STR_LEN THEN "setKeyLong"
                            ELSE "setValueLength"])

(* set *)
SetRecvKey(c) ==
  \/ RecvWord(c, "setLength", LAMBDA n : "setKey")
  \/ RecvBytes(c, "setKey", GarbageKey(c),
               LAMBDA k : [w[c] EXCEPT !.key = k, !.pc = "setValueLength"])

SetRecvValue(c) ==
  \/ RecvWord(c, "setValueLength", LAMBDA n : "setValue")
  \/ RecvBytes(c, "setValue", GarbageValue(c),
       LAMBDA v : [w[c] EXCEPT !.value = v,
                     !.pc = IF KeyLen(w[c].key) > MAX_STR_LEN THEN "setKeyLong"
                            ELSE IF w[c].code > MAX_STR_LEN THEN "setValueLong"
                            ELSE "setEnter"])

SetTooLong(c) ==
  \/ SendRefusal(c, "setKeyLong", 2, "key too long")
  \/ SendRefusal(c, "setValueLong", 3, "value too long")

(* Mutant: the arguments of myjql_set are swapped. *)
SetSwapped(c) ==
  \/ WorkerEnter(c, "setEnter", "setCall")
  \/ Myjql(c, "setCall", [store EXCEPT ![w[c].key] = w[c].key], "ok", "setLeave")
  \/ WorkerLeave(c, "setLeave", "setAnswer")

SetLocked(c) ==
  \/ WorkerEnter(c, "setEnter", "setCall")
  \/ Myjql(c, "setCall", [store EXCEPT ![w[c].key] = w[c].value], "ok", "setLeave")
  \/ WorkerLeave(c, "setLeave", "setAnswer")

SetAnswer(c) == SendAnswer(c, "setAnswer", 1, "code")

(* del *)
DelRecvKey(c) ==
  \/ RecvWord(c, "delLength", LAMBDA n : "delKey")
  \/ RecvBytes(c, "delKey", GarbageKey(c),
       LAMBDA k : [w[c] EXCEPT !.key = k,
                     !.pc = IF w[c].code > MAX_STR_LEN THEN "delLong" ELSE "delEnter"])

DelTooLong(c) == SendRefusal(c, "delLong", 2, "key too long")

(* Mutant: the critical section is not left. *)
DelKeepsLock(c) ==
  \/ WorkerEnter(c, "delEnter", "delCall")
  \/ Myjql(c, "delCall", [store EXCEPT ![w[c].key] = NoValue], "ok", "delAnswer")

DelLocked(c) ==
  \/ WorkerEnter(c, "delEnter", "delCall")
  \/ Myjql(c, "delCall", [store EXCEPT ![w[c].key] = NoValue], "ok", "delLeave")
  \/ WorkerLeave(c, "delLeave", "delAnswer")

DelAnswer(c) == SendAnswer(c, "delAnswer", 1, "code")

(* exit: the answer, then shutdown and the end of the thread. *)
WorkerExit(c) == SendAnswer(c, "exit", 1, "done")

InstanceThread(c) ==
  \/ RecvCode(c)
  \/ GetRecvKey(c) \/ GetTooLong(c) \/ GetLocked(c) \/ GetAnswer(c)
  \/ SetRecvKey(c) \/ SetRecvValue(c) \/ SetTooLong(c) \/ SetLocked(c) \/ SetAnswer(c)
  \/ DelRecvKey(c) \/ DelTooLong(c) \/ DelLocked(c) \/ DelAnswer(c)
  \/ WorkerExit(c)

-----------------------------------------------------------------------------
(* The main thread and the SIGINT handler. *)

Listen ==
  /\ Runs("main") /\ main = "start"
  /\ main' = "listening"
  /\ UNCHANGED <<clientVars, wire, back, peer, w, handler, lock, db, store, srv, budget,
                 history>>

OpenStore ==
  /\ Runs("main") /\ main = "listening"
  /\ main' = "accepting"
  /\ db' = "open"
  /\ UNCHANGED <<clientVars, wire, back, peer, w, handler, lock, store, srv, budget, history>>

(* No control handler, no socket, no port or no mutex to be had: main returns
   1, which ends the process. *)
StartFails ==
  /\ Runs("main") /\ main \in {"start", "listening"}
  /\ budget.refused > 0
  /\ budget' = [budget EXCEPT !.refused = @ - 1]
  /\ srv' = "exited"
  /\ UNCHANGED <<clientVars, wire, back, peer, w, main, handler, lock, db, store, history>>

(* accept, and a thread for the client; or no thread, and the socket is
   closed again. *)
Accept(c) ==
  /\ Runs("main") /\ main = "accepting"
  /\ cl[c].pc # "out" /\ w[c].pc = "none"
  /\ \/ w' = [w EXCEPT ![c].pc = "code"] /\ UNCHANGED budget
     \/ /\ budget.refused > 0
        /\ budget' = [budget EXCEPT !.refused = @ - 1]
        /\ w' = [w EXCEPT ![c].pc = "done"]
  /\ UNCHANGED <<clientVars, wire, back, peer, serverVars, history>>

Started == {"main"} \cup {c \in Client : w[c].pc \notin {"none", "done"}}

(* SIGINT is sent to the process.  Linux gives it to the main thread, or to
   any other while the main thread is in the handler and so blocks it. *)
Interrupt(t) ==
  /\ srv = "running" /\ budget.signals > 0
  /\ t \in Started /\ handler[t] = "none"
  /\ t = "main" \/ handler["main"] # "none"
  /\ budget' = [budget EXCEPT !.signals = @ - 1]
  /\ handler' = [handler EXCEPT ![t] = "enter"]
  /\ UNCHANGED <<clientVars, wire, back, peer, w, main, lock, db, store, srv, history>>

HandlerStep(t, at, next) ==
  /\ srv = "running" /\ handler[t] = at
  /\ handler' = [handler EXCEPT ![t] = next]
  /\ UNCHANGED <<clientVars, wire, back, peer, w, main, store, budget, history>>

(* Mutant: the store is closed without the mutex. *)
HandlerBarges(t) == HandlerStep(t, "enter", "close") /\ UNCHANGED <<lock, db, srv>>

HandlerEnter(t) == HandlerStep(t, "enter", "close") /\ Enter(t) /\ UNCHANGED <<db, srv>>

(* myjql_close.  Pools that were never opened, or are closed already, have no
   file to write to. *)
CloseStore(t) ==
  /\ HandlerStep(t, "close", "leave")
  /\ \/ db = "open" /\ db' = "closed" /\ UNCHANGED srv
     \/ db # "open" /\ srv' = "killed" /\ UNCHANGED db
     \/ db = "closed" /\ UNCHANGED <<db, srv>>
  /\ UNCHANGED lock

HandlerLeave(t) == HandlerStep(t, "leave", "destroy") /\ Leave(t) /\ UNCHANGED <<db, srv>>

(* A mutex that is held is not destroyed. *)
DestroyLock(t) ==
  /\ HandlerStep(t, "destroy", "exit")
  /\ lock' = IF lock = "free" THEN "destroyed" ELSE lock
  /\ UNCHANGED <<db, srv>>

(* Mutant: exit_nicely returns. *)
ExitReturns(t) == HandlerStep(t, "exit", "none") /\ UNCHANGED <<lock, db, srv>>

ExitProcess(t) ==
  /\ HandlerStep(t, "exit", "exit")
  /\ srv' = "exited"
  /\ UNCHANGED <<lock, db>>

exit_nicely(t) ==
  HandlerEnter(t) \/ CloseStore(t) \/ HandlerLeave(t) \/ DestroyLock(t) \/ ExitProcess(t)

-----------------------------------------------------------------------------
ClientReceives(c) ==
  ClientRecvCode(c) \/ ClientRecvLength(c) \/ ClientRecvValue(c) \/ ClientRecvBye(c)

Next ==
  \/ \E c \in Client :
       \/ Connect(c) \/ get(c) \/ set(c) \/ del(c) \/ Exit(c) \/ Quit(c)
       \/ ClientReceives(c) \/ BrokenPipe(c) \/ ResetArrives(c)
       \/ InstanceThread(c) \/ Accept(c)
  \/ Listen \/ OpenStore \/ StartFails
  \/ \E t \in Thread : Interrupt(t) \/ exit_nicely(t)

(* Every thread that can take a step does so in the end, a client that waits
   for an answer takes it, and the network delivers; nobody has to call, to
   leave or to press Ctrl-C. *)
Fairness ==
  /\ WF_vars(Listen) /\ WF_vars(OpenStore)
  /\ \A c \in Client : /\ WF_vars(Accept(c)) /\ WF_vars(InstanceThread(c))
                       /\ WF_vars(ClientReceives(c)) /\ WF_vars(ResetArrives(c))
  /\ \A t \in Thread : WF_vars(exit_nicely(t))

Spec == Init /\ [][Next]_vars /\ Fairness

-----------------------------------------------------------------------------
WorkerPc ==
  {"none", "code", "exit", "done",
   "getLength", "getKey", "getLong", "getEnter", "getCall", "getLeave", "getAnswer",
   "getAnswerLength", "getAnswerValue",
   "setLength", "setKey", "setValueLength", "setValue", "setKeyLong", "setValueLong",
   "setEnter", "setCall", "setLeave", "setAnswer",
   "delLength", "delKey", "delLong", "delEnter", "delCall", "delLeave", "delAnswer"}

(* Where every thread may be, and what the store may hold. *)
TypeOK ==
  /\ \A c \in Client :
       /\ w[c].pc \in WorkerPc
       /\ w[c].key \in Key \cup {"none"} /\ w[c].value \in Value \cup {NoValue, "none"}
       /\ cl[c].pc \in {"out", "idle", "answer", "length", "value", "bye", "gone"}
       /\ peer[c] \in {"up", "fin", "answered", "reset", "rst"}
  /\ store \in [Key -> Value \cup {NoValue}]
  /\ lock \in Thread \cup {"free", "destroyed"}
  /\ srv \in {"running", "exited", "killed"}

(* Threads inside a call of myjql. *)
Inside ==
  {c \in Client : w[c].pc \in {"getCall", "setCall", "delCall"}}
    \cup {t \in Thread : handler[t] = "close"}

(* As long as the store is open at most one thread is in it, main thread and
   signal handlers included. *)
OneAtATime == db = "open" => Cardinality(Inside) <= 1

(* The part of request r a worker at its pc has not received yet. *)
Remaining(c, r) ==
  LET pc == w[c].pc
      From(n) == SubSeq(Message(r), n, Len(Message(r)))
  IN  CASE pc \in {"none", "code"}                          -> From(1)
        [] pc \in {"getLength", "setLength", "delLength"}   -> From(2)
        [] pc \in {"getKey", "setKey", "delKey"}            -> From(3)
        [] pc = "setValueLength"                            -> From(4)
        [] pc = "setValue"                                  -> From(5)
        [] OTHER                                            -> <<>>

(* Client and worker keep step as long as the process lives: until a request
   has taken effect the worker is in the branch of that request and what is
   left on the wire is exactly what that branch is still to receive; after
   that nothing is left. *)
InStep ==
  srv = "running" =>
    \A c \in Client :
      /\ cl[c].pc \in {"answer", "length", "value"} /\ w[c].pc # "done"
           => wire[c] = IF eff[c] # "none" THEN <<>> ELSE Remaining(c, cl[c].req)
      /\ cl[c].pc = "idle" /\ w[c].pc # "done" => wire[c] = <<>> /\ back[c] = <<>>

(* A call that returns normally has done what it was called for. *)
AckMeansDone == \A c \in Client : cl[c].res = "ok" => eff[c] = "ok"

(* A set or del that was acknowledged is in the store when it is closed, so
   the next server finds it. *)
AckMeansSaved == \A c \in Client : cl[c].res = "ok" => c \notin late

(* The store changes only as some client has asked: the worker sets and
   deletes nothing that was not sent to it. *)
OnlyWhatWasAsked ==
  [][\A k \in Key : store'[k] # store[k] =>
       \E c \in Client : LET r == cl[c].req
                        IN  /\ r # NoRequest
                            /\ r.key = k /\ r.op \in {"set", "del"}
                            /\ store'[k] = r.value]_vars

(* A signal has interrupted thread t while it held the mutex that its handler
   then waits for. *)
WaitsForItself(t) == handler[t] = "enter" /\ lock = t

(* Every call returns, unless some worker waits for itself. *)
CallsReturn ==
  \A c \in Client :
    cl[c].pc = "answer" ~> \/ cl[c].pc \in {"idle", "gone"}
                           \/ \E d \in Client : WaitsForItself(d)

(* Ctrl-C stops the server, whatever else is under way, and a second Ctrl-C
   keeps the first from it in one case only: it interrupts a worker between
   EnterCriticalSection and LeaveCriticalSection. *)
Stops ==
  (handler["main"] # "none")
    ~> (srv # "running" \/ \E c \in Client : WaitsForItself(c))

(* The clients see one map, read and written by one call at a time. *)
KV == INSTANCE KeyValue WITH
        kv   <- store,
        call <- [c \in Client |-> IF cl[c].pc \in {"answer", "length", "value"}
                                  THEN cl[c].req ELSE NoRequest],
        ans  <- eff,
        res  <- [c \in Client |-> cl[c].res],
        Refuses <- LAMBDA r : KeyLen(r.key) > MAX_STR_LEN
                     \/ (r.op = "set" /\ ValueLen(r.value) > MAX_STR_LEN),
        Refusal <- LAMBDA r : IF KeyLen(r.key) > MAX_STR_LEN THEN "key too long"
                             ELSE "value too long"

ImplementsKeyValue == KV!Spec
=============================================================================
