---------------------------- MODULE SessionProofs ----------------------------
(***************************************************************************)
(* Client and worker keep step: whatever the other clients, the signals    *)
(* and the failures do, a worker reads exactly what its client has sent,   *)
(* and the client exactly what its request has earned.                     *)
(*                                                                         *)
(* What one connection may look like is stated of its parts: a, the        *)
(* client's record; q, the worker's; m, what is on its way to the worker;  *)
(* b, what is on its way back; p, the state of the peer; e, what the       *)
(* request has done.                                                       *)
(***************************************************************************)
EXTENDS Service, Facts, TLAPS

(* A get or del that has not taken effect: what the worker has of it and what
   is still on the wire. *)
KeyOnTheWay(q, m, k, code, length, key, long, ready) ==
  \/ q.pc \in {"none", "code"} /\ m = <<code, KeyLen(k), k>>
  \/ q.pc = length /\ m = <<KeyLen(k), k>>
  \/ q.pc = key /\ m = <<k>> /\ q.code = KeyLen(k)
  \/ q.pc = long /\ m = <<>> /\ KeyLen(k) > MAX_STR_LEN
  \/ q.pc \in ready /\ m = <<>> /\ q.key = k /\ ~(KeyLen(k) > MAX_STR_LEN)

(* The same for a set. *)
PairOnTheWay(q, m, k, v) ==
  \/ q.pc \in {"none", "code"} /\ m = <<1, KeyLen(k), k, ValueLen(v), v>>
  \/ q.pc = "setLength" /\ m = <<KeyLen(k), k, ValueLen(v), v>>
  \/ q.pc = "setKey" /\ m = <<k, ValueLen(v), v>> /\ q.code = KeyLen(k)
  \/ q.pc = "setValueLength" /\ m = <<ValueLen(v), v>> /\ q.key = k
  \/ q.pc = "setValue" /\ m = <<v>> /\ q.key = k /\ q.code = ValueLen(v)
  \/ q.pc = "setKeyLong" /\ m = <<>> /\ KeyLen(k) > MAX_STR_LEN
  \/ /\ q.pc = "setValueLong" /\ m = <<>>
     /\ ~(KeyLen(k) > MAX_STR_LEN) /\ ValueLen(v) > MAX_STR_LEN
  \/ /\ q.pc \in {"setEnter", "setCall"} /\ m = <<>> /\ q.key = k /\ q.value = v
     /\ ~(KeyLen(k) > MAX_STR_LEN) /\ ~(ValueLen(v) > MAX_STR_LEN)

Asking(r, q, m, b) ==
  /\ b = <<>>
  /\ \/ /\ r.op = "get"
        /\ KeyOnTheWay(q, m, r.key, 0, "getLength", "getKey", "getLong",
                       {"getEnter", "getCall"})
     \/ /\ r.op = "del"
        /\ KeyOnTheWay(q, m, r.key, 2, "delLength", "delKey", "delLong",
                       {"delEnter", "delCall"})
     \/ r.op = "set" /\ PairOnTheWay(q, m, r.key, r.value)

(* A request that has taken effect and whose first answer is still to be
   received: the answer to come is the one it earned. *)
Answering(r, q, m, b, e) ==
  /\ m = <<>>
  /\ \/ /\ r.op = "get" /\ q.pc \in {"getLeave", "getAnswer"} /\ b = <<>>
        /\ \/ q.value = NoValue /\ e = "missing"
           \/ q.value \in Value /\ e = q.value
     \/ r.op = "set" /\ q.pc \in {"setLeave", "setAnswer"} /\ b = <<>> /\ e = "ok"
     \/ r.op = "del" /\ q.pc \in {"delLeave", "delAnswer"} /\ b = <<>> /\ e = "ok"
     \/ /\ q.pc = "code"
        /\ \/ r.op = "get" /\ e = "missing" /\ b = <<0>>
           \/ r.op # "get" /\ e = "ok" /\ b = <<1>>
           \/ e = "key too long" /\ b = <<2>>
           \/ r.op = "set" /\ e = "value too long" /\ b = <<3>>
     \/ /\ r.op = "get" /\ e \in Value
        /\ \/ q.pc = "getAnswerLength" /\ b = <<1>> /\ q.value = e
           \/ q.pc = "getAnswerValue" /\ b = <<1, ValueLen(e)>> /\ q.value = e
           \/ q.pc = "code" /\ b = <<1, ValueLen(e), e>>

(* A get whose client knows that there is a value. *)
AnsweringLength(r, q, m, b, e) ==
  /\ m = <<>> /\ r.op = "get" /\ e \in Value
  /\ \/ q.pc = "getAnswerLength" /\ b = <<>> /\ q.value = e
     \/ q.pc = "getAnswerValue" /\ b = <<ValueLen(e)>> /\ q.value = e
     \/ q.pc = "code" /\ b = <<ValueLen(e), e>>

AnsweringValue(r, q, m, b, e) ==
  /\ m = <<>> /\ r.op = "get" /\ e \in Value
  /\ \/ q.pc = "getAnswerValue" /\ b = <<>> /\ q.value = e
     \/ q.pc = "code" /\ b = <<e>>

Leaving(q, m, b) ==
  /\ b = <<>>
  /\ \/ q.pc \in {"none", "code"} /\ m = <<3>>
     \/ q.pc = "exit" /\ m = <<>>

(* Client and worker are in step. *)
Session(a, q, m, b, p, e) ==
  /\ p = "up"
  /\ \/ a.pc = "out" /\ q.pc = "none" /\ m = <<>> /\ b = <<>>
     \/ a.pc = "idle" /\ q.pc \in {"none", "code"} /\ m = <<>> /\ b = <<>>
     \/ a.pc = "answer" /\ a.req \in Request /\ e = "none" /\ Asking(a.req, q, m, b)
     \/ /\ a.pc = "answer" /\ a.req \in Request /\ e # "none"
        /\ Answering(a.req, q, m, b, e)
     \/ a.pc = "length" /\ a.req \in Request /\ AnsweringLength(a.req, q, m, b, e)
     \/ a.pc = "value" /\ a.req \in Request /\ AnsweringValue(a.req, q, m, b, e)
     \/ a.pc = "bye" /\ Leaving(q, m, b)

-----------------------------------------------------------------------------
(* A client that goes in the middle of a request leaves a part of it on the
   wire, and the rest is garbage: all that can be said is where keys and
   values are. *)
Unit ==
  {0, 1, 2, 3} \cup {KeyLen(k) : k \in Key} \cup {ValueLen(v) : v \in Value}
    \cup Key \cup Value

KeyAt(m, i) == Len(m) <= i /\ (Len(m) = i => m[i] \in Key)
ValueAt(m, i) == Len(m) <= i /\ (Len(m) = i => m[i] \in Value)
PairAt(m, i) ==
  /\ Len(m) <= i + 2 /\ (Len(m) >= i => m[i] \in Key)
  /\ Len(m) = i + 2 => m[i + 2] \in Value

Stream(pc, m) ==
  /\ m \in Seq(Unit)
  /\ \/ m = <<>>
     \/ /\ pc \in {"none", "code"}
        /\ \/ m[1] \in {0, 2} /\ KeyAt(m, 3)
           \/ m[1] = 1 /\ PairAt(m, 3)
           \/ m[1] = 3 /\ Len(m) = 1
     \/ pc \in {"getLength", "delLength"} /\ KeyAt(m, 2)
     \/ pc \in {"getKey", "delKey"} /\ KeyAt(m, 1)
     \/ pc = "setLength" /\ PairAt(m, 2)
     \/ pc = "setKey" /\ PairAt(m, 1)
     \/ pc = "setValueLength" /\ ValueAt(m, 2)
     \/ pc = "setValue" /\ ValueAt(m, 1)

WorkerTyped(q) ==
  /\ DOMAIN q = {"pc", "code", "key", "value"}
  /\ q.pc \in WorkerPc
  /\ q.key \in Key \cup {"none"} /\ q.value \in Value \cup {NoValue, "none"}
  /\ q.pc \in {"getEnter", "getCall"} => q.key \in Key
  /\ q.pc \in {"setEnter", "setCall"} => q.value \in Value

ClientTyped(a) ==
  /\ DOMAIN a = {"pc", "req", "code", "res"}
  /\ a.pc \in {"out", "idle", "answer", "length", "value", "bye", "gone"}

(* One connection: typed, and, while the process lives and the worker has not
   ended, a stream that its worker can read, in step unless the client has
   gone. *)
Connection(a, q, m, b, p, e, s) ==
  /\ ClientTyped(a) /\ WorkerTyped(q) /\ p \in {"up", "fin", "answered", "reset", "rst"}
  /\ s = "running" /\ q.pc # "done" =>
       Stream(q.pc, m) /\ (a.pc # "gone" => Session(a, q, m, b, p, e))

Shape ==
  /\ DOMAIN cl = Client /\ DOMAIN w = Client /\ DOMAIN eff = Client
  /\ DOMAIN wire = Client /\ DOMAIN back = Client /\ DOMAIN peer = Client
  /\ store \in [Key -> Value \cup {NoValue}]
  /\ lock \in Thread \cup {"free", "destroyed"}
  /\ srv \in {"running", "exited", "killed"}

Local(c) == Connection(cl[c], w[c], wire[c], back[c], peer[c], eff[c], srv)

SessionInv == Shape /\ \A c \in Client : Local(c)

-----------------------------------------------------------------------------
(* What a step of client c or of its worker, or one that touches no
   connection, has to keep: the connection of c. *)
LEMMA OthersKeep ==
  ASSUME SessionInv, Shape', NEW c \in Client, Local(c)',
         srv' = srv \/ srv' # "running",
         \A d \in Client \ {c} :
           /\ cl'[d] = cl[d] /\ w'[d] = w[d] /\ wire'[d] = wire[d]
           /\ back'[d] = back[d] /\ peer'[d] = peer[d] /\ eff'[d] = eff[d]
  PROVE  SessionInv'
<1> SUFFICES ASSUME NEW d \in Client PROVE Local(d)'
  BY DEF SessionInv
<1>1. CASE d = c
  BY <1>1
<1>2. CASE d # c
  BY <1>2 DEF SessionInv, Local, Connection
<1> QED BY <1>1, <1>2

(* A step that leaves every connection alone keeps the invariant. *)
LEMMA AllKeep ==
  ASSUME SessionInv, Shape', srv' = srv \/ srv' # "running",
         UNCHANGED <<cl, w, wire, back, peer, eff>>
  PROVE  SessionInv'
<1> SUFFICES ASSUME NEW d \in Client PROVE Local(d)'
  BY DEF SessionInv
<1> QED BY DEF SessionInv, Local, Connection

-----------------------------------------------------------------------------
(* An empty stream can be read anywhere. *)
LEMMA EmptyStream == \A pc : Stream(pc, <<>>)
BY DEF Stream

(* The parts of a stream as they are read off, one after the other. *)
LEMMA ReadCode ==
  ASSUME NEW m, NEW pc \in {"none", "code"}, Stream(pc, m), m # <<>>
  PROVE  Stream(Branch(Head(m)), Tail(m))
<1>1. m \in Seq(Unit)
  BY DEF Stream
<1>2. CASE m[1] \in {0, 2} /\ KeyAt(m, 3)
  BY <1>1, <1>2, TakeFirst DEF Stream, Branch, KeyAt
<1>3. CASE m[1] = 1 /\ PairAt(m, 3)
  BY <1>1, <1>3, TakeFirst DEF Stream, Branch, PairAt
<1>4. CASE m[1] = 3 /\ Len(m) = 1
  BY <1>1, <1>4, TakeFirst DEF Stream
<1> QED BY <1>2, <1>3, <1>4 DEF Stream

(* The length of a key or a value. *)
LEMMA ReadLength ==
  ASSUME NEW m, m # <<>>
  PROVE  /\ Stream("getLength", m) => Stream("getKey", Tail(m))
         /\ Stream("delLength", m) => Stream("delKey", Tail(m))
         /\ Stream("setLength", m) => Stream("setKey", Tail(m))
         /\ Stream("setValueLength", m) => Stream("setValue", Tail(m))
<1> USE TakeFirst DEF Stream
<1>1. Stream("getLength", m) => Stream("getKey", Tail(m))
  BY DEF KeyAt
<1>2. Stream("delLength", m) => Stream("delKey", Tail(m))
  BY DEF KeyAt
<1>3. Stream("setLength", m) => Stream("setKey", Tail(m))
  BY DEF PairAt
<1>4. Stream("setValueLength", m) => Stream("setValue", Tail(m))
  BY DEF ValueAt
<1> QED BY <1>1, <1>2, <1>3, <1>4

(* The bytes of a key or a value. *)
LEMMA ReadBytes ==
  ASSUME NEW m, m # <<>>
  PROVE  /\ Stream("getKey", m) \/ Stream("delKey", m) => Head(m) \in Key /\ Tail(m) = <<>>
         /\ Stream("setKey", m) => Head(m) \in Key /\ Stream("setValueLength", Tail(m))
         /\ Stream("setValue", m) => Head(m) \in Value /\ Tail(m) = <<>>
<1>1. ASSUME m \in Seq(Unit), KeyAt(m, 1) \/ ValueAt(m, 1)
      PROVE  Len(m) = 1 /\ Head(m) = m[1] /\ Tail(m) = <<>>
  <2>1. Len(m) \in Nat /\ Len(m) >= 1 /\ Len(m) <= 1
    BY <1>1, TakeFirst DEF KeyAt, ValueAt
  <2>2. Len(m) = 1
    BY <2>1
  <2> QED BY <1>1, <2>2, TakeFirst, Zenon
<1>2. Stream("getKey", m) \/ Stream("delKey", m) => Head(m) \in Key /\ Tail(m) = <<>>
  BY <1>1 DEF Stream, KeyAt
<1>3. Stream("setKey", m) => Head(m) \in Key /\ Stream("setValueLength", Tail(m))
  <2> SUFFICES ASSUME m \in Seq(Unit), PairAt(m, 1)
               PROVE  Head(m) \in Key /\ Tail(m) \in Seq(Unit) /\ ValueAt(Tail(m), 2)
    BY EmptyStream DEF Stream
  <2>1. /\ Head(m) = m[1] /\ Tail(m) \in Seq(Unit) /\ Len(m) \in Nat /\ Len(m) >= 1
        /\ Len(Tail(m)) = Len(m) - 1 /\ \A i \in 1 .. Len(m) - 1 : Tail(m)[i] = m[i + 1]
    BY TakeFirst
  <2>2. m[1] \in Key /\ Len(m) <= 3 /\ (Len(m) = 3 => m[3] \in Value)
    BY <2>1 DEF PairAt
  <2> QED BY <2>1, <2>2 DEF ValueAt
<1>4. Stream("setValue", m) => Head(m) \in Value /\ Tail(m) = <<>>
  BY <1>1 DEF Stream, ValueAt
<1> QED BY <1>2, <1>3, <1>4

(* A worker that is not about to receive has an empty stream. *)
LEMMA NothingLeft ==
  ASSUME NEW pc, NEW m, Stream(pc, m),
         pc \notin {"none", "code", "getLength", "getKey", "setLength", "setKey",
                    "setValueLength", "setValue", "delLength", "delKey"}
  PROVE  m = <<>>
BY DEF Stream

(* What is left of a stream when its client goes can be read as well. *)
LEMMA Prefix ==
  ASSUME NEW pc, NEW m, Stream(pc, m), NEW n \in 0 .. Len(m)
  PROVE  Stream(pc, SubSeq(m, 1, n))
<1> DEFINE s == SubSeq(m, 1, n)
<1>1. m \in Seq(Unit)
  BY DEF Stream
<1>2. s \in Seq(Unit) /\ Len(s) = n /\ \A i \in 1 .. n : s[i] = m[i]
  BY <1>1
<1>3. CASE n = 0
  <2>1. s = <<>>
    BY <1>2, <1>3
  <2> QED BY <2>1, EmptyStream
<1>4. CASE n # 0
  <2>1. n <= Len(m) /\ n >= 1 /\ Len(m) \in Nat /\ m # <<>> /\ s[1] = m[1]
    BY <1>1, <1>2, <1>4
  <2> HIDE DEF s
  <2>2. \A i \in {1, 2, 3} : KeyAt(m, i) => KeyAt(s, i)
    BY <1>2, <2>1 DEF KeyAt
  <2>3. \A i \in {1, 2, 3} : PairAt(m, i) => PairAt(s, i)
    BY <1>2, <2>1 DEF PairAt
  <2>4. \A i \in {1, 2} : ValueAt(m, i) => ValueAt(s, i)
    BY <1>2, <2>1 DEF ValueAt
  <2>5. Len(m) = 1 => Len(s) = 1
    BY <1>2, <2>1
  <2> QED BY <1>2, <2>1, <2>2, <2>3, <2>4, <2>5 DEF Stream, s
<1> QED BY <1>3, <1>4

(* What the fields of a request may be. *)
LEMMA RequestFields ==
  ASSUME NEW r \in Request
  PROVE  /\ r.op \in {"get", "set", "del"} /\ r.key \in Key
         /\ r.op = "set" => r.value \in Value
         /\ r.op # "set" => r.value = NoValue
BY ServiceAssumption DEF Request

(* What a session has on the wire can be read by its worker. *)
LEMMA SessionStream ==
  ASSUME NEW a, NEW q, NEW m, NEW b, NEW p, NEW e, Session(a, q, m, b, p, e)
  PROVE  Stream(q.pc, m)
<1>1. CASE m = <<>>
  BY <1>1, EmptyStream
<1>2. CASE a.pc = "bye" /\ Leaving(q, m, b) /\ m # <<>>
  <2>1. q.pc \in {"none", "code"} /\ m = <<3>> /\ 3 \in Unit
    BY <1>2 DEF Leaving, Unit
  <2>2. m \in Seq(Unit) /\ m[1] = 3 /\ Len(m) = 1
    BY <2>1
  <2> QED BY <2>1, <2>2 DEF Stream
<1>3. ASSUME a.req \in Request, Asking(a.req, q, m, b), m # <<>>
      PROVE  Stream(q.pc, m)
  <2> DEFINE k == a.req.key
             v == a.req.value
  <2>1. k \in Key /\ k \in Unit /\ KeyLen(k) \in Unit
    BY <1>3, RequestFields DEF Unit
  <2>2. CASE a.req.op \in {"get", "del"}
    <3> HIDE DEF k
    <3>1. \/ q.pc \in {"none", "code"} /\ (m = <<0, KeyLen(k), k>> \/ m = <<2, KeyLen(k), k>>)
          \/ q.pc \in {"getLength", "delLength"} /\ m = <<KeyLen(k), k>>
          \/ q.pc \in {"getKey", "delKey"} /\ m = <<k>>
      BY <1>3, <2>2 DEF Asking, KeyOnTheWay, k
    <3>2. \A x \in {0, 2} : x \in Unit
      BY DEF Unit
    <3>3. ASSUME NEW x \in {0, 2}, m = <<x, KeyLen(k), k>>
          PROVE  m \in Seq(Unit) /\ m[1] \in {0, 2} /\ KeyAt(m, 3)
      BY <3>2, <3>3, <2>1 DEF KeyAt
    <3>4. ASSUME m = <<KeyLen(k), k>> PROVE m \in Seq(Unit) /\ KeyAt(m, 2)
      BY <3>4, <2>1 DEF KeyAt
    <3>5. ASSUME m = <<k>> PROVE m \in Seq(Unit) /\ KeyAt(m, 1)
      BY <3>5, <2>1 DEF KeyAt
    <3> QED BY <3>1, <3>3, <3>4, <3>5 DEF Stream
  <2>3. CASE a.req.op = "set"
    <3>1. v \in Value /\ v \in Unit /\ ValueLen(v) \in Unit
      BY <1>3, <2>3, RequestFields DEF Unit
    <3> HIDE DEF k, v
    <3>2. \/ q.pc \in {"none", "code"} /\ m = <<1, KeyLen(k), k, ValueLen(v), v>>
          \/ q.pc = "setLength" /\ m = <<KeyLen(k), k, ValueLen(v), v>>
          \/ q.pc = "setKey" /\ m = <<k, ValueLen(v), v>>
          \/ q.pc = "setValueLength" /\ m = <<ValueLen(v), v>>
          \/ q.pc = "setValue" /\ m = <<v>>
      BY <1>3, <2>3 DEF Asking, PairOnTheWay, k, v
    <3>3. ASSUME m = <<1, KeyLen(k), k, ValueLen(v), v>>
          PROVE  m \in Seq(Unit) /\ m[1] = 1 /\ PairAt(m, 3)
      <4>1. 1 \in Unit
        BY DEF Unit
      <4> QED BY <3>1, <3>3, <2>1, <4>1 DEF PairAt
    <3>4. ASSUME m = <<KeyLen(k), k, ValueLen(v), v>>
          PROVE  m \in Seq(Unit) /\ PairAt(m, 2)
      BY <3>1, <3>4, <2>1 DEF PairAt
    <3>5. ASSUME m = <<k, ValueLen(v), v>> PROVE m \in Seq(Unit) /\ PairAt(m, 1)
      BY <3>1, <3>5, <2>1 DEF PairAt
    <3>6. ASSUME m = <<ValueLen(v), v>> PROVE m \in Seq(Unit) /\ ValueAt(m, 2)
      BY <3>1, <3>6 DEF ValueAt
    <3>7. ASSUME m = <<v>> PROVE m \in Seq(Unit) /\ ValueAt(m, 1)
      BY <3>1, <3>7 DEF ValueAt
    <3> QED BY <3>2, <3>3, <3>4, <3>5, <3>6, <3>7 DEF Stream
  <2> QED BY <1>3, <2>2, <2>3, RequestFields
<1> QED BY <1>1, <1>2, <1>3 DEF Session, Answering, AnsweringLength, AnsweringValue

-----------------------------------------------------------------------------
(* What the steps of a worker do to its connection. *)

Peer == {"up", "fin", "answered", "reset", "rst"}

(* A session in which something is on the wire is one that asks or leaves. *)
LEMMA Receiving ==
  ASSUME NEW a, NEW q, NEW m, NEW b, NEW p, NEW e, Session(a, q, m, b, p, e), m # <<>>
  PROVE  /\ p = "up"
         /\ \/ /\ a.pc = "answer" /\ a.req \in Request /\ e = "none"
               /\ Asking(a.req, q, m, b)
            \/ a.pc = "bye" /\ Leaving(q, m, b)
BY DEF Session, Answering, AnsweringLength, AnsweringValue

(* When the client has closed its end there is nothing to be in step with. *)
LEMMA GoneStep ==
  ASSUME NEW a, NEW q, NEW b, NEW p, NEW e,
         Connection(a, q, <<>>, b, p, e, "running"), q.pc # "done", p # "up",
         NEW q2, WorkerTyped(q2), NEW p2 \in Peer, NEW b2, NEW e2, NEW s
  PROVE  Connection(a, q2, <<>>, b2, p2, e2, s)
<1>1. a.pc = "gone"
  BY DEF Connection, Session
<1> QED BY <1>1, EmptyStream DEF Connection, Peer

(* The worker reads a code and branches: to the branch of the request. *)
LEMMA CodeRead ==
  ASSUME NEW a, NEW q, NEW m, NEW b, NEW p, NEW e,
         Connection(a, q, m, b, p, e, "running"), q.pc = "code", m # <<>>,
         NEW q2, WorkerTyped(q2), q2.pc = Branch(Head(m))
  PROVE  Connection(a, q2, Tail(m), b, p, e, "running")
<1>1. Stream(q2.pc, Tail(m))
  BY ReadCode DEF Connection
<1>2. ASSUME Session(a, q, m, b, p, e)
      PROVE  Session(a, q2, Tail(m), b, p, e)
  <2>1. CASE a.pc = "bye" /\ Leaving(q, m, b)
    <3>1. Head(m) = 3 /\ Tail(m) = <<>>
      <4>1. m = <<3>>
        BY <2>1 DEF Leaving
      <4> QED BY <4>1
    <3>2. Leaving(q2, Tail(m), b)
      BY <2>1, <3>1 DEF Leaving, Branch
    <3> QED BY <1>2, <2>1, <3>2 DEF Session
  <2>2. CASE a.pc = "answer" /\ a.req \in Request /\ e = "none" /\ Asking(a.req, q, m, b)
    <3> DEFINE k == a.req.key
               v == a.req.value
    <3> HIDE DEF k, v
    <3>1. CASE a.req.op = "get"
      <4>1. m = <<0, KeyLen(k), k>>
        BY <2>2, <3>1 DEF Asking, KeyOnTheWay, k
      <4>2. q2.pc = "getLength" /\ Tail(m) = <<KeyLen(k), k>>
        BY <4>1 DEF Branch
      <4> QED BY <1>2, <2>2, <3>1, <4>2 DEF Session, Asking, KeyOnTheWay, k
    <3>2. CASE a.req.op = "del"
      <4>1. m = <<2, KeyLen(k), k>>
        BY <2>2, <3>2 DEF Asking, KeyOnTheWay, k
      <4>2. q2.pc = "delLength" /\ Tail(m) = <<KeyLen(k), k>>
        BY <4>1 DEF Branch
      <4> QED BY <1>2, <2>2, <3>2, <4>2 DEF Session, Asking, KeyOnTheWay, k
    <3>3. CASE a.req.op = "set"
      <4>1. m = <<1, KeyLen(k), k, ValueLen(v), v>>
        BY <2>2, <3>3 DEF Asking, PairOnTheWay, k, v
      <4>2. q2.pc = "setLength" /\ Tail(m) = <<KeyLen(k), k, ValueLen(v), v>>
        BY <4>1 DEF Branch
      <4> QED BY <1>2, <2>2, <3>3, <4>2 DEF Session, Asking, PairOnTheWay, k, v
    <3> QED BY <2>2, <3>1, <3>2, <3>3, RequestFields
  <2> QED BY <1>2, <2>1, <2>2, Receiving
<1> QED BY <1>1, <1>2 DEF Connection

(* It reads a length. *)
LEMMA LengthRead ==
  ASSUME NEW a, NEW q, NEW m, NEW b, NEW p, NEW e,
         Connection(a, q, m, b, p, e, "running"), m # <<>>,
         NEW q2, WorkerTyped(q2), q2.code = Head(m), q2.key = q.key,
         \/ q.pc = "getLength" /\ q2.pc = "getKey"
         \/ q.pc = "setLength" /\ q2.pc = "setKey"
         \/ q.pc = "setValueLength" /\ q2.pc = "setValue"
         \/ q.pc = "delLength" /\ q2.pc = "delKey"
  PROVE  Connection(a, q2, Tail(m), b, p, e, "running")
<1>1. Stream(q2.pc, Tail(m))
  BY ReadLength DEF Connection
<1>2. ASSUME Session(a, q, m, b, p, e)
      PROVE  Session(a, q2, Tail(m), b, p, e)
  <2>1. a.pc = "answer" /\ a.req \in Request /\ e = "none" /\ Asking(a.req, q, m, b)
    BY <1>2, Receiving DEF Leaving
  <2> DEFINE k == a.req.key
             v == a.req.value
  <2> HIDE DEF k, v
  <2>2. CASE q.pc = "getLength" \/ q.pc = "delLength"
    <3>1. m = <<KeyLen(k), k>>
      BY <2>1, <2>2 DEF Asking, KeyOnTheWay, PairOnTheWay, k
    <3>2. q2.code = KeyLen(k) /\ Tail(m) = <<k>>
      BY <3>1
    <3> QED BY <1>2, <2>1, <2>2, <3>2 DEF Session, Asking, KeyOnTheWay, PairOnTheWay, k
  <2>3. CASE q.pc = "setLength"
    <3>1. m = <<KeyLen(k), k, ValueLen(v), v>> /\ a.req.op = "set"
      BY <2>1, <2>3 DEF Asking, KeyOnTheWay, PairOnTheWay, k, v
    <3>2. q2.code = KeyLen(k) /\ Tail(m) = <<k, ValueLen(v), v>>
      BY <3>1
    <3> QED BY <1>2, <2>1, <2>3, <3>1, <3>2 DEF Session, Asking, PairOnTheWay, k, v
  <2>4. CASE q.pc = "setValueLength"
    <3>1. m = <<ValueLen(v), v>> /\ a.req.op = "set" /\ q.key = k
      BY <2>1, <2>4 DEF Asking, KeyOnTheWay, PairOnTheWay, k, v
    <3>2. q2.code = ValueLen(v) /\ Tail(m) = <<v>>
      BY <3>1
    <3> QED BY <1>2, <2>1, <2>4, <3>1, <3>2 DEF Session, Asking, PairOnTheWay, k, v
  <2> QED BY <2>2, <2>3, <2>4
<1> QED BY <1>1, <1>2 DEF Connection

(* It reads a key. *)
LEMMA KeyRead ==
  ASSUME NEW a, NEW q, NEW m, NEW b, NEW p, NEW e,
         Connection(a, q, m, b, p, e, "running"), m # <<>>,
         NEW q2, WorkerTyped(q2), q2.key = Head(m),
         \/ /\ q.pc = "getKey"
            /\ q2.pc = IF q.code > MAX_STR_LEN THEN "getLong" ELSE "getEnter"
         \/ /\ q.pc = "delKey"
            /\ q2.pc = IF q.code > MAX_STR_LEN THEN "delLong" ELSE "delEnter"
         \/ q.pc = "setKey" /\ q2.pc = "setValueLength"
  PROVE  Connection(a, q2, Tail(m), b, p, e, "running")
<1>1. Stream(q2.pc, Tail(m))
  BY ReadBytes, EmptyStream DEF Connection
<1>2. ASSUME Session(a, q, m, b, p, e)
      PROVE  Session(a, q2, Tail(m), b, p, e)
  <2>1. a.pc = "answer" /\ a.req \in Request /\ e = "none" /\ Asking(a.req, q, m, b)
    BY <1>2, Receiving DEF Leaving
  <2> DEFINE k == a.req.key
             v == a.req.value
  <2> HIDE DEF k, v
  <2>2. CASE q.pc = "getKey" \/ q.pc = "delKey"
    <3>1. m = <<k>> /\ q.code = KeyLen(k)
      BY <2>1, <2>2 DEF Asking, KeyOnTheWay, PairOnTheWay, k
    <3>2. q2.key = k /\ Tail(m) = <<>>
      BY <3>1
    <3> QED BY <1>2, <2>1, <2>2, <3>1, <3>2
            DEF Session, Asking, KeyOnTheWay, PairOnTheWay, k
  <2>3. CASE q.pc = "setKey"
    <3>1. m = <<k, ValueLen(v), v>> /\ a.req.op = "set"
      BY <2>1, <2>3 DEF Asking, KeyOnTheWay, PairOnTheWay, k, v
    <3>2. q2.key = k /\ Tail(m) = <<ValueLen(v), v>>
      BY <3>1
    <3> QED BY <1>2, <2>1, <2>3, <3>1, <3>2 DEF Session, Asking, PairOnTheWay, k, v
  <2> QED BY <2>2, <2>3
<1> QED BY <1>1, <1>2 DEF Connection

(* It reads a value. *)
LEMMA ValueRead ==
  ASSUME NEW a, NEW q, NEW m, NEW b, NEW p, NEW e,
         Connection(a, q, m, b, p, e, "running"), m # <<>>, q.pc = "setValue",
         NEW q2, WorkerTyped(q2), q2.value = Head(m), q2.key = q.key,
         q2.pc = IF KeyLen(q.key) > MAX_STR_LEN THEN "setKeyLong"
                 ELSE IF q.code > MAX_STR_LEN THEN "setValueLong" ELSE "setEnter"
  PROVE  Connection(a, q2, Tail(m), b, p, e, "running")
<1>1. Stream(q2.pc, Tail(m))
  BY ReadBytes, EmptyStream DEF Connection
<1>2. ASSUME Session(a, q, m, b, p, e)
      PROVE  Session(a, q2, Tail(m), b, p, e)
  <2>1. a.pc = "answer" /\ a.req \in Request /\ e = "none" /\ Asking(a.req, q, m, b)
    BY <1>2, Receiving DEF Leaving
  <2> DEFINE k == a.req.key
             v == a.req.value
  <2> HIDE DEF k, v
  <2>2. m = <<v>> /\ a.req.op = "set" /\ q.key = k /\ q.code = ValueLen(v)
    BY <2>1 DEF Asking, KeyOnTheWay, PairOnTheWay, k, v
  <2>3. q2.value = v /\ Tail(m) = <<>>
    BY <2>2
  <2> QED BY <1>2, <2>1, <2>2, <2>3 DEF Session, Asking, PairOnTheWay, k, v
<1> QED BY <1>1, <1>2 DEF Connection

(* It enters or leaves the critical section, which nobody on the connection
   sees. *)
LEMMA LockStep ==
  ASSUME NEW a, NEW q, NEW m, NEW b, NEW p, NEW e,
         Connection(a, q, m, b, p, e, "running"),
         NEW q2, WorkerTyped(q2), q2.key = q.key, q2.value = q.value,
         \/ q.pc = "getEnter" /\ q2.pc = "getCall"
         \/ q.pc = "setEnter" /\ q2.pc = "setCall"
         \/ q.pc = "delEnter" /\ q2.pc = "delCall"
         \/ q.pc = "getLeave" /\ q2.pc = "getAnswer"
         \/ q.pc = "setLeave" /\ q2.pc = "setAnswer"
         \/ q.pc = "delLeave" /\ q2.pc = "delAnswer"
  PROVE  Connection(a, q2, m, b, p, e, "running")
<1>1. m = <<>>
  BY NothingLeft DEF Connection
<1>2. ASSUME Session(a, q, m, b, p, e)
      PROVE  Session(a, q2, m, b, p, e)
  <2>1. CASE q.pc = "getEnter"
    BY <1>2, <2>1 DEF Session, Asking, KeyOnTheWay, PairOnTheWay, Answering,
       AnsweringLength, AnsweringValue, Leaving
  <2>2. CASE q.pc = "setEnter"
    BY <1>2, <2>2 DEF Session, Asking, KeyOnTheWay, PairOnTheWay, Answering,
       AnsweringLength, AnsweringValue, Leaving
  <2>3. CASE q.pc = "delEnter"
    BY <1>2, <2>3 DEF Session, Asking, KeyOnTheWay, PairOnTheWay, Answering,
       AnsweringLength, AnsweringValue, Leaving
  <2>4. CASE q.pc = "getLeave"
    BY <1>2, <2>4 DEF Session, Asking, KeyOnTheWay, PairOnTheWay, Answering,
       AnsweringLength, AnsweringValue, Leaving
  <2>5. CASE q.pc = "setLeave"
    BY <1>2, <2>5 DEF Session, Asking, KeyOnTheWay, PairOnTheWay, Answering,
       AnsweringLength, AnsweringValue, Leaving
  <2>6. CASE q.pc = "delLeave"
    BY <1>2, <2>6 DEF Session, Asking, KeyOnTheWay, PairOnTheWay, Answering,
       AnsweringLength, AnsweringValue, Leaving
  <2> QED BY <2>1, <2>2, <2>3, <2>4, <2>5, <2>6
<1> QED BY <1>1, <1>2, EmptyStream DEF Connection

(* A worker that has all of a request and has done nothing about it yet. *)
LEMMA HasRequest ==
  ASSUME NEW a, NEW q, NEW m, NEW b, NEW p, NEW e, Session(a, q, m, b, p, e),
         q.pc \in {"getLong", "getCall", "setKeyLong", "setValueLong", "setCall",
                   "delLong", "delCall"}
  PROVE  /\ a.pc = "answer" /\ a.req \in Request /\ e = "none" /\ b = <<>> /\ p = "up"
         /\ a.req.op = CASE q.pc \in {"getLong", "getCall"} -> "get"
                         [] q.pc \in {"delLong", "delCall"} -> "del"
                         [] OTHER -> "set"
         /\ q.pc \in {"getLong", "delLong", "setKeyLong"} <=>
              KeyLen(a.req.key) > MAX_STR_LEN
         /\ q.pc = "setValueLong" => ValueLen(a.req.value) > MAX_STR_LEN
         /\ q.pc \in {"getCall", "setCall", "delCall"} => q.key = a.req.key
         /\ q.pc = "setCall" =>
              q.value = a.req.value /\ ~(ValueLen(a.req.value) > MAX_STR_LEN)
<1>1. /\ a.pc = "answer" /\ a.req \in Request /\ e = "none" /\ p = "up"
      /\ Asking(a.req, q, m, b)
  BY DEF Session, Answering, AnsweringLength, AnsweringValue, Leaving
<1>2. CASE q.pc \in {"getLong", "getCall"}
  BY <1>1, <1>2 DEF Asking, KeyOnTheWay, PairOnTheWay
<1>3. CASE q.pc \in {"delLong", "delCall"}
  BY <1>1, <1>3 DEF Asking, KeyOnTheWay, PairOnTheWay
<1>4. CASE q.pc \in {"setKeyLong", "setValueLong", "setCall"}
  BY <1>1, <1>4 DEF Asking, KeyOnTheWay, PairOnTheWay
<1> QED BY <1>2, <1>3, <1>4

(* It calls myjql, and the request takes effect. *)
LEMMA StoreStep ==
  ASSUME NEW a, NEW q, NEW m, NEW b, NEW p, NEW e,
         Connection(a, q, m, b, p, e, "running"), NEW e2,
         NEW q2, WorkerTyped(q2),
         \/ /\ q.pc = "getCall" /\ q2.pc = "getLeave" /\ q2.value \in Value \cup {NoValue}
            /\ e2 = IF q2.value = NoValue THEN "missing" ELSE q2.value
         \/ q.pc = "setCall" /\ q2.pc = "setLeave" /\ e2 = "ok"
         \/ q.pc = "delCall" /\ q2.pc = "delLeave" /\ e2 = "ok"
  PROVE  Connection(a, q2, m, b, p, e2, "running")
<1>1. m = <<>>
  BY NothingLeft DEF Connection
<1>2. ASSUME Session(a, q, m, b, p, e)
      PROVE  Session(a, q2, m, b, p, e2)
  <2>1. /\ a.pc = "answer" /\ a.req \in Request /\ b = <<>> /\ p = "up"
        /\ a.req.op = CASE q.pc \in {"getLong", "getCall"} -> "get"
                        [] q.pc \in {"delLong", "delCall"} -> "del"
                        [] OTHER -> "set"
    BY <1>2, HasRequest
  <2>2. Answering(a.req, q2, m, b, e2)
    BY <2>1, <1>1 DEF Answering
  <2>3. e2 # "none"
    BY ServiceAssumption
  <2> QED BY <2>1, <2>2, <2>3 DEF Session
<1> QED BY <1>1, <1>2, EmptyStream DEF Connection

(* It refuses a request. *)
LEMMA RefuseStep ==
  ASSUME NEW a, NEW q, NEW m, NEW b, NEW p, NEW e,
         Connection(a, q, m, b, p, e, "running"), NEW x, NEW e2,
         NEW q2, WorkerTyped(q2), q2.pc = "code",
         \/ q.pc \in {"getLong", "delLong", "setKeyLong"} /\ x = 2 /\ e2 = "key too long"
         \/ q.pc = "setValueLong" /\ x = 3 /\ e2 = "value too long"
  PROVE  Connection(a, q2, m, Append(b, x), p, e2, "running")
<1>1. m = <<>>
  BY NothingLeft DEF Connection
<1>2. ASSUME Session(a, q, m, b, p, e)
      PROVE  Session(a, q2, m, Append(b, x), p, e2)
  <2>1. /\ a.pc = "answer" /\ a.req \in Request /\ b = <<>> /\ p = "up"
        /\ q.pc = "setValueLong" => a.req.op = "set"
    BY <1>2, HasRequest
  <2>2. Append(b, x) = <<x>>
    BY <2>1, Appended, Zenon
  <2>3. Answering(a.req, q2, m, Append(b, x), e2) /\ e2 # "none"
    BY <2>1, <2>2, <1>1 DEF Answering
  <2> QED BY <2>1, <2>3 DEF Session
<1> QED BY <1>1, <1>2, EmptyStream DEF Connection

(* It acknowledges a set or a del. *)
LEMMA AckStep ==
  ASSUME NEW a, NEW q, NEW m, NEW b, NEW p, NEW e,
         Connection(a, q, m, b, p, e, "running"),
         NEW q2, WorkerTyped(q2), q2.pc = "code", q.pc \in {"setAnswer", "delAnswer"}
  PROVE  Connection(a, q2, m, Append(b, 1), p, e, "running")
<1>1. m = <<>>
  BY NothingLeft DEF Connection
<1>2. ASSUME Session(a, q, m, b, p, e)
      PROVE  Session(a, q2, m, Append(b, 1), p, e)
  <2>1. /\ a.pc = "answer" /\ a.req \in Request /\ b = <<>> /\ p = "up" /\ e = "ok"
        /\ a.req.op # "get"
    BY <1>2 DEF Session, Asking, KeyOnTheWay, PairOnTheWay, Answering,
       AnsweringLength, AnsweringValue, Leaving
  <2>2. Append(b, 1) = <<1>>
    BY <2>1
  <2>3. Answering(a.req, q2, m, Append(b, 1), e)
    BY <2>1, <2>2, <1>1 DEF Answering
  <2> QED BY <2>1, <2>3 DEF Session
<1> QED BY <1>1, <1>2, EmptyStream DEF Connection

(* It answers a get: that there is no value, or that there is one, *)
LEMMA FoundStep ==
  ASSUME NEW a, NEW q, NEW m, NEW b, NEW p, NEW e,
         Connection(a, q, m, b, p, e, "running"), NEW x,
         NEW q2, WorkerTyped(q2), q.pc = "getAnswer",
         \/ q.value = NoValue /\ x = 0 /\ q2.pc = "code"
         \/ /\ q.value # NoValue /\ x = 1 /\ q2.pc = "getAnswerLength"
            /\ q2.value = q.value
  PROVE  Connection(a, q2, m, Append(b, x), p, e, "running")
<1>1. m = <<>>
  BY NothingLeft DEF Connection
<1>2. ASSUME Session(a, q, m, b, p, e)
      PROVE  Session(a, q2, m, Append(b, x), p, e)
  <2>1. /\ a.pc = "answer" /\ a.req \in Request /\ b = <<>> /\ p = "up" /\ e # "none"
        /\ a.req.op = "get"
        /\ \/ q.value = NoValue /\ e = "missing"
           \/ q.value \in Value /\ e = q.value
    BY <1>2 DEF Session, Asking, KeyOnTheWay, PairOnTheWay, Answering,
       AnsweringLength, AnsweringValue, Leaving
  <2>2. Append(b, x) = <<x>>
    BY <2>1, Appended, Zenon
  <2>3. Answering(a.req, q2, m, Append(b, x), e)
    BY <2>1, <2>2, <1>1, ServiceAssumption DEF Answering
  <2> QED BY <2>1, <2>3 DEF Session
<1> QED BY <1>1, <1>2, EmptyStream DEF Connection

(* how long it is, *)
LEMMA ValueLengthStep ==
  ASSUME NEW a, NEW q, NEW m, NEW b, NEW p, NEW e,
         Connection(a, q, m, b, p, e, "running"),
         NEW q2, WorkerTyped(q2), q.pc = "getAnswerLength", q2.pc = "getAnswerValue",
         q2.value = q.value
  PROVE  Connection(a, q2, m, Append(b, ValueLen(q.value)), p, e, "running")
<1>1. m = <<>>
  BY NothingLeft DEF Connection
<1>2. ASSUME Session(a, q, m, b, p, e)
      PROVE  Session(a, q2, m, Append(b, ValueLen(q.value)), p, e)
  <2>1. /\ a.req \in Request /\ p = "up" /\ a.req.op = "get" /\ e \in Value /\ q.value = e
        /\ \/ a.pc = "answer" /\ e # "none" /\ b = <<1>>
           \/ a.pc = "length" /\ b = <<>>
    BY <1>2 DEF Session, Asking, KeyOnTheWay, PairOnTheWay, Answering,
       AnsweringLength, AnsweringValue, Leaving
  <2>2. CASE a.pc = "answer"
    <3>1. Append(b, ValueLen(q.value)) = <<1, ValueLen(e)>>
      <4>1. b = <<1>> /\ q.value = e
        BY <2>1, <2>2
      <4> QED BY <4>1, Appended, Zenon
    <3> QED BY <1>1, <2>1, <2>2, <3>1 DEF Session, Answering
  <2>3. CASE a.pc = "length"
    <3>1. Append(b, ValueLen(q.value)) = <<ValueLen(e)>>
      BY <2>1, <2>3
    <3> QED BY <1>1, <2>1, <2>3, <3>1 DEF Session, AnsweringLength
  <2> QED BY <2>1, <2>2, <2>3
<1> QED BY <1>1, <1>2, EmptyStream DEF Connection

(* and the value, which is the one found. *)
LEMMA ValueStep ==
  ASSUME NEW a, NEW q, NEW m, NEW b, NEW p, NEW e,
         Connection(a, q, m, b, p, e, "running"),
         NEW q2, WorkerTyped(q2), q.pc = "getAnswerValue", q2.pc = "code"
  PROVE  Connection(a, q2, m, Append(b, q.value), p, e, "running")
<1>1. m = <<>>
  BY NothingLeft DEF Connection
<1>2. ASSUME Session(a, q, m, b, p, e)
      PROVE  Session(a, q2, m, Append(b, q.value), p, e)
  <2>1. /\ a.req \in Request /\ p = "up" /\ a.req.op = "get" /\ e \in Value /\ q.value = e
        /\ \/ a.pc = "answer" /\ e # "none" /\ b = <<1, ValueLen(e)>>
           \/ a.pc = "length" /\ b = <<ValueLen(e)>>
           \/ a.pc = "value" /\ b = <<>>
    BY <1>2 DEF Session, Asking, KeyOnTheWay, PairOnTheWay, Answering,
       AnsweringLength, AnsweringValue, Leaving
  <2>2. CASE a.pc = "answer"
    <3>1. Append(b, q.value) = <<1, ValueLen(e), e>>
      <4>1. b = <<1, ValueLen(e)>> /\ q.value = e
        BY <2>1, <2>2
      <4> QED BY <4>1, Appended, Zenon
    <3> QED BY <1>1, <2>1, <2>2, <3>1 DEF Session, Answering
  <2>3. CASE a.pc = "length"
    <3>1. Append(b, q.value) = <<ValueLen(e), e>>
      <4>1. b = <<ValueLen(e)>> /\ q.value = e
        BY <2>1, <2>3
      <4> QED BY <4>1, Appended, Zenon
    <3> QED BY <1>1, <2>1, <2>3, <3>1 DEF Session, AnsweringLength
  <2>4. CASE a.pc = "value"
    <3>1. Append(b, q.value) = <<e>>
      BY <2>1, <2>4
    <3> QED BY <1>1, <2>1, <2>4, <3>1 DEF Session, AnsweringValue
  <2> QED BY <2>1, <2>2, <2>3, <2>4
<1> QED BY <1>1, <1>2, EmptyStream DEF Connection

-----------------------------------------------------------------------------
(* What the steps of a client do to its connection. *)

(* A client whose server has gone may do as it likes. *)
LEMMA Unserved ==
  ASSUME NEW a, NEW q, NEW m, NEW b, NEW p, NEW e, NEW s,
         Connection(a, q, m, b, p, e, s), s # "running" \/ q.pc = "done",
         NEW a2, ClientTyped(a2), NEW m2, NEW b2, NEW p2 \in Peer, NEW e2
  PROVE  Connection(a2, q, m2, b2, p2, e2, s)
BY DEF Connection, Peer

(* It connects. *)
LEMMA ConnectStep ==
  ASSUME NEW a, NEW q, NEW m, NEW b, NEW p, NEW e, NEW s,
         Connection(a, q, m, b, p, e, s), a.pc = "out",
         NEW a2, ClientTyped(a2), a2.pc = "idle"
  PROVE  Connection(a2, q, m, b, p, e, s)
BY DEF Connection, Session

(* The messages are sequences of units. *)
LEMMA MessageUnits ==
  ASSUME NEW r \in Request
  PROVE  Message(r) \in Seq(Unit) /\ <<>> \o Message(r) = Message(r)
<1>1. r.key \in Unit /\ KeyLen(r.key) \in Unit /\ 0 \in Unit /\ 1 \in Unit /\ 2 \in Unit
  BY RequestFields DEF Unit
<1>2. CASE r.op = "set"
  <2>1. r.value \in Unit /\ ValueLen(r.value) \in Unit
    BY <1>2, RequestFields DEF Unit
  <2>2. Message(r) = <<1, KeyLen(r.key), r.key, ValueLen(r.value), r.value>>
    BY <1>2 DEF Message
  <2>3. Message(r) \in Seq(Unit)
    BY <1>1, <2>1, <2>2
  <2> QED BY <2>3, ConcatEmptySeq
<1>3. CASE r.op \in {"get", "del"}
  <2>1. PICK x \in {0, 2} : Message(r) = <<x, KeyLen(r.key), r.key>>
    BY <1>3 DEF Message
  <2>2. Message(r) \in Seq(Unit)
    BY <1>1, <2>1
  <2> QED BY <2>2, ConcatEmptySeq
<1> QED BY <1>2, <1>3, RequestFields

(* It sends a request. *)
LEMMA AskStep ==
  ASSUME NEW a, NEW q, NEW m, NEW b, NEW p, NEW e, NEW s,
         Connection(a, q, m, b, p, e, s), a.pc = "idle",
         NEW r \in Request, NEW a2, ClientTyped(a2), a2.pc = "answer", a2.req = r
  PROVE  Connection(a2, q, m \o Message(r), b, p, "none", s)
<1>1. CASE s # "running" \/ q.pc = "done"
  BY <1>1 DEF Connection
<1>2. CASE s = "running" /\ q.pc # "done"
  <2>1. q.pc \in {"none", "code"} /\ m = <<>> /\ b = <<>> /\ p = "up"
    BY <1>2 DEF Connection, Session
  <2>2. m \o Message(r) = Message(r)
    BY <2>1, MessageUnits
  <2>3. Asking(r, q, Message(r), b)
    BY <2>1, RequestFields DEF Asking, KeyOnTheWay, PairOnTheWay, Message
  <2>4. Session(a2, q, Message(r), b, p, "none")
    BY <2>1, <2>3 DEF Session
  <2>5. Stream(q.pc, Message(r))
    BY <2>4, SessionStream
  <2> QED BY <2>2, <2>4, <2>5 DEF Connection
<1> QED BY <1>1, <1>2

(* It says that it leaves. *)
LEMMA LeaveStep ==
  ASSUME NEW a, NEW q, NEW m, NEW b, NEW p, NEW e, NEW s,
         Connection(a, q, m, b, p, e, s), a.pc = "idle",
         NEW a2, ClientTyped(a2), a2.pc = "bye"
  PROVE  Connection(a2, q, Append(m, 3), b, p, e, s)
<1>1. CASE s # "running" \/ q.pc = "done"
  BY <1>1 DEF Connection
<1>2. CASE s = "running" /\ q.pc # "done"
  <2>1. q.pc \in {"none", "code"} /\ m = <<>> /\ b = <<>> /\ p = "up"
    BY <1>2 DEF Connection, Session
  <2>2. Append(m, 3) = <<3>>
    BY <2>1, Appended, Zenon
  <2>3. Session(a2, q, <<3>>, b, p, e)
    BY <2>1 DEF Session, Leaving
  <2>4. Stream(q.pc, <<3>>)
    BY <2>3, SessionStream
  <2> QED BY <2>2, <2>3, <2>4 DEF Connection
<1> QED BY <1>1, <1>2

(* A code that arrives is the answer the request has earned, or the first of
   the three parts of a value. *)
LEMMA CodeArrives ==
  ASSUME NEW a, NEW q, NEW m, NEW b, NEW p, NEW e, Session(a, q, m, b, p, e),
         a.pc = "answer", b # <<>>
  PROVE  /\ a.req \in Request /\ p = "up" /\ m = <<>> /\ e # "none"
         /\ \/ /\ q.pc = "code" /\ Tail(b) = <<>>
               /\ \/ a.req.op = "get" /\ e = "missing" /\ Head(b) = 0
                  \/ a.req.op # "get" /\ e = "ok" /\ Head(b) = 1
                  \/ e = "key too long" /\ Head(b) = 2
                  \/ a.req.op = "set" /\ e = "value too long" /\ Head(b) = 3
            \/ /\ Head(b) = 1 /\ a.req.op = "get"
               /\ AnsweringLength(a.req, q, m, Tail(b), e)
<1>1. a.req \in Request /\ p = "up" /\ e # "none" /\ Answering(a.req, q, m, b, e)
  BY DEF Session, Asking
<1>2. m = <<>>
  BY <1>1 DEF Answering
<1>3. ASSUME NEW x, b = <<x>> PROVE Head(b) = x /\ Tail(b) = <<>>
  BY <1>3
<1>4. ASSUME NEW x, NEW y, b = <<x, y>> PROVE Head(b) = x /\ Tail(b) = <<y>>
  BY <1>4
<1>5. ASSUME NEW x, NEW y, NEW z, b = <<x, y, z>>
      PROVE  Head(b) = x /\ Tail(b) = <<y, z>>
  BY <1>5
<1>6. CASE /\ a.req.op = "get" /\ e \in Value
           /\ \/ q.pc = "getAnswerLength" /\ b = <<1>> /\ q.value = e
              \/ q.pc = "getAnswerValue" /\ b = <<1, ValueLen(e)>> /\ q.value = e
              \/ q.pc = "code" /\ b = <<1, ValueLen(e), e>>
  <2>1. Head(b) = 1 /\ AnsweringLength(a.req, q, m, Tail(b), e)
    BY <1>2, <1>3, <1>4, <1>5, <1>6 DEF AnsweringLength
  <2> QED BY <1>1, <1>2, <1>6, <2>1
<1>7. CASE /\ q.pc = "code"
           /\ \/ a.req.op = "get" /\ e = "missing" /\ b = <<0>>
              \/ a.req.op # "get" /\ e = "ok" /\ b = <<1>>
              \/ e = "key too long" /\ b = <<2>>
              \/ a.req.op = "set" /\ e = "value too long" /\ b = <<3>>
  BY <1>1, <1>2, <1>3, <1>7
<1> QED BY <1>1, <1>6, <1>7 DEF Answering

(* The length and the value that arrive are those of the value found. *)
LEMMA ValueArrives ==
  ASSUME NEW a, NEW q, NEW m, NEW b, NEW p, NEW e, Session(a, q, m, b, p, e),
         a.pc \in {"length", "value"}, b # <<>>
  PROVE  /\ a.req \in Request /\ p = "up" /\ m = <<>> /\ e \in Value
         /\ a.pc = "length" => AnsweringValue(a.req, q, m, Tail(b), e)
         /\ a.pc = "value" => q.pc = "code" /\ Head(b) = e /\ Tail(b) = <<>>
<1>1. ASSUME NEW x, b = <<x>> PROVE Head(b) = x /\ Tail(b) = <<>>
  BY <1>1
<1>2. ASSUME NEW x, NEW y, b = <<x, y>> PROVE Head(b) = x /\ Tail(b) = <<y>>
  BY <1>2
<1>3. CASE a.pc = "length"
  <2>1. a.req \in Request /\ p = "up" /\ AnsweringLength(a.req, q, m, b, e)
    BY <1>3 DEF Session
  <2> QED BY <1>1, <1>2, <1>3, <2>1 DEF AnsweringLength, AnsweringValue
<1>4. CASE a.pc = "value"
  <2>1. a.req \in Request /\ p = "up" /\ AnsweringValue(a.req, q, m, b, e)
    BY <1>4 DEF Session
  <2> QED BY <1>1, <1>4, <2>1 DEF AnsweringValue
<1> QED BY <1>3, <1>4

-----------------------------------------------------------------------------
(* The actions of the clients. *)

(* A client connects. *)
LEMMA ConnectInv ==
  ASSUME SessionInv, NEW c \in Client, Connect(c)
  PROVE  SessionInv'
<1>1. UNCHANGED <<w, wire, back, peer, eff, store, lock, srv>>
  BY DEF Connect, serverVars, history
<1>2. /\ DOMAIN cl' = Client /\ cl'[c].pc = "idle" /\ ClientTyped(cl'[c])
      /\ \A d \in Client \ {c} : cl'[d] = cl[d]
  BY DEF Connect, SessionInv, Shape, Local, Connection, ClientTyped
<1>3. Shape'
  BY <1>1, <1>2 DEF SessionInv, Shape
<1>4. Local(c)'
  BY <1>1, <1>2, ConnectStep DEF Connect, SessionInv, Local
<1> QED BY <1>1, <1>2, <1>3, <1>4, OthersKeep

(* A client calls. *)
LEMMA CallInv ==
  ASSUME SessionInv, NEW c \in Client, NEW r \in Request, Call(c, r)
  PROVE  SessionInv'
<1>1. UNCHANGED <<w, back, peer, store, lock, srv>>
  BY DEF Call, serverVars
<1>2. /\ DOMAIN cl' = Client /\ cl'[c].pc = "answer" /\ cl'[c].req = r
      /\ ClientTyped(cl'[c]) /\ \A d \in Client \ {c} : cl'[d] = cl[d]
  BY DEF Call, SessionInv, Shape, ClientTyped
<1>3. /\ DOMAIN wire' = Client /\ wire'[c] = wire[c] \o Message(r)
      /\ DOMAIN eff' = Client /\ eff'[c] = "none"
      /\ \A d \in Client \ {c} : wire'[d] = wire[d] /\ eff'[d] = eff[d]
  BY DEF Call, SessionInv, Shape
<1>4. Shape'
  BY <1>1, <1>2, <1>3 DEF SessionInv, Shape
<1>5. Local(c)'
  BY <1>1, <1>2, <1>3, AskStep DEF Call, SessionInv, Local
<1> QED BY <1>1, <1>2, <1>3, <1>4, <1>5, OthersKeep

(* A client says good bye. *)
LEMMA ExitInv ==
  ASSUME SessionInv, NEW c \in Client, Exit(c)
  PROVE  SessionInv'
<1>1. UNCHANGED <<w, back, peer, eff, store, lock, srv>>
  BY DEF Exit, serverVars, history
<1>2. /\ DOMAIN cl' = Client /\ cl'[c].pc = "bye" /\ ClientTyped(cl'[c])
      /\ \A d \in Client \ {c} : cl'[d] = cl[d]
  BY DEF Exit, SessionInv, Shape, Local, Connection, ClientTyped
<1>3. /\ DOMAIN wire' = Client /\ wire'[c] = Append(wire[c], 3)
      /\ \A d \in Client \ {c} : wire'[d] = wire[d]
  BY DEF Exit, SessionInv, Shape
<1>4. Shape'
  BY <1>1, <1>2, <1>3 DEF SessionInv, Shape
<1>5. Local(c)'
  BY <1>1, <1>2, <1>3, LeaveStep DEF Exit, SessionInv, Local
<1> QED BY <1>1, <1>2, <1>3, <1>4, <1>5, OthersKeep

(* A client goes: it has its last answer, its pipe is broken, or it quits. *)
LEMMA GoneInv ==
  ASSUME SessionInv, NEW c \in Client, ClientRecvBye(c) \/ BrokenPipe(c) \/ Quit(c)
  PROVE  SessionInv'
<1>1. UNCHANGED <<w, eff, store, lock, srv>>
  BY DEF ClientRecvBye, BrokenPipe, Quit, serverVars, history
<1>2. /\ DOMAIN cl' = Client /\ cl'[c].pc = "gone" /\ ClientTyped(cl'[c])
      /\ \A d \in Client \ {c} : cl'[d] = cl[d]
  BY DEF ClientRecvBye, BrokenPipe, Quit, SessionInv, Shape, Local, Connection, ClientTyped
<1>3. /\ DOMAIN back' = Client /\ \A d \in Client \ {c} : back'[d] = back[d]
      /\ DOMAIN peer' = Client /\ peer'[c] \in Peer
      /\ \A d \in Client \ {c} : peer'[d] = peer[d]
  BY DEF ClientRecvBye, BrokenPipe, Quit, SessionInv, Shape, Local, Connection, Peer
<1>4. /\ DOMAIN wire' = Client /\ \A d \in Client \ {c} : wire'[d] = wire[d]
      /\ wire'[c] = wire[c] \/ \E n \in 0 .. Len(wire[c]) : wire'[c] = SubSeq(wire[c], 1, n)
  BY DEF ClientRecvBye, BrokenPipe, Quit, SessionInv, Shape
<1>5. Shape'
  BY <1>1, <1>2, <1>3, <1>4 DEF SessionInv, Shape
<1>6. Local(c)'
  <2>1. Connection(cl[c], w[c], wire[c], back[c], peer[c], eff[c], srv)
    BY DEF SessionInv, Local
  <2>2. CASE wire'[c] = wire[c]
    BY <1>1, <1>2, <1>3, <2>1, <2>2 DEF Local, Connection, Peer
  <2>3. ASSUME NEW n \in 0 .. Len(wire[c]), wire'[c] = SubSeq(wire[c], 1, n)
        PROVE  Local(c)'
    <3>1. Stream(w[c].pc, wire[c]) => Stream(w[c].pc, SubSeq(wire[c], 1, n))
      BY Prefix
    <3> QED BY <1>1, <1>2, <1>3, <2>1, <2>3, <3>1 DEF Local, Connection, Peer
  <2> QED BY <1>4, <2>2, <2>3
<1> QED BY <1>1, <1>2, <1>3, <1>4, <1>5, <1>6, OthersKeep

(* The reset of a connection whose client has gone arrives. *)
LEMMA ResetInv ==
  ASSUME SessionInv, NEW c \in Client, ResetArrives(c)
  PROVE  SessionInv'
<1>1. UNCHANGED <<cl, w, wire, back, eff, store, lock, srv>>
  BY DEF ResetArrives, clientVars, serverVars, history
<1>2. /\ DOMAIN peer' = Client /\ peer[c] = "answered" /\ peer'[c] = "reset"
      /\ \A d \in Client \ {c} : peer'[d] = peer[d]
  BY DEF ResetArrives, SessionInv, Shape
<1>3. Shape'
  BY <1>1, <1>2 DEF SessionInv, Shape
<1>4. Local(c)'
  BY <1>1, <1>2 DEF SessionInv, Local, Connection, Session
<1> QED BY <1>1, <1>2, <1>3, <1>4, OthersKeep

(* The codes and what they mean. *)
LEMMA Codes ==
  ASSUME NEW c \in Client
  PROVE  /\ cl[c].req.op = "get" => Decode(c, 0) = Result("missing")
         /\ cl[c].req.op = "get" => Decode(c, 1) = [cl[c] EXCEPT !.pc = "length"]
         /\ cl[c].req.op # "get" => Decode(c, 1) = Result("ok")
         /\ Decode(c, 2) = Result("key too long")
         /\ cl[c].req.op = "set" => Decode(c, 3) = Result("value too long")
<1> USE DEF Decode
<1>1. cl[c].req.op = "get" => Decode(c, 0) = Result("missing")
  OBVIOUS
<1>2. cl[c].req.op = "get" => Decode(c, 1) = [cl[c] EXCEPT !.pc = "length"]
  OBVIOUS
<1>3. cl[c].req.op # "get" => Decode(c, 1) = Result("ok")
  OBVIOUS
<1>4. Decode(c, 2) = Result("key too long")
  OBVIOUS
<1>5. cl[c].req.op = "set" => Decode(c, 3) = Result("value too long")
  OBVIOUS
<1> QED BY <1>1, <1>2, <1>3, <1>4, <1>5

(* What the receipt of a code makes of a client in step: its call returns what
   the request has earned, or goes on to the length of a value. *)
LEMMA Decoded ==
  ASSUME NEW c \in Client, cl[c].pc = "answer", back[c] # <<>>,
         Session(cl[c], w[c], wire[c], back[c], peer[c], eff[c])
  PROVE  /\ cl[c].req \in Request /\ peer[c] = "up" /\ wire[c] = <<>> /\ eff[c] # "none"
         /\ \/ /\ Decode(c, Head(back[c])) = Result(eff[c])
               /\ w[c].pc = "code" /\ Tail(back[c]) = <<>>
            \/ /\ Decode(c, Head(back[c])) = [cl[c] EXCEPT !.pc = "length"]
               /\ AnsweringLength(cl[c].req, w[c], wire[c], Tail(back[c]), eff[c])
<1>1. /\ cl[c].req \in Request /\ peer[c] = "up" /\ wire[c] = <<>> /\ eff[c] # "none"
      /\ \/ /\ w[c].pc = "code" /\ Tail(back[c]) = <<>>
            /\ \/ cl[c].req.op = "get" /\ eff[c] = "missing" /\ Head(back[c]) = 0
               \/ cl[c].req.op # "get" /\ eff[c] = "ok" /\ Head(back[c]) = 1
               \/ eff[c] = "key too long" /\ Head(back[c]) = 2
               \/ cl[c].req.op = "set" /\ eff[c] = "value too long" /\ Head(back[c]) = 3
         \/ /\ Head(back[c]) = 1 /\ cl[c].req.op = "get"
            /\ AnsweringLength(cl[c].req, w[c], wire[c], Tail(back[c]), eff[c])
  BY CodeArrives, ZenonT(40)
<1>2. \/ Decode(c, Head(back[c])) = Result(eff[c]) /\ w[c].pc = "code" /\ Tail(back[c]) = <<>>
      \/ /\ Head(back[c]) = 1 /\ cl[c].req.op = "get"
         /\ AnsweringLength(cl[c].req, w[c], wire[c], Tail(back[c]), eff[c])
  <2>1. CASE cl[c].req.op = "get" /\ eff[c] = "missing" /\ Head(back[c]) = 0
    BY <1>1, <2>1, Codes
  <2>2. CASE cl[c].req.op # "get" /\ eff[c] = "ok" /\ Head(back[c]) = 1
    BY <1>1, <2>2, Codes
  <2>3. CASE eff[c] = "key too long" /\ Head(back[c]) = 2
    BY <1>1, <2>3, Codes
  <2>4. CASE cl[c].req.op = "set" /\ eff[c] = "value too long" /\ Head(back[c]) = 3
    BY <1>1, <2>4, Codes
  <2> QED BY <1>1, <2>1, <2>2, <2>3, <2>4
<1>3. CASE Head(back[c]) = 1 /\ cl[c].req.op = "get"
  BY <1>1, <1>2, <1>3, Codes
<1> QED BY <1>1, <1>2, <1>3

(* Whatever the code, the client's record stays one. *)
LEMMA DecodeTyped ==
  ASSUME NEW c \in Client, ClientTyped(cl[c]), NEW x
  PROVE  ClientTyped(Decode(c, x))
<1>1. \A r : ClientTyped(Result(r))
  BY DEF ClientTyped, Result
<1>2. ClientTyped([cl[c] EXCEPT !.pc = "length"])
  BY DEF ClientTyped
<1> QED BY <1>1, <1>2 DEF Decode

(* A client receives a part of an answer. *)
LEMMA ReceiveInv ==
  ASSUME SessionInv, NEW c \in Client,
         ClientRecvCode(c) \/ ClientRecvLength(c) \/ ClientRecvValue(c)
  PROVE  SessionInv'
<1> DEFINE a2 == cl'[c]
<1>1. UNCHANGED <<w, wire, peer, eff, store, lock, srv>>
  BY DEF ClientRecvCode, ClientRecvLength, ClientRecvValue, ClientRecv, serverVars, history
<1>2. /\ DOMAIN cl' = Client /\ \A d \in Client \ {c} : cl'[d] = cl[d]
      /\ DOMAIN back' = Client /\ \A d \in Client \ {c} : back'[d] = back[d]
  BY DEF ClientRecvCode, ClientRecvLength, ClientRecvValue, ClientRecv, SessionInv, Shape
<1>3. Shape'
  BY <1>1, <1>2 DEF SessionInv, Shape
<1>4. Connection(cl[c], w[c], wire[c], back[c], peer[c], eff[c], srv)
  BY DEF SessionInv, Local
<1>5. ClientTyped(cl[c]) /\ DOMAIN cl = Client /\ DOMAIN back = Client
  BY <1>4 DEF Connection, SessionInv, Shape
<1>6. \A r : ClientTyped(Result(r)) /\ Result(r).pc = "idle"
  BY DEF ClientTyped, Result
<1>7. \A x \in {"length", "value"} :
        /\ ClientTyped([cl[c] EXCEPT !.pc = x]) /\ [cl[c] EXCEPT !.pc = x].pc = x
        /\ [cl[c] EXCEPT !.pc = x].req = cl[c].req
  BY <1>5 DEF ClientTyped
<1>8. ClientTyped(a2)
  <2>1. CASE ClientRecvCode(c)
    BY <2>1, <1>5, <1>6, DecodeTyped DEF ClientRecvCode, ClientRecv
  <2>2. CASE ClientRecvLength(c)
    BY <2>2, <1>5, <1>6, <1>7 DEF ClientRecvLength, ClientRecv
  <2>3. CASE ClientRecvValue(c)
    BY <2>3, <1>5, <1>6 DEF ClientRecvValue, ClientRecv
  <2> QED BY <2>1, <2>2, <2>3
<1>9. CASE ServerGone(c)
  <2>1. Local(c)'
    BY <1>1, <1>4, <1>8, <1>9 DEF ServerGone, Local, Connection
  <2> QED BY <1>1, <1>2, <1>3, <2>1, OthersKeep
<1>10. CASE ~ServerGone(c)
  <2>1. srv = "running" /\ w[c].pc # "done"
    BY <1>10 DEF ServerGone
  <2>2. Session(cl[c], w[c], wire[c], back[c], peer[c], eff[c]) /\ Stream(w[c].pc, wire[c])
    BY <2>1, <1>4 DEF Connection, ClientRecvCode, ClientRecvLength, ClientRecvValue,
       ClientRecv
  <2>3. back[c] # <<>> /\ back'[c] = Tail(back[c])
    BY <1>5, <1>10 DEF ClientRecvCode, ClientRecvLength, ClientRecvValue, ClientRecv
  <2>4. Session(a2, w[c], wire[c], Tail(back[c]), peer[c], eff[c])
    <3>1. CASE ClientRecvCode(c)
      <4>1. cl[c].pc = "answer" /\ a2 = Decode(c, Head(back[c]))
        BY <3>1, <1>5, <1>10 DEF ClientRecvCode, ClientRecv
      <4>2. /\ cl[c].req \in Request /\ peer[c] = "up" /\ wire[c] = <<>> /\ eff[c] # "none"
            /\ \/ /\ Decode(c, Head(back[c])) = Result(eff[c])
                  /\ w[c].pc = "code" /\ Tail(back[c]) = <<>>
               \/ /\ Decode(c, Head(back[c])) = [cl[c] EXCEPT !.pc = "length"]
                  /\ AnsweringLength(cl[c].req, w[c], wire[c], Tail(back[c]), eff[c])
        BY <4>1, <2>2, <2>3, Decoded
      <4>3. CASE Decode(c, Head(back[c])) = Result(eff[c])
                 /\ w[c].pc = "code" /\ Tail(back[c]) = <<>>
        BY <4>1, <4>2, <4>3, <1>6 DEF Session
      <4>4. CASE /\ Decode(c, Head(back[c])) = [cl[c] EXCEPT !.pc = "length"]
                 /\ AnsweringLength(cl[c].req, w[c], wire[c], Tail(back[c]), eff[c])
        <5>1. a2.pc = "length" /\ a2.req = cl[c].req
          BY <4>1, <4>4, <1>7
        <5> QED BY <4>2, <4>4, <5>1 DEF Session
      <4> QED BY <4>2, <4>3, <4>4
    <3>2. CASE ClientRecvLength(c)
      <4>1. cl[c].pc = "length" /\ a2 = [cl[c] EXCEPT !.pc = "value"]
        BY <3>2, <1>5, <1>10 DEF ClientRecvLength, ClientRecv
      <4>2. /\ cl[c].req \in Request /\ peer[c] = "up"
            /\ AnsweringValue(cl[c].req, w[c], wire[c], Tail(back[c]), eff[c])
        BY <4>1, <2>2, <2>3, ValueArrives
      <4> QED BY <4>1, <4>2, <1>7 DEF Session
    <3>3. CASE ClientRecvValue(c)
      <4>1. cl[c].pc = "value" /\ a2 = Result(Head(back[c]))
        BY <3>3, <1>5, <1>10 DEF ClientRecvValue, ClientRecv
      <4>2. /\ peer[c] = "up" /\ wire[c] = <<>> /\ w[c].pc = "code" /\ Tail(back[c]) = <<>>
        BY <4>1, <2>2, <2>3, ValueArrives
      <4> QED BY <4>1, <4>2, <1>6 DEF Session
    <3> QED BY <3>1, <3>2, <3>3
  <2>5. Local(c)'
    BY <1>1, <1>4, <1>8, <2>2, <2>3, <2>4 DEF Local, Connection
  <2> QED BY <1>1, <1>2, <1>3, <2>5, OthersKeep
<1> QED BY <1>9, <1>10

-----------------------------------------------------------------------------
(* The actions of the workers. *)

(* What a step that sets fields of a worker's record leaves. *)
LEMMA SetWord ==
  ASSUME DOMAIN w = Client, NEW c \in Client, WorkerTyped(w[c]), NEW x, NEW y,
         w' = [w EXCEPT ![c].code = x, ![c].pc = y]
  PROVE  /\ DOMAIN w' = Client /\ \A d \in Client \ {c} : w'[d] = w[d]
         /\ DOMAIN w'[c] = {"pc", "code", "key", "value"}
         /\ w'[c].pc = y /\ w'[c].code = x
         /\ w'[c].key = w[c].key /\ w'[c].value = w[c].value
<1>1. DOMAIN w' = Client /\ \A d \in Client \ {c} : w'[d] = w[d]
  OBVIOUS
<1>2. DOMAIN w'[c] = {"pc", "code", "key", "value"}
  BY DEF WorkerTyped
<1>3. w'[c].pc = y /\ w'[c].code = x
  BY DEF WorkerTyped
<1>4. w'[c].key = w[c].key /\ w'[c].value = w[c].value
  BY DEF WorkerTyped
<1> QED BY <1>1, <1>2, <1>3, <1>4

(* The same for the pc alone. *)
LEMMA SetPc ==
  ASSUME DOMAIN w = Client, NEW c \in Client, WorkerTyped(w[c]), NEW y,
         w' = [w EXCEPT ![c].pc = y]
  PROVE  /\ DOMAIN w' = Client /\ \A d \in Client \ {c} : w'[d] = w[d]
         /\ DOMAIN w'[c] = {"pc", "code", "key", "value"}
         /\ w'[c].pc = y /\ w'[c].code = w[c].code
         /\ w'[c].key = w[c].key /\ w'[c].value = w[c].value
BY DEF WorkerTyped

(* A worker receives nothing: its client has gone, and it goes on with what it
   has, or ends. *)
LEMMA NothingReceived ==
  ASSUME SessionInv, NEW c \in Client, srv = "running", w[c].pc # "done",
         wire[c] = <<>>, peer[c] # "up",
         UNCHANGED <<cl, wire, back, peer, eff, store, lock, srv>>,
         DOMAIN w' = Client, \A d \in Client \ {c} : w'[d] = w[d], WorkerTyped(w'[c])
  PROVE  SessionInv'
<1>1. Shape'
  BY DEF SessionInv, Shape
<1>2. Local(c)'
  <2>1. Connection(cl[c], w[c], <<>>, back[c], peer[c], eff[c], "running") /\ peer[c] \in Peer
    BY DEF SessionInv, Local, Connection, Peer
  <2> QED BY <2>1, GoneStep DEF Local
<1> QED BY <1>1, <1>2, OthersKeep

(* A worker receives something, after which its connection is as it should be. *)
LEMMA SomethingReceived ==
  ASSUME SessionInv, NEW c \in Client, srv = "running",
         UNCHANGED <<cl, back, peer, eff, store, lock, srv>>,
         wire' = [wire EXCEPT ![c] = Tail(@)],
         DOMAIN w' = Client, \A d \in Client \ {c} : w'[d] = w[d],
         Connection(cl[c], w'[c], Tail(wire[c]), back[c], peer[c], eff[c], "running")
  PROVE  SessionInv'
<1>1. DOMAIN wire' = Client /\ wire'[c] = Tail(wire[c])
      /\ \A d \in Client \ {c} : wire'[d] = wire[d]
  BY DEF SessionInv, Shape
<1>2. Shape'
  BY <1>1 DEF SessionInv, Shape
<1>3. Local(c)'
  BY <1>1 DEF Local
<1> QED BY <1>1, <1>2, <1>3, OthersKeep

(* A worker whose connection is broken ends. *)
LEMMA BrokenInv ==
  ASSUME SessionInv, NEW c \in Client, NEW at, at # "done", Step(c, at), Broken(c), Fail(c)
  PROVE  SessionInv'
<1>1. /\ UNCHANGED <<cl, wire, back, peer, eff, store, lock, srv>>
      /\ srv = "running" /\ w[c].pc # "done" /\ w' = [w EXCEPT ![c].pc = "done"]
  BY DEF Fail, Step, Runs, clientVars, serverVars, history
<1>2. /\ DOMAIN w' = Client /\ \A d \in Client \ {c} : w'[d] = w[d]
      /\ WorkerTyped(w'[c])
  <2>1. DOMAIN w = Client /\ WorkerTyped(w[c])
    BY DEF SessionInv, Shape, Local, Connection
  <2> QED BY <1>1, <2>1, SetPc DEF WorkerTyped, WorkerPc
<1> QED BY <1>1, <1>2, NothingReceived DEF Broken

(* The top of the loop. *)
LEMMA RecvCodeInv ==
  ASSUME SessionInv, NEW c \in Client, RecvCode(c)
  PROVE  SessionInv'
<1>1. /\ UNCHANGED <<cl, back, peer, eff, store, lock, srv>>
      /\ srv = "running" /\ w[c].pc = "code"
  BY DEF RecvCode, RecvWord, Fail, Step, Runs, clientVars, serverVars, history
<1>2. /\ DOMAIN w = Client /\ WorkerTyped(w[c])
      /\ Connection(cl[c], w[c], wire[c], back[c], peer[c], eff[c], "running")
  BY <1>1 DEF SessionInv, Shape, Local, Connection
<1>3. \A x : Branch(x) \in {"getLength", "setLength", "delLength", "exit", "code"}
  BY DEF Branch
<1>4. ASSUME NEW x, w' = [w EXCEPT ![c].code = x, ![c].pc = Branch(x)]
      PROVE  /\ DOMAIN w' = Client /\ \A d \in Client \ {c} : w'[d] = w[d]
             /\ w'[c].pc = Branch(x) /\ WorkerTyped(w'[c])
  BY <1>2, <1>3, <1>4, SetWord, ZenonT(40) DEF WorkerTyped, WorkerPc
<1>5. CASE /\ wire[c] # <<>> /\ wire' = [wire EXCEPT ![c] = Tail(@)]
           /\ w' = [w EXCEPT ![c].code = Head(wire[c]), ![c].pc = Branch(Head(wire[c]))]
  <2>1. Connection(cl[c], w'[c], Tail(wire[c]), back[c], peer[c], eff[c], "running")
    BY <1>1, <1>2, <1>4, <1>5, CodeRead
  <2> QED BY <1>1, <1>4, <1>5, <2>1, SomethingReceived
<1>6. CASE /\ EndOfFile(c) /\ UNCHANGED wire
           /\ \E x : w' = [w EXCEPT ![c].code = x, ![c].pc = Branch(x)]
  BY <1>1, <1>4, <1>6, NothingReceived DEF EndOfFile
<1>7. CASE Broken(c) /\ Fail(c)
  BY <1>7, BrokenInv DEF RecvCode, RecvWord
<1> QED BY <1>5, <1>6, <1>7 DEF RecvCode, RecvWord

(* The receipt of a length. *)
LEMMA RecvLengthInv ==
  ASSUME SessionInv, NEW c \in Client, NEW at, NEW next,
         \/ at = "getLength" /\ next = "getKey"
         \/ at = "setLength" /\ next = "setKey"
         \/ at = "setValueLength" /\ next = "setValue"
         \/ at = "delLength" /\ next = "delKey",
         RecvWord(c, at, LAMBDA n : next)
  PROVE  SessionInv'
<1>1. /\ UNCHANGED <<cl, back, peer, eff, store, lock, srv>>
      /\ srv = "running" /\ w[c].pc = at
  BY DEF RecvWord, Fail, Step, Runs, clientVars, serverVars, history
<1>2. /\ DOMAIN w = Client /\ WorkerTyped(w[c])
      /\ Connection(cl[c], w[c], wire[c], back[c], peer[c], eff[c], "running")
  BY <1>1 DEF SessionInv, Shape, Local, Connection
<1>3. ASSUME NEW x, w' = [w EXCEPT ![c].code = x, ![c].pc = next]
      PROVE  /\ DOMAIN w' = Client /\ \A d \in Client \ {c} : w'[d] = w[d]
             /\ w'[c].pc = next /\ w'[c].code = x /\ w'[c].key = w[c].key
             /\ WorkerTyped(w'[c])
  BY <1>2, <1>3, SetWord DEF WorkerTyped, WorkerPc
<1>4. CASE /\ wire[c] # <<>> /\ wire' = [wire EXCEPT ![c] = Tail(@)]
           /\ w' = [w EXCEPT ![c].code = Head(wire[c]), ![c].pc = next]
  <2>1. Connection(cl[c], w'[c], Tail(wire[c]), back[c], peer[c], eff[c], "running")
    <3>1. /\ WorkerTyped(w'[c]) /\ w'[c].code = Head(wire[c]) /\ w'[c].key = w[c].key
          /\ w'[c].pc = next /\ wire[c] # <<>>
      BY <1>3, <1>4
    <3>2. \/ w[c].pc = "getLength" /\ w'[c].pc = "getKey"
          \/ w[c].pc = "setLength" /\ w'[c].pc = "setKey"
          \/ w[c].pc = "setValueLength" /\ w'[c].pc = "setValue"
          \/ w[c].pc = "delLength" /\ w'[c].pc = "delKey"
      BY <1>1, <3>1
    <3> QED BY <1>2, <3>1, <3>2, LengthRead
  <2> QED BY <1>1, <1>3, <1>4, <2>1, SomethingReceived
<1>5. CASE /\ EndOfFile(c) /\ UNCHANGED wire
           /\ \E x : w' = [w EXCEPT ![c].code = x, ![c].pc = next]
  BY <1>1, <1>3, <1>5, NothingReceived DEF EndOfFile
<1>6. CASE Broken(c) /\ Fail(c)
  BY <1>6, BrokenInv DEF RecvWord
<1> QED BY <1>4, <1>5, <1>6 DEF RecvWord

(* The receipt of a key or a value, given what it does to the worker. *)
LEMMA RecvBytesInv ==
  ASSUME SessionInv, NEW c \in Client, NEW at, at # "done", Step(c, at),
         WorkerTyped(w[c]) => WorkerTyped(w'[c]),
         \/ /\ wire[c] # <<>>
            /\ wire' = [wire EXCEPT ![c] = Tail(@)]
            /\ Connection(cl[c], w'[c], Tail(wire[c]), back[c], peer[c], eff[c], "running")
         \/ EndOfFile(c) /\ UNCHANGED wire,
         DOMAIN w' = Client, \A d \in Client \ {c} : w'[d] = w[d],
         UNCHANGED <<clientVars, back, peer, serverVars, budget, history>>
  PROVE  SessionInv'
<1>1. /\ UNCHANGED <<cl, back, peer, eff, store, lock, srv>>
      /\ srv = "running" /\ w[c].pc # "done" /\ WorkerTyped(w'[c])
  BY DEF Step, Runs, clientVars, serverVars, history, SessionInv, Local, Connection
<1> QED BY <1>1, SomethingReceived, NothingReceived DEF EndOfFile

(* The receipt of a key. *)
LEMMA RecvKeyInv ==
  ASSUME SessionInv, NEW c \in Client, NEW at, NEW next,
         \/ /\ at = "getKey"
            /\ next = IF w[c].code > MAX_STR_LEN THEN "getLong" ELSE "getEnter"
         \/ /\ at = "delKey"
            /\ next = IF w[c].code > MAX_STR_LEN THEN "delLong" ELSE "delEnter"
         \/ at = "setKey" /\ next = "setValueLength",
         RecvBytes(c, at, GarbageKey(c), LAMBDA k : [w[c] EXCEPT !.key = k, !.pc = next])
  PROVE  SessionInv'
<1> DEFINE Got(k) == [w[c] EXCEPT !.key = k, !.pc = next]
<1>1. /\ DOMAIN w = Client /\ WorkerTyped(w[c])
      /\ Connection(cl[c], w[c], wire[c], back[c], peer[c], eff[c], "running")
      /\ Step(c, at) /\ w[c].pc = at /\ at # "done"
  BY DEF RecvBytes, Step, Runs, SessionInv, Shape, Local, Connection
<1>2. ASSUME NEW k \in Key, w' = [w EXCEPT ![c] = Got(k)]
      PROVE  /\ DOMAIN w' = Client /\ \A d \in Client \ {c} : w'[d] = w[d]
             /\ w'[c].key = k /\ w'[c].pc = next /\ WorkerTyped(w'[c])
  <2>1. DOMAIN w' = Client /\ w'[c] = Got(k) /\ \A d \in Client \ {c} : w'[d] = w[d]
    BY <1>1, <1>2
  <2>2. DOMAIN Got(k) = {"pc", "code", "key", "value"} /\ Got(k).key = k
    BY <1>1 DEF WorkerTyped
  <2>3. Got(k).value = w[c].value /\ Got(k).pc = next
    BY <1>1 DEF WorkerTyped
  <2>4. next \in {"getLong", "getEnter", "delLong", "delEnter", "setValueLength"}
    OBVIOUS
  <2> HIDE DEF Got
  <2> QED BY <1>1, <2>1, <2>2, <2>3, <2>4 DEF WorkerTyped, WorkerPc
<1> HIDE DEF Got
<1>3. CASE /\ wire[c] # <<>> /\ w' = [w EXCEPT ![c] = Got(Head(wire[c]))]
           /\ wire' = [wire EXCEPT ![c] = Tail(@)]
           /\ UNCHANGED <<clientVars, back, peer, serverVars, budget, history>>
  <2>1. Head(wire[c]) \in Key
    BY <1>1, <1>3, ReadBytes DEF Connection
  <2>2. /\ WorkerTyped(w'[c]) /\ w'[c].key = Head(wire[c]) /\ w'[c].pc = next
        /\ DOMAIN w' = Client /\ \A d \in Client \ {c} : w'[d] = w[d]
    BY <1>2, <1>3, <2>1
  <2>3. \/ /\ w[c].pc = "getKey"
           /\ w'[c].pc = IF w[c].code > MAX_STR_LEN THEN "getLong" ELSE "getEnter"
        \/ /\ w[c].pc = "delKey"
           /\ w'[c].pc = IF w[c].code > MAX_STR_LEN THEN "delLong" ELSE "delEnter"
        \/ w[c].pc = "setKey" /\ w'[c].pc = "setValueLength"
    BY <1>1, <2>2
  <2>4. Connection(cl[c], w'[c], Tail(wire[c]), back[c], peer[c], eff[c], "running")
    BY <1>1, <1>3, <2>2, <2>3, KeyRead
  <2> QED BY <1>1, <1>3, <2>2, <2>4, RecvBytesInv
<1>4. CASE /\ EndOfFile(c) /\ \E k \in GarbageKey(c) : w' = [w EXCEPT ![c] = Got(k)]
           /\ UNCHANGED <<clientVars, wire, back, peer, serverVars, budget, history>>
  <2>1. PICK k \in Key : w' = [w EXCEPT ![c] = Got(k)]
    BY <1>4 DEF GarbageKey
  <2> QED BY <1>1, <1>2, <1>4, <2>1, RecvBytesInv
<1>5. CASE Broken(c) /\ Fail(c)
  BY <1>1, <1>5, BrokenInv
<1> QED BY <1>3, <1>4, <1>5 DEF RecvBytes, Got

(* The receipt of a value. *)
LEMMA RecvValueInv ==
  ASSUME SessionInv, NEW c \in Client, NEW next,
         next = IF KeyLen(w[c].key) > MAX_STR_LEN THEN "setKeyLong"
                ELSE IF w[c].code > MAX_STR_LEN THEN "setValueLong" ELSE "setEnter",
         RecvBytes(c, "setValue", GarbageValue(c),
                   LAMBDA v : [w[c] EXCEPT !.value = v, !.pc = next])
  PROVE  SessionInv'
<1> DEFINE Got(v) == [w[c] EXCEPT !.value = v, !.pc = next]
<1>1. /\ DOMAIN w = Client /\ WorkerTyped(w[c])
      /\ Connection(cl[c], w[c], wire[c], back[c], peer[c], eff[c], "running")
      /\ Step(c, "setValue") /\ w[c].pc = "setValue"
  BY DEF RecvBytes, Step, Runs, SessionInv, Shape, Local, Connection
<1>2. ASSUME NEW v \in Value, w' = [w EXCEPT ![c] = Got(v)]
      PROVE  /\ DOMAIN w' = Client /\ \A d \in Client \ {c} : w'[d] = w[d]
             /\ w'[c].value = v /\ w'[c].key = w[c].key /\ w'[c].pc = next
             /\ WorkerTyped(w'[c])
  <2>1. DOMAIN w' = Client /\ w'[c] = Got(v) /\ \A d \in Client \ {c} : w'[d] = w[d]
    BY <1>1, <1>2
  <2>2. DOMAIN Got(v) = {"pc", "code", "key", "value"} /\ Got(v).key = w[c].key
    BY <1>1 DEF WorkerTyped
  <2>3. Got(v).value = v /\ Got(v).pc = next
    BY <1>1 DEF WorkerTyped
  <2>4. next \in {"setKeyLong", "setValueLong", "setEnter"}
    OBVIOUS
  <2> HIDE DEF Got
  <2> QED BY <1>1, <2>1, <2>2, <2>3, <2>4 DEF WorkerTyped, WorkerPc
<1> HIDE DEF Got
<1>3. CASE /\ wire[c] # <<>> /\ w' = [w EXCEPT ![c] = Got(Head(wire[c]))]
           /\ wire' = [wire EXCEPT ![c] = Tail(@)]
           /\ UNCHANGED <<clientVars, back, peer, serverVars, budget, history>>
  <2>1. Head(wire[c]) \in Value
    BY <1>1, <1>3, ReadBytes DEF Connection
  <2>2. /\ WorkerTyped(w'[c]) /\ w'[c].value = Head(wire[c]) /\ w'[c].key = w[c].key
        /\ w'[c].pc = next
        /\ DOMAIN w' = Client /\ \A d \in Client \ {c} : w'[d] = w[d]
    BY <1>2, <1>3, <2>1
  <2>3. Connection(cl[c], w'[c], Tail(wire[c]), back[c], peer[c], eff[c], "running")
    BY <1>1, <1>3, <2>2, ValueRead
  <2> QED BY <1>1, <1>3, <2>2, <2>3, RecvBytesInv
<1>4. CASE /\ EndOfFile(c) /\ \E v \in GarbageValue(c) : w' = [w EXCEPT ![c] = Got(v)]
           /\ UNCHANGED <<clientVars, wire, back, peer, serverVars, budget, history>>
  <2>1. PICK v \in Value : w' = [w EXCEPT ![c] = Got(v)]
    BY <1>4 DEF GarbageValue
  <2> QED BY <1>1, <1>2, <1>4, <2>1, RecvBytesInv
<1>5. CASE Broken(c) /\ Fail(c)
  BY <1>1, <1>5, BrokenInv
<1> QED BY <1>3, <1>4, <1>5 DEF RecvBytes, Got

(* Every receipt of a worker. *)
LEMMA WorkerRecvInv ==
  ASSUME SessionInv, NEW c \in Client,
         \/ RecvCode(c) \/ GetRecvKey(c) \/ SetRecvKey(c) \/ SetRecvValue(c)
         \/ DelRecvKey(c)
  PROVE  SessionInv'
<1>1. CASE GetRecvKey(c)
  BY <1>1, RecvLengthInv, RecvKeyInv, Zenon DEF GetRecvKey, RecvWord, RecvBytes
<1>2. CASE SetRecvKey(c)
  BY <1>2, RecvLengthInv, RecvKeyInv, Zenon DEF SetRecvKey, RecvWord, RecvBytes
<1>3. CASE SetRecvValue(c)
  BY <1>3, RecvLengthInv, RecvValueInv, Zenon DEF SetRecvValue, RecvWord, RecvBytes
<1>4. CASE DelRecvKey(c)
  BY <1>4, RecvLengthInv, RecvKeyInv, Zenon DEF DelRecvKey, RecvWord, RecvBytes
<1> QED BY <1>1, <1>2, <1>3, <1>4, RecvCodeInv

(* The worker's record after a send. *)
LEMMA SentFields ==
  ASSUME DOMAIN w = Client, NEW c \in Client, WorkerTyped(w[c]), NEW code,
         NEW next \in WorkerPc \ {"getEnter", "getCall", "setEnter", "setCall"},
         w' = Sent(c, code, next)
  PROVE  /\ DOMAIN w' = Client /\ \A d \in Client \ {c} : w'[d] = w[d]
         /\ WorkerTyped(w'[c]) /\ w'[c].pc = next
         /\ next # "code" => w'[c].value = w[c].value
<1>1. CASE next = "code"
  <2>1. DOMAIN w' = Client /\ \A d \in Client \ {c} : w'[d] = w[d]
    BY <1>1 DEF Sent
  <2>2. w'[c] = [pc |-> next, code |-> code, key |-> "none", value |-> "none"]
    BY <1>1 DEF Sent
  <2> QED BY <1>1, <2>1, <2>2 DEF WorkerTyped, WorkerPc
<1>2. CASE next # "code"
  <2>1. DOMAIN w' = Client /\ \A d \in Client \ {c} : w'[d] = w[d]
    BY <1>2 DEF Sent
  <2>2. w'[c] = [w[c] EXCEPT !.code = code, !.pc = next]
    BY <1>2 DEF Sent
  <2>3. DOMAIN w'[c] = {"pc", "code", "key", "value"} /\ w'[c].pc = next
    BY <2>2 DEF WorkerTyped
  <2>4. w'[c].key = w[c].key /\ w'[c].value = w[c].value
    BY <2>2 DEF WorkerTyped
  <2> QED BY <2>1, <2>3, <2>4 DEF WorkerTyped
<1> QED BY <1>1, <1>2

(* A send keeps the invariant if it does so to a client that is there. *)
LEMMA SendInv ==
  ASSUME SessionInv, NEW c \in Client, NEW at, NEW x, NEW code,
         NEW next \in WorkerPc \ {"getEnter", "getCall", "setEnter", "setCall"},
         Send(c, at, x, code, next),
         at \notin {"none", "code", "getLength", "getKey", "setLength", "setKey",
                    "setValueLength", "setValue", "delLength", "delKey", "done"},
         DOMAIN eff' = Client, \A d \in Client \ {c} : eff'[d] = eff[d],
         ASSUME NEW q2, WorkerTyped(q2), q2.pc = next,
                next # "code" => q2.value = w[c].value,
                Connection(cl[c], w[c], wire[c], back[c], peer[c], eff[c], "running")
         PROVE  Connection(cl[c], q2, wire[c], Append(back[c], x), peer[c], eff'[c], "running")
  PROVE  SessionInv'
<1>1. /\ UNCHANGED <<cl, wire, store, lock>> /\ srv = "running" /\ w[c].pc = at
  BY DEF Send, Step, Runs, clientVars
<1>2. /\ DOMAIN w = Client /\ DOMAIN back = Client /\ DOMAIN peer = Client
      /\ WorkerTyped(w[c]) /\ peer[c] \in Peer
      /\ Connection(cl[c], w[c], wire[c], back[c], peer[c], eff[c], "running")
  BY <1>1 DEF SessionInv, Shape, Local, Connection, Peer
<1>3. wire[c] = <<>>
  BY <1>1, <1>2, NothingLeft DEF Connection
<1>4. CASE /\ peer[c] = "up" /\ back' = [back EXCEPT ![c] = Append(@, x)]
           /\ w' = Sent(c, code, next) /\ UNCHANGED <<peer, srv>>
  <2>1. /\ DOMAIN back' = Client /\ back'[c] = Append(back[c], x)
        /\ \A d \in Client \ {c} : back'[d] = back[d]
    BY <1>2, <1>4
  <2>2. /\ DOMAIN w' = Client /\ \A d \in Client \ {c} : w'[d] = w[d]
        /\ WorkerTyped(w'[c]) /\ w'[c].pc = next
        /\ next # "code" => w'[c].value = w[c].value
    BY <1>2, <1>4, SentFields
  <2>3. Local(c)'
    BY <1>1, <1>2, <1>4, <2>1, <2>2 DEF Local
  <2>4. Shape'
    BY <1>1, <1>4, <2>1, <2>2 DEF SessionInv, Shape
  <2> QED BY <1>1, <1>4, <2>1, <2>2, <2>3, <2>4, OthersKeep
<1>5. CASE /\ peer[c] \in {"fin", "answered"} /\ peer' = [peer EXCEPT ![c] = "answered"]
           /\ w' = Sent(c, code, next) /\ UNCHANGED <<back, srv>>
  <2>1. /\ DOMAIN peer' = Client /\ peer'[c] = "answered"
        /\ \A d \in Client \ {c} : peer'[d] = peer[d]
    BY <1>2, <1>5
  <2>2. /\ DOMAIN w' = Client /\ \A d \in Client \ {c} : w'[d] = w[d]
        /\ WorkerTyped(w'[c])
    BY <1>2, <1>5, SentFields
  <2>3. Connection(cl[c], w'[c], <<>>, back[c], "answered", eff'[c], "running")
    BY <1>1, <1>2, <1>3, <1>5, <2>2, GoneStep DEF Peer
  <2>4. Local(c)'
    BY <1>1, <1>3, <1>5, <2>1, <2>3 DEF Local
  <2>5. Shape'
    BY <1>1, <1>5, <2>1, <2>2 DEF SessionInv, Shape
  <2> QED BY <1>1, <1>5, <2>1, <2>2, <2>4, <2>5, OthersKeep
<1>6. CASE srv' = "killed" /\ UNCHANGED <<back, peer, w>>
  <2>1. Local(c)'
    BY <1>1, <1>2, <1>6 DEF Local, Connection
  <2>2. Shape'
    BY <1>1, <1>6 DEF SessionInv, Shape
  <2> QED BY <1>1, <1>6, <2>1, <2>2, OthersKeep
<1>7. CASE /\ peer[c] = "rst" /\ w' = [w EXCEPT ![c].pc = "done"]
           /\ UNCHANGED <<back, peer, srv>>
  <2>1. /\ DOMAIN w' = Client /\ \A d \in Client \ {c} : w'[d] = w[d]
        /\ WorkerTyped(w'[c]) /\ w'[c].pc = "done"
    BY <1>2, <1>7, SetPc DEF WorkerTyped, WorkerPc
  <2>2. Local(c)'
    BY <1>1, <1>2, <1>7, <2>1 DEF Local, Connection
  <2>3. Shape'
    BY <1>1, <1>7, <2>1 DEF SessionInv, Shape
  <2> QED BY <1>1, <1>7, <2>1, <2>2, <2>3, OthersKeep
<1> QED BY <1>4, <1>5, <1>6, <1>7 DEF Send

(* A refusal. *)
LEMMA RefusalInv ==
  ASSUME SessionInv, NEW c \in Client, GetTooLong(c) \/ SetTooLong(c) \/ DelTooLong(c)
  PROVE  SessionInv'
<1>1. ASSUME NEW at, NEW x, NEW refusal, SendRefusal(c, at, x, refusal),
             \/ at \in {"getLong", "delLong", "setKeyLong"} /\ x = 2 /\ refusal = "key too long"
             \/ at = "setValueLong" /\ x = 3 /\ refusal = "value too long"
      PROVE  SessionInv'
  <2>1. /\ Send(c, at, x, x, "code") /\ w[c].pc = at
        /\ DOMAIN eff' = Client /\ eff'[c] = refusal
        /\ \A d \in Client \ {c} : eff'[d] = eff[d]
    BY <1>1 DEF SendRefusal, Send, Step, SessionInv, Shape
  <2>2. ASSUME NEW q2, WorkerTyped(q2), q2.pc = "code",
               Connection(cl[c], w[c], wire[c], back[c], peer[c], eff[c], "running")
        PROVE  Connection(cl[c], q2, wire[c], Append(back[c], x), peer[c], eff'[c], "running")
    BY <1>1, <2>1, <2>2, RefuseStep
  <2>3. /\ "code" \in WorkerPc \ {"getEnter", "getCall", "setEnter", "setCall"}
        /\ at \notin {"none", "code", "getLength", "getKey", "setLength", "setKey",
                      "setValueLength", "setValue", "delLength", "delKey", "done"}
    BY <1>1 DEF WorkerPc
  <2> QED BY <2>1, <2>2, <2>3, SendInv
<1> QED BY <1>1 DEF GetTooLong, SetTooLong, DelTooLong

(* An answer that is not a refusal. *)
LEMMA AnswerInv ==
  ASSUME SessionInv, NEW c \in Client,
         GetAnswer(c) \/ SetAnswer(c) \/ DelAnswer(c) \/ WorkerExit(c)
  PROVE  SessionInv'
<1>1. ASSUME NEW at, NEW x, NEW code, NEW next, Send(c, at, x, code, next), UNCHANGED history,
             next \in {"code", "done", "getAnswerLength", "getAnswerValue"},
             at \in {"getAnswer", "getAnswerLength", "getAnswerValue", "setAnswer",
                     "delAnswer", "exit"},
             ASSUME NEW q2, WorkerTyped(q2), q2.pc = next,
                    next # "code" => q2.value = w[c].value,
                    Connection(cl[c], w[c], wire[c], back[c], peer[c], eff[c], "running"),
                    w[c].pc = at
             PROVE  Connection(cl[c], q2, wire[c], Append(back[c], x), peer[c], eff[c],
                               "running")
      PROVE  SessionInv'
  <2>1. /\ w[c].pc = at /\ eff' = eff /\ DOMAIN eff' = Client
        /\ \A d \in Client \ {c} : eff'[d] = eff[d]
    BY <1>1 DEF Send, Step, SessionInv, Shape, history
  <2>2. ASSUME NEW q2, WorkerTyped(q2), q2.pc = next,
               next # "code" => q2.value = w[c].value,
               Connection(cl[c], w[c], wire[c], back[c], peer[c], eff[c], "running")
        PROVE  Connection(cl[c], q2, wire[c], Append(back[c], x), peer[c], eff'[c], "running")
    BY <1>1, <2>1, <2>2
  <2>3. /\ next \in WorkerPc \ {"getEnter", "getCall", "setEnter", "setCall"}
        /\ at \notin {"none", "code", "getLength", "getKey", "setLength", "setKey",
                      "setValueLength", "setValue", "delLength", "delKey", "done"}
    BY <1>1 DEF WorkerPc
  <2> QED BY <1>1, <2>1, <2>2, <2>3, SendInv
<1>2. CASE SetAnswer(c) \/ DelAnswer(c)
  BY <1>1, <1>2, AckStep DEF SetAnswer, DelAnswer, SendAnswer
<1>3. CASE WorkerExit(c)
  <2>1. ASSUME NEW q2, WorkerTyped(q2), q2.pc = "done",
               Connection(cl[c], w[c], wire[c], back[c], peer[c], eff[c], "running")
        PROVE  Connection(cl[c], q2, wire[c], Append(back[c], 1), peer[c], eff[c], "running")
    BY <2>1 DEF Connection
  <2> QED BY <1>1, <1>3, <2>1 DEF WorkerExit, SendAnswer
<1>4. CASE GetAnswer(c)
  <2>1. CASE w[c].value = NoValue /\ SendAnswer(c, "getAnswer", 0, "code")
    BY <1>1, <2>1, FoundStep DEF SendAnswer
  <2>2. CASE w[c].value # NoValue /\ SendAnswer(c, "getAnswer", 1, "getAnswerLength")
    BY <1>1, <2>2, FoundStep DEF SendAnswer
  <2>3. CASE SendAnswer(c, "getAnswerLength", ValueLen(w[c].value), "getAnswerValue")
    BY <1>1, <2>3, ValueLengthStep DEF SendAnswer
  <2>4. CASE Send(c, "getAnswerValue", w[c].value, w[c].code, "code") /\ UNCHANGED history
    BY <1>1, <2>4, ValueStep
  <2> QED BY <1>4, <2>1, <2>2, <2>3, <2>4 DEF GetAnswer
<1> QED BY <1>2, <1>3, <1>4

(* The critical section. *)
LEMMA LockInv ==
  ASSUME SessionInv, NEW c \in Client, NEW at, NEW next,
         WorkerEnter(c, at, next) \/ WorkerLeave(c, at, next),
         \/ at = "getEnter" /\ next = "getCall"
         \/ at = "setEnter" /\ next = "setCall"
         \/ at = "delEnter" /\ next = "delCall"
         \/ at = "getLeave" /\ next = "getAnswer"
         \/ at = "setLeave" /\ next = "setAnswer"
         \/ at = "delLeave" /\ next = "delAnswer"
  PROVE  SessionInv'
<1>1. /\ UNCHANGED <<cl, wire, back, peer, eff, store, srv>> /\ srv = "running"
      /\ w[c].pc = at /\ w' = [w EXCEPT ![c].pc = next]
      /\ lock' \in {c, lock, "free"}
  BY DEF WorkerEnter, WorkerLeave, Enter, Leave, Step, Runs, clientVars, history
<1>2. /\ DOMAIN w = Client /\ WorkerTyped(w[c])
      /\ Connection(cl[c], w[c], wire[c], back[c], peer[c], eff[c], "running")
  BY <1>1 DEF SessionInv, Shape, Local, Connection
<1>3. /\ DOMAIN w' = Client /\ \A d \in Client \ {c} : w'[d] = w[d]
      /\ DOMAIN w'[c] = {"pc", "code", "key", "value"}
      /\ w'[c].pc = next /\ w'[c].key = w[c].key /\ w'[c].value = w[c].value
  BY <1>1, <1>2, SetPc
<1>4. WorkerTyped(w'[c])
  BY <1>1, <1>2, <1>3 DEF WorkerTyped, WorkerPc
<1>5. \/ w[c].pc = "getEnter" /\ w'[c].pc = "getCall"
      \/ w[c].pc = "setEnter" /\ w'[c].pc = "setCall"
      \/ w[c].pc = "delEnter" /\ w'[c].pc = "delCall"
      \/ w[c].pc = "getLeave" /\ w'[c].pc = "getAnswer"
      \/ w[c].pc = "setLeave" /\ w'[c].pc = "setAnswer"
      \/ w[c].pc = "delLeave" /\ w'[c].pc = "delAnswer"
  BY <1>1, <1>3
<1>6. Connection(cl[c], w'[c], wire[c], back[c], peer[c], eff[c], "running")
  BY <1>2, <1>3, <1>4, <1>5, LockStep
<1>7. Local(c)'
  BY <1>1, <1>6 DEF Local
<1>8. Shape'
  BY <1>1, <1>3 DEF SessionInv, Shape, Thread
<1> QED BY <1>1, <1>3, <1>7, <1>8, OthersKeep

(* A call of myjql. *)
LEMMA MyjqlInv ==
  ASSUME SessionInv, NEW c \in Client, NEW at, NEW after, NEW answer, NEW next,
         Myjql(c, at, after, answer, next),
         \/ /\ at = "getCall" /\ next = "getLeave"
            /\ after = store /\ answer = store[w[c].key]
         \/ /\ at = "setCall" /\ next = "setLeave"
            /\ after = [store EXCEPT ![w[c].key] = w[c].value] /\ answer = "ok"
         \/ /\ at = "delCall" /\ next = "delLeave"
            /\ after = [store EXCEPT ![w[c].key] = NoValue] /\ answer = "ok"
  PROVE  SessionInv'
<1>1. /\ UNCHANGED <<cl, wire, back, peer, lock>> /\ srv = "running" /\ w[c].pc = at
  BY DEF Myjql, Step, Runs, clientVars
<1>2. /\ DOMAIN w = Client /\ DOMAIN eff = Client /\ WorkerTyped(w[c])
      /\ store \in [Key -> Value \cup {NoValue}]
      /\ Connection(cl[c], w[c], wire[c], back[c], peer[c], eff[c], "running")
  BY <1>1 DEF SessionInv, Shape, Local, Connection
<1>3. CASE srv' = "killed" /\ UNCHANGED <<w, store, history>>
  <2>1. Shape'
    BY <1>1, <1>3 DEF SessionInv, Shape, history
  <2> QED BY <1>1, <1>3, <2>1, AllKeep DEF history
<1>4. CASE /\ store' = after /\ UNCHANGED srv
           /\ w' = [w EXCEPT ![c].pc = next,
                             ![c].value = IF at = "getCall" THEN answer ELSE @]
           /\ eff' = [eff EXCEPT ![c] = IF answer = NoValue THEN "missing" ELSE answer]
  <2>1. after \in [Key -> Value \cup {NoValue}]
    BY <1>1, <1>2 DEF WorkerTyped
  <2>2. at = "getCall" => answer \in Value \cup {NoValue}
    BY <1>1, <1>2 DEF WorkerTyped
  <2>3. DOMAIN w' = Client /\ \A d \in Client \ {c} : w'[d] = w[d]
    BY <1>2, <1>4
  <2>4. DOMAIN w'[c] = {"pc", "code", "key", "value"} /\ w'[c].key = w[c].key
    BY <1>2, <1>4 DEF WorkerTyped
  <2>5. w'[c].pc = next
    BY <1>2, <1>4 DEF WorkerTyped
  <2>6. w'[c].value = IF at = "getCall" THEN answer ELSE w[c].value
    BY <1>2, <1>4 DEF WorkerTyped
  <2>7. WorkerTyped(w'[c])
    BY <1>2, <2>2, <2>4, <2>5, <2>6 DEF WorkerTyped, WorkerPc
  <2>8. /\ DOMAIN eff' = Client /\ \A d \in Client \ {c} : eff'[d] = eff[d]
        /\ eff'[c] = IF answer = NoValue THEN "missing" ELSE answer
    BY <1>2, <1>4
  <2>9. \/ /\ w[c].pc = "getCall" /\ w'[c].pc = "getLeave"
           /\ w'[c].value \in Value \cup {NoValue}
           /\ eff'[c] = IF w'[c].value = NoValue THEN "missing" ELSE w'[c].value
        \/ w[c].pc = "setCall" /\ w'[c].pc = "setLeave" /\ eff'[c] = "ok"
        \/ w[c].pc = "delCall" /\ w'[c].pc = "delLeave" /\ eff'[c] = "ok"
    <3>1. "ok" # NoValue
      BY ServiceAssumption
    <3> QED BY <1>1, <2>2, <2>5, <2>6, <2>8, <3>1
  <2>10. Connection(cl[c], w'[c], wire[c], back[c], peer[c], eff'[c], "running")
    BY <1>2, <2>7, <2>9, StoreStep
  <2>11. Local(c)'
    BY <1>1, <1>4, <2>10 DEF Local
  <2>12. Shape'
    BY <1>1, <1>4, <2>1, <2>3, <2>8 DEF SessionInv, Shape
  <2> QED BY <1>1, <1>4, <2>3, <2>8, <2>11, <2>12, OthersKeep
<1> QED BY <1>3, <1>4 DEF Myjql

(* Every step of a worker. *)
LEMMA WorkerInv ==
  ASSUME SessionInv, NEW c \in Client, InstanceThread(c)
  PROVE  SessionInv'
<1>1. CASE GetLocked(c)
  BY <1>1, LockInv, MyjqlInv DEF GetLocked
<1>2. CASE SetLocked(c)
  BY <1>2, LockInv, MyjqlInv DEF SetLocked
<1>3. CASE DelLocked(c)
  BY <1>3, LockInv, MyjqlInv DEF DelLocked
<1> QED BY <1>1, <1>2, <1>3, WorkerRecvInv, RefusalInv, AnswerInv DEF InstanceThread

-----------------------------------------------------------------------------
(* The main thread accepts a client, or closes its socket again. *)
LEMMA AcceptInv ==
  ASSUME SessionInv, NEW c \in Client, Accept(c)
  PROVE  SessionInv'
<1>1. /\ UNCHANGED <<cl, wire, back, peer, eff, store, lock, srv>>
      /\ cl[c].pc # "out" /\ w[c].pc = "none"
  BY DEF Accept, clientVars, serverVars, history
<1>2. /\ DOMAIN w = Client /\ WorkerTyped(w[c])
      /\ Connection(cl[c], w[c], wire[c], back[c], peer[c], eff[c], srv)
  BY DEF SessionInv, Shape, Local, Connection
<1>3. PICK y \in {"code", "done"} : w' = [w EXCEPT ![c].pc = y]
  BY DEF Accept
<1>4. /\ DOMAIN w' = Client /\ \A d \in Client \ {c} : w'[d] = w[d]
      /\ DOMAIN w'[c] = {"pc", "code", "key", "value"}
      /\ w'[c].pc = y /\ w'[c].key = w[c].key /\ w'[c].value = w[c].value
  BY <1>2, <1>3, SetPc
<1>5. WorkerTyped(w'[c])
  BY <1>2, <1>4 DEF WorkerTyped, WorkerPc
<1>6. Connection(cl[c], w'[c], wire[c], back[c], peer[c], eff[c], srv)
  <2>1. Stream("none", wire[c]) => Stream("code", wire[c])
    BY DEF Stream
  <2>2. ASSUME Session(cl[c], w[c], wire[c], back[c], peer[c], eff[c]), y = "code"
        PROVE  Session(cl[c], w'[c], wire[c], back[c], peer[c], eff[c])
    BY <1>1, <1>4, <2>2 DEF Session, Asking, KeyOnTheWay, PairOnTheWay, Answering,
       AnsweringLength, AnsweringValue, Leaving
  <2> QED BY <1>1, <1>2, <1>4, <1>5, <2>1, <2>2 DEF Connection
<1>7. Local(c)'
  BY <1>1, <1>6 DEF Local
<1>8. Shape'
  BY <1>1, <1>4 DEF SessionInv, Shape
<1> QED BY <1>1, <1>4, <1>7, <1>8, OthersKeep

(* Whatever else the main thread and the handler do touches no connection. *)
LEMMA MainInv ==
  ASSUME SessionInv,
         \/ Listen \/ OpenStore \/ StartFails
         \/ \E t \in Thread : Interrupt(t) \/ exit_nicely(t)
  PROVE  SessionInv'
<1>1. CASE Listen \/ OpenStore \/ StartFails
  <2>1. /\ UNCHANGED <<cl, w, wire, back, peer, eff, store, lock>>
        /\ srv' = srv \/ srv' = "exited"
    BY <1>1 DEF Listen, OpenStore, StartFails, clientVars, history
  <2>2. Shape'
    BY <2>1 DEF SessionInv, Shape
  <2> QED BY <2>1, <2>2, AllKeep
<1>2. ASSUME NEW t \in Thread, Interrupt(t) \/ exit_nicely(t) PROVE SessionInv'
  <2>1. /\ UNCHANGED <<cl, w, wire, back, peer, eff, store>>
        /\ srv' = srv \/ srv' \in {"exited", "killed"}
    BY <1>2 DEF Interrupt, exit_nicely, HandlerEnter, CloseStore, HandlerLeave,
       DestroyLock, ExitProcess, HandlerStep, clientVars, history
  <2>2. lock' \in {lock, t, "free", "destroyed"}
    BY <1>2 DEF Interrupt, exit_nicely, HandlerEnter, CloseStore, HandlerLeave,
       DestroyLock, ExitProcess, HandlerStep, Enter, Leave
  <2>3. Shape'
    BY <2>1, <2>2 DEF SessionInv, Shape
  <2> QED BY <2>1, <2>3, AllKeep
<1> QED BY <1>1, <1>2

(* The connections before anybody has connected. *)
LEMMA InitSessionInv == Init => SessionInv
<1> SUFFICES ASSUME Init PROVE SessionInv
  OBVIOUS
<1>1. Shape
  BY DEF Init, Shape
<1>2. ASSUME NEW c \in Client PROVE Local(c)
  <2>1. /\ cl[c] = [pc |-> "out", req |-> NoRequest, code |-> 0, res |-> "none"]
        /\ w[c] = [pc |-> "none", code |-> Junk, key |-> "none", value |-> "none"]
        /\ wire[c] = <<>> /\ back[c] = <<>> /\ peer[c] = "up"
    BY DEF Init
  <2>2. ClientTyped(cl[c]) /\ WorkerTyped(w[c])
    BY <2>1 DEF ClientTyped, WorkerTyped, WorkerPc
  <2>3. Session(cl[c], w[c], wire[c], back[c], peer[c], eff[c])
    BY <2>1 DEF Session
  <2> QED BY <2>1, <2>2, <2>3, EmptyStream DEF Local, Connection
<1> QED BY <1>1, <1>2 DEF SessionInv

(* Every step keeps every connection. *)
LEMMA NextSessionInv == SessionInv /\ [Next]_vars => SessionInv'
<1> SUFFICES ASSUME SessionInv, [Next]_vars PROVE SessionInv'
  OBVIOUS
<1>1. CASE UNCHANGED vars
  <2>1. UNCHANGED <<cl, w, wire, back, peer, eff, store, lock, srv>>
    BY <1>1 DEF vars, serverVars, history
  <2>2. Shape'
    BY <2>1 DEF SessionInv, Shape
  <2> QED BY <2>1, <2>2, AllKeep
<1>2. ASSUME NEW c \in Client, get(c) \/ set(c) \/ del(c) PROVE SessionInv'
  BY <1>2, CallInv DEF get, set, del
<1>3. ASSUME NEW c \in Client, ClientReceives(c) PROVE SessionInv'
  BY <1>3, ReceiveInv, GoneInv DEF ClientReceives
<1> QED BY <1>1, <1>2, <1>3, ConnectInv, ExitInv, GoneInv, ResetInv, WorkerInv, AcceptInv,
           MainInv DEF Next

(* Every thread is where the code can take it, the store holds values only, and
   the mutex is held by a thread, is free or is destroyed, whatever the clients,
   the network and the signals do and whatever garbage a worker reads after the
   end of its input. *)
THEOREM TypeCorrect == Spec => []TypeOK
<1>1. SessionInv => TypeOK
  BY DEF SessionInv, Shape, Local, Connection, ClientTyped, WorkerTyped, TypeOK
<1> QED BY InitSessionInv, NextSessionInv, <1>1, PTL DEF Spec

(* A session that asks has on the wire what its worker has still to receive. *)
LEMMA AskingRemaining ==
  ASSUME NEW c \in Client, NEW r \in Request, Asking(r, w[c], wire[c], back[c])
  PROVE  wire[c] = Remaining(c, r)
<1> DEFINE From(n) == SubSeq(Message(r), n, Len(Message(r)))
           pc == w[c].pc
<1>1. /\ pc \in {"none", "code"} => Remaining(c, r) = From(1)
      /\ pc \in {"getLength", "setLength", "delLength"} => Remaining(c, r) = From(2)
      /\ pc \in {"getKey", "setKey", "delKey"} => Remaining(c, r) = From(3)
      /\ pc = "setValueLength" => Remaining(c, r) = From(4)
      /\ pc = "setValue" => Remaining(c, r) = From(5)
      /\ pc \notin {"none", "code", "getLength", "getKey", "setLength", "setKey",
                    "setValueLength", "setValue", "delLength", "delKey"}
           => Remaining(c, r) = <<>>
  BY DEF Remaining
<1>2. CASE r.op \in {"get", "del"}
  <2>1. PICK x : Message(r) = <<x, KeyLen(r.key), r.key>> /\ (r.op = "get" => x = 0)
                 /\ (r.op = "del" => x = 2)
    BY <1>2 DEF Message
  <2>2. /\ From(1) = <<x, KeyLen(r.key), r.key>> /\ From(2) = <<KeyLen(r.key), r.key>>
        /\ From(3) = <<r.key>>
    BY <2>1, Rest3
  <2> HIDE DEF From
  <2> QED BY <1>1, <1>2, <2>1, <2>2 DEF Asking, KeyOnTheWay
<1>3. CASE r.op = "set"
  <2>1. Message(r) = <<1, KeyLen(r.key), r.key, ValueLen(r.value), r.value>>
    BY <1>3 DEF Message
  <2>2. /\ From(1) = <<1, KeyLen(r.key), r.key, ValueLen(r.value), r.value>>
        /\ From(2) = <<KeyLen(r.key), r.key, ValueLen(r.value), r.value>>
        /\ From(3) = <<r.key, ValueLen(r.value), r.value>>
        /\ From(4) = <<ValueLen(r.value), r.value>> /\ From(5) = <<r.value>>
    BY <2>1, Rest5
  <2> HIDE DEF From
  <2> QED BY <1>1, <1>3, <2>2 DEF Asking, PairOnTheWay
<1> QED BY <1>2, <1>3, RequestFields

(* Client and worker keep step for any number of clients and requests, with
   signals, refusals and clients that quit: the worker of a client that is still
   there receives exactly the request that was sent, and the client never finds
   an answer that is not its own. *)
THEOREM KeepsStep == Spec => []InStep
<1>1. SessionInv => InStep
  <2> SUFFICES ASSUME SessionInv, srv = "running", NEW c \in Client, w[c].pc # "done",
                      cl[c].pc \in {"idle", "answer", "length", "value"}
               PROVE  /\ cl[c].pc \in {"answer", "length", "value"}
                           => wire[c] = IF eff[c] # "none" THEN <<>>
                                        ELSE Remaining(c, cl[c].req)
                      /\ cl[c].pc = "idle" => wire[c] = <<>> /\ back[c] = <<>>
    BY DEF InStep
  <2>1. Session(cl[c], w[c], wire[c], back[c], peer[c], eff[c])
    BY DEF SessionInv, Local, Connection
  <2>2. CASE cl[c].pc = "idle"
    BY <2>1, <2>2 DEF Session
  <2>3. CASE cl[c].pc = "answer"
    BY <2>1, <2>3, AskingRemaining DEF Session, Answering
  <2>4. CASE cl[c].pc \in {"length", "value"}
    <3>1. eff[c] \in Value /\ wire[c] = <<>>
      BY <2>1, <2>4 DEF Session, AnsweringLength, AnsweringValue
    <3> QED BY <2>4, <3>1, ServiceAssumption
  <2> QED BY <2>2, <2>3, <2>4
<1> QED BY InitSessionInv, NextSessionInv, <1>1, PTL DEF Spec
=============================================================================
