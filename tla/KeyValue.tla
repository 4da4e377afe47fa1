------------------------------- MODULE KeyValue -------------------------------
(***************************************************************************)
(* What MyJQL promises its clients (README.md, Usage): set, get and del on *)
(* one map from keys to values, each taking effect at one moment between   *)
(* its call and its return, and each returning what it found at that       *)
(* moment.  Keys and values that are too long are refused and change       *)
(* nothing.                                                                *)
(***************************************************************************)
CONSTANTS Client, Request, NoRequest, NoValue, Refuses(_), Refusal(_)

VARIABLES
  kv,    \* the map
  call,  \* call[c]: c's request, while it is being served
  ans,   \* ans[c]: "none" until it has taken effect, then its answer
  res    \* res[c]: what c's last call returned

vars == <<kv, call, ans, res>>

Answer(r) ==
  IF r.op = "get" THEN IF kv[r.key] = NoValue THEN "missing" ELSE kv[r.key]
  ELSE "ok"

Effect(r) ==
  CASE r.op = "get" -> kv
    [] r.op = "set" -> [kv EXCEPT ![r.key] = r.value]
    [] r.op = "del" -> [kv EXCEPT ![r.key] = NoValue]

Init ==
  /\ \A k \in DOMAIN kv : kv[k] = NoValue
  /\ call = [c \in Client |-> NoRequest]
  /\ ans = [c \in Client |-> "none"]
  /\ res = [c \in Client |-> "none"]

Call(c, r) ==
  /\ call[c] = NoRequest
  /\ call' = [call EXCEPT ![c] = r]
  /\ ans' = [ans EXCEPT ![c] = "none"]
  /\ res' = [res EXCEPT ![c] = "none"]
  /\ UNCHANGED kv

Do(c) ==
  LET r == call[c]
  IN  /\ call[c] # NoRequest /\ ans[c] = "none"
      /\ kv' = IF Refuses(r) THEN kv ELSE Effect(r)
      /\ ans' = [ans EXCEPT ![c] = IF Refuses(r) THEN Refusal(r) ELSE Answer(r)]
      /\ UNCHANGED <<call, res>>

Return(c) ==
  /\ call[c] # NoRequest /\ ans[c] # "none"
  /\ res' = [res EXCEPT ![c] = ans[c]]
  /\ call' = [call EXCEPT ![c] = NoRequest]
  /\ UNCHANGED <<kv, ans>>

Next == \E c \in Client : (\E r \in Request : Call(c, r)) \/ Do(c) \/ Return(c)

Spec == Init /\ [][Next]_vars
=============================================================================
