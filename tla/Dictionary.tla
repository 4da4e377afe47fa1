------------------------------ MODULE Dictionary ------------------------------
(***************************************************************************)
(* What myjql.h promises: one map from keys to values.                     *)
(***************************************************************************)
CONSTANTS Key, Value, NoValue

VARIABLES
  kv,    \* the map; NoValue where there is no value
  last   \* the last call and what it returned

Init ==
  /\ kv = [k \in Key |-> NoValue]
  /\ last = [op |-> "open"]

Get(k) ==
  /\ last' = [op |-> "get", key |-> k, ret |-> kv[k]]
  /\ UNCHANGED kv

Set(k, v) ==
  /\ kv' = [kv EXCEPT ![k] = v]
  /\ last' = [op |-> "set", key |-> k, value |-> v]

Del(k) ==
  /\ kv' = [kv EXCEPT ![k] = NoValue]
  /\ last' = [op |-> "del", key |-> k]

(* Closed and opened again, the map is the same. *)
Reopen ==
  /\ last' = [op |-> "open"]
  /\ UNCHANGED kv

Next ==
  \/ \E k \in Key : Get(k) \/ (\E v \in Value : Set(k, v)) \/ Del(k)
  \/ Reopen

Spec == Init /\ [][Next]_<<kv, last>>
=============================================================================
