------------------------------- MODULE RowTable -------------------------------
(***************************************************************************)
(* What table.h promises: items by RID.  An insertion may use any RID that *)
(* is free; a RID keeps its item until it is deleted.                      *)
(***************************************************************************)
CONSTANTS RID, Item, NoItem

VARIABLE rows   \* rows[rid]: what table_read finds

Init == rows = [rid \in RID |-> NoItem]

(* No row other than rid changes. *)
OthersKept(rid) == \A r \in RID \ {rid} : rows'[r] = rows[r]

Insert(rid, x) ==
  /\ rows[rid] = NoItem /\ rows'[rid] = x
  /\ OthersKept(rid)

Delete(rid) ==
  /\ rows[rid] # NoItem /\ rows'[rid] = NoItem
  /\ OthersKept(rid)

Next == \E rid \in RID : (\E x \in Item : Insert(rid, x)) \/ Delete(rid)

Spec == Init /\ [][Next]_rows
=============================================================================
