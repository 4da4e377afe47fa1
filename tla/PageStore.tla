----------------------------- MODULE PageStore ------------------------------
(***************************************************************************)
(* What the buffer pool promises its callers: a growing array of pages     *)
(* that is changed by writes through a page the caller holds, and by       *)
(* nothing else.  There are no frames here, no victims and no disk: which  *)
(* pages are cached, when one is written back and what closing and         *)
(* reopening the file does must not be visible.                            *)
(***************************************************************************)
EXTENDS Integers

CONSTANTS NPages, Page, EMPTY_PAGE

VARIABLES
  mem,   \* contents of every page
  len,   \* number of pages the file has
  pins,  \* how many times the callers hold each page
  open   \* the store is open

Pages == 0 .. NPages - 1

Init ==
  /\ mem = [a \in Pages |-> EMPTY_PAGE]
  /\ len = 0
  /\ pins = [a \in Pages |-> 0]
  /\ open = FALSE

Open == /\ ~open
        /\ open' = TRUE
        /\ UNCHANGED <<mem, len, pins>>

Close == /\ open
         /\ \A a \in Pages : pins[a] = 0
         /\ open' = FALSE
         /\ UNCHANGED <<mem, len, pins>>

(* Taking the page just past the end adds an empty page. *)
Get(a) == /\ open
          /\ a <= len
          /\ pins' = [pins EXCEPT ![a] = @ + 1]
          /\ len' = IF a = len THEN len + 1 ELSE len
          /\ UNCHANGED <<mem, open>>

Put(a, v) == /\ pins[a] > 0
             /\ mem' = [mem EXCEPT ![a] = v]
             /\ UNCHANGED <<len, pins, open>>

Release(a) == /\ pins[a] > 0
              /\ pins' = [pins EXCEPT ![a] = @ - 1]
              /\ UNCHANGED <<mem, len, open>>

Next ==
  \/ Open
  \/ Close
  \/ \E a \in Pages : \/ Get(a)
                      \/ Release(a)
                      \/ \E v \in Page : Put(a, v)

vars == <<mem, len, pins, open>>

Spec == Init /\ [][Next]_vars
=============================================================================
