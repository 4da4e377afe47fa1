---------------------------- MODULE FreeSpaceMap ----------------------------
(***************************************************************************)
(* What hash_map.h promises: a set of (size, block) pairs, from which the  *)
(* block of the smallest sufficient size can be taken.  Which of several   *)
(* blocks of that size is taken is left open.                              *)
(***************************************************************************)
EXTENDS Integers

CONSTANTS Sizes, Blocks

VARIABLES
  content,  \* the pairs in the map
  asked,    \* the size the last call asked for, Void if it asked for none
  ret       \* the result of the last call, Void if it has none

Void == -2

Init == content = {} /\ asked = Void /\ ret = Void

Insert(s, b) ==
  /\ \A t \in Sizes : <<t, b>> \notin content
  /\ content' = content \cup {<<s, b>>}
  /\ asked' = Void /\ ret' = Void

Pop(s, b) ==
  /\ <<s, b>> \in content
  /\ content' = content \ {<<s, b>>}
  /\ asked' = Void /\ ret' = Void

Suitable(s) == {p \in content : p[1] >= s}

PopLowerBound(s) ==
  /\ asked' = s
  /\ \/ /\ Suitable(s) = {}
        /\ ret' = -1
        /\ UNCHANGED content
     \/ \E p \in Suitable(s) :
          /\ \A q \in Suitable(s) : p[1] <= q[1]
          /\ ret' = p[2]
          /\ content' = content \ {p}

(* Closing and opening change nothing. *)
Reopen == asked' = Void /\ ret' = Void /\ UNCHANGED content

Next ==
  \/ Reopen
  \/ \E s \in Sizes : \/ PopLowerBound(s)
                      \/ \E b \in Blocks : Insert(s, b) \/ Pop(s, b)

Spec == Init /\ [][Next]_<<content, asked, ret>>
=============================================================================
