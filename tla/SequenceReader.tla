---------------------------- MODULE SequenceReader ----------------------------
(***************************************************************************)
(* What a reader of a buffer promises to the gateware that uses it: it     *)
(* shows the first item after a restart and from then on the next one for  *)
(* every next, round and round the first limit items, each as it was when  *)
(* it was asked for; it keeps showing it until it is asked again, whatever *)
(* is written meanwhile.                                                   *)
(***************************************************************************)
EXTENDS Integers

CONSTANTS
  Depth,           \* number of items the buffer holds
  Values           \* items

VARIABLES
  items,           \* the buffer
  limit,           \* number of items to read
  upcoming,        \* index of the item next asks for
  data             \* the item shown

vars == <<items, limit, upcoming, data>>

Index == 0 .. Depth - 1

After(i) == IF i = limit - 1 THEN 0 ELSE i + 1

Init ==
  /\ items \in [Index -> Values]
  /\ limit \in 1 .. Depth
  /\ upcoming = 0
  /\ data = 0

Restart ==
  /\ limit' \in 1 .. Depth
  /\ data' = items[0]
  /\ upcoming' = After(0)'

Advance ==
  /\ data' = items[upcoming]
  /\ upcoming' = After(upcoming)
  /\ UNCHANGED limit

Keep == UNCHANGED <<limit, upcoming, data>>

Write ==
  \/ \E i \in Index, v \in Values : items' = [items EXCEPT ![i] = v]
  \/ UNCHANGED items

Next == (Restart \/ Advance \/ Keep) /\ Write

Spec == Init /\ [][Next]_vars
=============================================================================
