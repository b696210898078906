---------------------------- MODULE DurableDoc ----------------------------
(***************************************************************************)
(* What saving a document that is edited in memory promises, whatever the  *)
(* timers and the queue of writes do: the stored copy is some earlier      *)
(* state of the document and only ever moves forward; whoever opens the    *)
(* file after the memory is gone goes on from the stored copy.             *)
(* A document is the number of changes in it.                              *)
(***************************************************************************)
EXTENDS Naturals

VARIABLES mem,   \* changes in the document in memory
          disk   \* changes in the stored copy

Init == mem = 0 /\ disk = 0

Change == mem' = mem + 1 /\ UNCHANGED disk

Persist ==
  /\ disk' \in disk .. mem
  /\ UNCHANGED mem

Lose == mem' = disk /\ UNCHANGED disk

Next == Change \/ Persist \/ Lose

Spec == Init /\ [][Next]_<<mem, disk>>
=============================================================================
