--------------------------- MODULE MC_LiveSync ---------------------------
(* Small instances of LiveSync for TLC. *)
EXTENDS LiveSync, TLC

CONSTANTS a, b    \* two browser tabs

(* Each change needs the one before it of the same client (a node, then its *)
(* properties).                                                             *)
Chain == [op \in Op |-> IF op[2] = 1 THEN {} ELSE {<<op[1], op[2] - 1>>}]
(* A node of a, a property of it, and one more that b sets.                 *)
Node == [op \in Op |-> IF op = <<a, 1>> THEN {} ELSE {<<a, 1>>}]
None == {}

TwoClients == {a, b}
QuotaOneOne == (a :> 1) @@ (b :> 1)
QuotaTwoOne == (a :> 2) @@ (b :> 1)
ConnTwoTwo  == (a :> 2) @@ (b :> 2)
PictureOfB  == {<<b, 1>>}
QuotaTwoTwo == (a :> 2) @@ (b :> 2)
ConnThreeOne == (a :> 3) @@ (b :> 1)
ConnTwoOne  == (a :> 2) @@ (b :> 1)
=============================================================================
