-------------------------- MODULE MC_FileStore --------------------------
(* Two tabs that may change places, and two rooms that may. *)
EXTENDS FileStore, TLC

CONSTANTS a, b, first, second

MC_Tab == {a, b}
MC_Room == {first, second}
Alike == {s @@ p : s \in Permutations(MC_Tab), p \in Permutations(MC_Room)}

(* No more than four at a time of: tabs and rooms in use, starts of the     *)
(* server, ways in which work may have been lost, a writer met by a         *)
(* deletion.                                                                *)
Used == {t \in Tab : pc[t] # "idle"} \cup {r \in Room : life[r] # "new"}
Few == Cardinality(Used) + starts + Cardinality(hole) + (IF late THEN 1 ELSE 0) <= 4

=============================================================================
