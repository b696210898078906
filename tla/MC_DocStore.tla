-------------------------- MODULE MC_DocStore --------------------------
(* Two editors for TLC. *)
EXTENDS DocStore

CONSTANTS root, x, y

MC_Client == 1 .. 2
MC_Session == 1 .. 3
MC_First == <<1, 3>>
MC_OneNode == {root, x}
MC_Node == {root, x, y}
MC_Drawn == {x}
MC_DeletedOnly == {"deleted"}
MC_Key == {"deleted", "name"}
MC_MaxEdit == <<3, 1>>

(* Where the file is sent to somebody, there is one edit less. *)
Few == edits[1] + edits[2] + loads <= 4

=============================================================================
