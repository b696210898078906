-------------------------- MODULE MC_VoiceJobs --------------------------
(* Two jobs on one upload for TLC. *)
EXTENDS VoiceJobs

CONSTANTS j1, j2, u

MC_Job == {j1, j2}
MC_Upload == {u}
MC_Main == [j \in MC_Job |-> u]

=============================================================================
