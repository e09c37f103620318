------------------------ MODULE MCMissionForwarding ------------------------
(* Small instances of MissionForwarding. *)
EXTENDS MissionForwarding

CONSTANTS m1, m2
=============================================================================
