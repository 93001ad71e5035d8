------------------------------- MODULE MCStartUp -------------------------------
(* StartUp with the routes and schedules of MCMissedRun and the channels of MCNotify. *)
EXTENDS StartUp, MCMissedRun, MCNotify

MCStartUpSymmetry == MCSymmetry \union Symmetric
=============================================================================
