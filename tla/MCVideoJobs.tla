---------------------------- MODULE MCVideoJobs ----------------------------
(* Small instances of VideoJobs: jobs whose real cost differs from the      *)
(* estimate in either direction.                                            *)
EXTENDS VideoJobs, TLC

CONSTANTS j1, j2

MCDelta     == j1 :> "more" @@ j2 :> "less"
MCDeltaLess == j1 :> "less"
=============================================================================
