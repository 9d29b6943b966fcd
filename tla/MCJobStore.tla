----------------------------- MODULE MCJobStore -----------------------------
(* Values for the constants of JobStore in the TLC runs. *)
EXTENDS JobStore, TLC

CONSTANTS j1, j2

Planned == j1 :> 1 @@ j2 :> 2
=============================================================================
