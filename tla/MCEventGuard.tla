----------------------------- MODULE MCEventGuard -----------------------------
(* EventGuard for TLC.  The guards are not interchangeable for the refinement, *)
(* so no symmetry is declared.                                                 *)
EXTENDS EventGuard
=============================================================================
