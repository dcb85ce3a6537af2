----------------------------- MODULE MCEventProbe -----------------------------
(* Instance of EventProbe for TLC: the model values stay below the CPUs. *)
EXTENDS EventProbe

MCCpus == 0 .. 1
=============================================================================
