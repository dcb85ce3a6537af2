--------------------------- MODULE MCEventResolver ---------------------------
(* Instances of EventResolver for TLC: one PMU has all event files, which is    *)
(* one, and any other PMU none.  The sysfs name slash denotes the file.         *)
EXTENDS EventResolver

CONSTANTS slash, file1, pmu1

MCFileOf == [n \in Sysfs |-> IF n = slash THEN file1 ELSE NoFile]

MCPmuOf == [f \in Files |-> pmu1]
=============================================================================
