------------------------------ MODULE MCTopology ------------------------------
(* Four CPUs on two packages that number their cores alike; 7 is what happens  *)
(* to be in the memory of an id that was not read.                             *)
EXTENDS Topology

MCMachine == 0 .. 3
MCIds == {0, 1, 7}
MCCoreId == [c \in MCMachine |-> c % 2]
MCPackageId == [c \in MCMachine |-> c \div 2]
=============================================================================
