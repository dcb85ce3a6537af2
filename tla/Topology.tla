------------------------------- MODULE Topology -------------------------------
(***************************************************************************)
(* Topology::read_proc: the singleton that reads once which CPUs are online    *)
(* and which core and package each is on, one pair of sysfs files after the    *)
(* other, while CPUs may come and go.  Core ids are only unique in a package.   *)
(***************************************************************************)
EXTENDS Integers

CONSTANTS Machine,    \* the CPUs that can be online
          Ids,        \* values of core_id and package_id, and of what memory holds
          CoreId,     \* CoreId[c] : what the kernel's core_id file says of c
          PackageId,
          Guest       \* /proc/cpuinfo has the flag hypervisor

ASSUME TopologyAssumption ==
  /\ Machine \subseteq Nat
  /\ CoreId \in [Machine -> Ids]
  /\ PackageId \in [Machine -> Ids]
  /\ Guest \in BOOLEAN

VARIABLES
  online,            \* the CPUs that are online now
  pc,                \* "start", "loop" or "done"
  todo,              \* the CPUs of the list that have not been visited
  cpus, cores, packages,                          \* cpus_, cores_, packages_
  cpu_to_core, core_to_package, cpu_to_package,   \* the maps
  hypervised,        \* hypervised_
  quiet              \* history: no CPU came or went so far

sets == <<cpus, cores, packages>>
maps == <<cpu_to_core, core_to_package, cpu_to_package>>
vars == <<online, pc, todo, sets, maps, hypervised, quiet>>

\* Mutant: the entry is replaced.
EmplaceOverwrites(f, k, v) ==
  [x \in DOMAIN f \cup {k} |-> IF x = k THEN v ELSE f[x]]

\* Mutant: a new entry is not made.
EmplaceOnlyUpdates(f, k, v) == [f EXCEPT ![k] = v]

\* std::map::emplace: an entry that is there stays as it is.
Emplace(f, k, v) ==
  [x \in DOMAIN f \cup {k} |-> IF x \in DOMAIN f THEN f[x] ELSE v]

TypeOK ==
  /\ online \subseteq Machine
  /\ pc \in {"start", "loop", "done"}
  /\ todo \subseteq Machine
  /\ cpus \subseteq Machine /\ cores \subseteq Ids /\ packages \subseteq Ids
  /\ DOMAIN cpu_to_core \subseteq Machine /\ DOMAIN cpu_to_package \subseteq Machine
  /\ DOMAIN core_to_package \subseteq Ids
  /\ hypervised \in BOOLEAN /\ quiet \in BOOLEAN

NoEntries == [x \in {} |-> x]

Init ==
  /\ online \in SUBSET Machine
  /\ pc = "start" /\ todo = {}
  /\ cpus = {} /\ cores = {} /\ packages = {}
  /\ cpu_to_core = NoEntries /\ core_to_package = NoEntries
  /\ cpu_to_package = NoEntries
  /\ hypervised = FALSE
  /\ quiet = TRUE

\* parse_list_from_file(".../cpu/online")
ReadOnline ==
  /\ pc = "start"
  /\ pc' = "loop" /\ todo' = online
  /\ UNCHANGED <<online, sets, maps, hypervised, quiet>>

\* Mutant: an id that cannot be read is -1.
AnswersMinusOne(c, id) == IF c \in online THEN {id[c]} ELSE {-1}

\* Mutant: the id is used before it is read.
AnswersBeforeRead(c, id) == Ids

\* What a variable holds after `stream >> id`: the id the file names, or, when
\* the CPU has gone offline and its files with it, what it held uninitialised.
Answers(c, id) == IF c \in online THEN {id[c]} ELSE Ids

\* One turn of the loop, over the CPUs in increasing order.
ReadCpu ==
  /\ pc = "loop"
  /\ \E c \in todo :
       /\ \A d \in todo : c <= d
       /\ todo' = todo \ {c}
       /\ \E core_id \in Answers(c, CoreId), package_id \in Answers(c, PackageId) :
            /\ cpus' = cpus \cup {c}
            /\ cores' = cores \cup {core_id}
            /\ packages' = packages \cup {package_id}
            /\ cpu_to_core' = Emplace(cpu_to_core, c, core_id)
            /\ core_to_package' = Emplace(core_to_package, core_id, package_id)
            /\ cpu_to_package' = Emplace(cpu_to_package, c, package_id)
  /\ UNCHANGED <<online, pc, hypervised, quiet>>

\* After the loop, /proc/cpuinfo.
ReadCpuinfo ==
  /\ pc = "loop" /\ todo = {}
  /\ pc' = "done"
  /\ hypervised' = Guest
  /\ UNCHANGED <<online, todo, sets, maps, quiet>>

Hotplug ==
  /\ \E c \in Machine : online' = IF c \in online THEN online \ {c} ELSE online \cup {c}
  /\ quiet' = FALSE
  /\ UNCHANGED <<pc, todo, sets, maps, hypervised>>

Next == ReadOnline \/ ReadCpu \/ ReadCpuinfo \/ Hotplug

Spec == Init /\ [][Next]_vars

-----------------------------------------------------------------------------
(* The queries *)

\* std::find_if over a map ordered by CPU: the least CPU with that value, as a
\* set that is empty for Cpu::invalid().
FirstWith(f, v) ==
  {c \in DOMAIN f : f[c] = v /\ \A d \in DOMAIN f : f[d] = v => c <= d}

measuring_cpu_for_core(k) == FirstWith(cpu_to_core, k)
measuring_cpu_for_package(p) == FirstWith(cpu_to_package, p)

\* package_of: the two specialisations, std::map::at.
package_of_cpu(c) == cpu_to_package[c]
package_of_core(k) == core_to_package[k]

-----------------------------------------------------------------------------
(* Properties *)

(* Sets and maps always describe the same CPUs, cores and packages, whatever   *)
(* the files held: no accessor given an element of cpus(), cores() or of        *)
(* core_of() throws out_of_range (the six emplaces of read_proc).              *)
MapsAgree ==
  /\ cpus = DOMAIN cpu_to_core /\ cpus = DOMAIN cpu_to_package
  /\ cores = DOMAIN core_to_package
  /\ cores = {cpu_to_core[c] : c \in cpus}
  /\ packages = {cpu_to_package[c] : c \in cpus}
  /\ \A k \in cores : package_of_core(k) \in packages

(* Every core and every package that is listed has a CPU to measure it on, and *)
(* the package of a core is the package of that CPU, even when two packages     *)
(* number their cores alike or a file could not be read: the maps and the        *)
(* look-ups both go by the first CPU.                                          *)
MeasuringCpusExist ==
  /\ \A k \in cores : measuring_cpu_for_core(k) # {}
  /\ \A p \in packages : measuring_cpu_for_package(p) # {}
  /\ \A k \in cores : \A c \in measuring_cpu_for_core(k) :
       package_of_core(k) = package_of_cpu(c)

(* If no CPU comes or goes while it is read, the topology is that of the       *)
(* machine: the CPUs that are online, each on its core and in its package.     *)
ExactWhenQuiet ==
  pc = "done" /\ quiet =>
    /\ cpus = online
    /\ \A c \in cpus : cpu_to_core[c] = CoreId[c] /\ cpu_to_package[c] = PackageId[c]
=============================================================================
