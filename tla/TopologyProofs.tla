---------------------------- MODULE TopologyProofs ----------------------------
(***************************************************************************)
(* Theorems about Topology, for any machine.  The maps and the look-ups agree  *)
(* because the loop visits the CPUs in increasing order (InOrder): a CPU that  *)
(* is entered never becomes the first of a core or package that has one.       *)
(***************************************************************************)
EXTENDS Topology, TLAPS

InOrder ==
  /\ \A c \in cpus, d \in todo : c < d
  /\ pc = "start" => cpus = {} /\ todo = {}

SoFarExact ==
  quiet =>
    /\ pc # "start" => cpus \cup todo = online
    /\ pc = "done" => todo = {}
    /\ \A c \in cpus : cpu_to_core[c] = CoreId[c] /\ cpu_to_package[c] = PackageId[c]

TopologyInv ==
  /\ TypeOK
  /\ MapsAgree
  /\ InOrder
  /\ MeasuringCpusExist
  /\ SoFarExact

-----------------------------------------------------------------------------
(* A fact about the look-ups *)

\* A CPU above all others is the first with a value nobody had, and changes
\* nothing for the other values.
LEMMA FirstWithNew ==
  \A f, v : \A c \in Nat :
    DOMAIN f \subseteq Nat /\ (\A d \in DOMAIN f : d < c) =>
      \A w : FirstWith(Emplace(f, c, v), w) =
                IF w = v /\ ~ \E d \in DOMAIN f : f[d] = v
                THEN {c} ELSE FirstWith(f, w)
<1> TAKE f, v
<1> TAKE c \in Nat
<1> HAVE DOMAIN f \subseteq Nat /\ \A d \in DOMAIN f : d < c
<1> DEFINE g == Emplace(f, c, v)
<1>1. c \notin DOMAIN f
  OBVIOUS
<1>2. /\ DOMAIN g = DOMAIN f \cup {c} /\ g[c] = v
      /\ \A d \in DOMAIN f : g[d] = f[d]
  BY <1>1 DEF Emplace
<1> HIDE DEF g
<1> SUFFICES ASSUME NEW w
             PROVE  FirstWith(g, w) = IF w = v /\ ~ \E d \in DOMAIN f : f[d] = v
                                      THEN {c} ELSE FirstWith(f, w)
  BY DEF g
<1>3. CASE w = v /\ ~ \E d \in DOMAIN f : f[d] = v
  BY <1>2, <1>3 DEF FirstWith
<1>4. CASE w # v
  BY <1>2, <1>4 DEF FirstWith
<1>5. CASE w = v /\ \E d \in DOMAIN f : f[d] = v
  <2>1. FirstWith(f, w) \subseteq FirstWith(g, w)
    BY <1>2, <1>5 DEF FirstWith
  <2>2. FirstWith(g, w) \subseteq FirstWith(f, w)
    BY <1>2, <1>5 DEF FirstWith
  <2> QED BY <1>5, <2>1, <2>2
<1> QED BY <1>3, <1>4, <1>5

-----------------------------------------------------------------------------
LEMMA InitTopologyInv == Init => TopologyInv
  BY DEF Init, TopologyInv, TypeOK, MapsAgree, InOrder, MeasuringCpusExist,
       SoFarExact, NoEntries

LEMMA ReadCpuKeepsInv == ASSUME TopologyInv, ReadCpu PROVE TopologyInv'
<1> USE DEF TopologyInv
<1>0. PICK c \in todo :
        /\ \A d \in todo : c <= d
        /\ todo' = todo \ {c}
        /\ \E core_id \in Answers(c, CoreId), package_id \in Answers(c, PackageId) :
             /\ cpus' = cpus \cup {c}
             /\ cores' = cores \cup {core_id}
             /\ packages' = packages \cup {package_id}
             /\ cpu_to_core' = Emplace(cpu_to_core, c, core_id)
             /\ core_to_package' = Emplace(core_to_package, core_id, package_id)
             /\ cpu_to_package' = Emplace(cpu_to_package, c, package_id)
  BY DEF ReadCpu
<1>1. PICK core_id \in Answers(c, CoreId), package_id \in Answers(c, PackageId) :
        /\ \A d \in todo : c <= d
        /\ todo' = todo \ {c}
        /\ cpus' = cpus \cup {c}
        /\ cores' = cores \cup {core_id}
        /\ packages' = packages \cup {package_id}
        /\ cpu_to_core' = Emplace(cpu_to_core, c, core_id)
        /\ core_to_package' = Emplace(core_to_package, core_id, package_id)
        /\ cpu_to_package' = Emplace(cpu_to_package, c, package_id)
  BY <1>0
<1>2. pc = "loop" /\ UNCHANGED <<online, pc, hypervised, quiet>>
  BY DEF ReadCpu
<1>3. /\ c \in Machine /\ c \in Nat /\ c \notin cpus
      /\ \A d \in cpus : d \in Nat /\ d < c
      /\ core_id \in Ids /\ package_id \in Ids
  BY TopologyAssumption DEF TypeOK, InOrder, Answers
<1>4. /\ DOMAIN cpu_to_core' = cpus \cup {c} /\ cpu_to_core'[c] = core_id
      /\ \A d \in cpus : cpu_to_core'[d] = cpu_to_core[d]
  BY <1>1, <1>3 DEF MapsAgree, Emplace
<1>5. /\ DOMAIN cpu_to_package' = cpus \cup {c} /\ cpu_to_package'[c] = package_id
      /\ \A d \in cpus : cpu_to_package'[d] = cpu_to_package[d]
  BY <1>1, <1>3 DEF MapsAgree, Emplace
<1>6. /\ DOMAIN core_to_package' = cores \cup {core_id}
      /\ \A k \in cores : core_to_package'[k] = core_to_package[k]
      /\ core_id \notin cores => core_to_package'[core_id] = package_id
  BY <1>1 DEF MapsAgree, Emplace
<1>7. TypeOK'
  BY <1>1, <1>2, <1>3, <1>4, <1>5, <1>6 DEF TypeOK
<1>8. MapsAgree'
  <2>1. cores' = {cpu_to_core'[d] : d \in cpus'}
    BY <1>1, <1>4 DEF MapsAgree
  <2>2. packages' = {cpu_to_package'[d] : d \in cpus'}
    BY <1>1, <1>5 DEF MapsAgree
  <2>3. \A k \in cores' : core_to_package'[k] \in packages'
    BY <1>1, <1>6 DEF MapsAgree, package_of_core
  <2> QED BY <1>1, <1>4, <1>5, <1>6, <2>1, <2>2, <2>3 DEF MapsAgree, package_of_core
<1>9. InOrder'
  <2>1. \A d \in todo : d \in Nat
    BY TopologyAssumption DEF TypeOK
  <2> QED BY <1>1, <1>2, <1>3, <2>1 DEF InOrder
<1>10. MeasuringCpusExist'
  <2>1. \A k : FirstWith(cpu_to_core', k) =
                 IF k = core_id /\ core_id \notin cores THEN {c}
                 ELSE FirstWith(cpu_to_core, k)
    <3>1. core_id \in cores <=> \E d \in DOMAIN cpu_to_core : cpu_to_core[d] = core_id
      BY DEF MapsAgree
    <3>2. DOMAIN cpu_to_core \subseteq Nat /\ \A d \in DOMAIN cpu_to_core : d < c
      BY <1>3 DEF MapsAgree
    <3> QED BY <1>1, <1>3, <3>1, <3>2, FirstWithNew
  <2>2. \A p : FirstWith(cpu_to_package', p) =
                 IF p = package_id /\ package_id \notin packages THEN {c}
                 ELSE FirstWith(cpu_to_package, p)
    <3>1. package_id \in packages
            <=> \E d \in DOMAIN cpu_to_package : cpu_to_package[d] = package_id
      BY DEF MapsAgree
    <3>2. DOMAIN cpu_to_package \subseteq Nat /\ \A d \in DOMAIN cpu_to_package : d < c
      BY <1>3 DEF MapsAgree
    <3> QED BY <1>1, <1>3, <3>1, <3>2, FirstWithNew
  <2>3. \A k \in cores' : FirstWith(cpu_to_core', k) # {}
    BY <1>1, <2>1 DEF MeasuringCpusExist, measuring_cpu_for_core
  <2>4. \A p \in packages' : FirstWith(cpu_to_package', p) # {}
    BY <1>1, <2>2 DEF MeasuringCpusExist, measuring_cpu_for_package
  <2>5. ASSUME NEW k \in cores', NEW d \in FirstWith(cpu_to_core', k)
        PROVE  core_to_package'[k] = cpu_to_package'[d]
    <3>1. CASE k \notin cores
      BY <1>1, <1>5, <1>6, <2>1, <2>5, <3>1
    <3>2. CASE k \in cores
      <4>1. d \in FirstWith(cpu_to_core, k)
        BY <2>1, <2>5, <3>2
      <4>2. d \in cpus
        BY <4>1 DEF FirstWith, MapsAgree
      <4> QED BY <1>5, <1>6, <3>2, <4>1, <4>2
           DEF MeasuringCpusExist, measuring_cpu_for_core, package_of_core, package_of_cpu
    <3> QED BY <3>1, <3>2
  <2> QED BY <2>3, <2>4, <2>5
       DEF MeasuringCpusExist, measuring_cpu_for_core, measuring_cpu_for_package,
           package_of_core, package_of_cpu
<1>11. SoFarExact'
  <2> SUFFICES ASSUME quiet
      PROVE  /\ cpus' \cup todo' = online
             /\ \A d \in cpus' : /\ cpu_to_core'[d] = CoreId[d]
                                 /\ cpu_to_package'[d] = PackageId[d]
    BY <1>2 DEF SoFarExact
  <2>1. cpus \cup todo = online /\ c \in online
    BY <1>2 DEF SoFarExact
  <2>2. core_id = CoreId[c] /\ package_id = PackageId[c]
    BY <2>1 DEF Answers
  <2> QED BY <1>1, <1>4, <1>5, <2>1, <2>2 DEF SoFarExact
<1> QED BY <1>7, <1>8, <1>9, <1>10, <1>11

LEMMA NextKeepsTopologyInv == TopologyInv /\ [Next]_vars => TopologyInv'
<1> SUFFICES ASSUME TopologyInv, [Next]_vars PROVE TopologyInv'
  OBVIOUS
<1> USE DEF TopologyInv
<1>1. CASE ReadOnline \/ ReadCpuinfo \/ Hotplug \/ UNCHANGED vars
  <2>1. UNCHANGED <<sets, maps>>
    BY <1>1 DEF ReadOnline, ReadCpuinfo, Hotplug, vars
  <2>2. TypeOK'
    BY <1>1, <2>1, TopologyAssumption
    DEF sets, maps, ReadOnline, ReadCpuinfo, Hotplug, vars, TypeOK
  <2>3. MapsAgree' /\ MeasuringCpusExist'
    BY <2>1 DEF sets, maps, MapsAgree, MeasuringCpusExist, measuring_cpu_for_core,
         measuring_cpu_for_package, package_of_core, package_of_cpu
  <2>4. InOrder'
    BY <1>1, <2>1 DEF sets, ReadOnline, ReadCpuinfo, Hotplug, vars, InOrder
  <2>5. SoFarExact'
    BY <1>1, <2>1 DEF sets, maps, ReadOnline, ReadCpuinfo, Hotplug, vars, InOrder, SoFarExact
  <2> QED BY <2>2, <2>3, <2>4, <2>5
<1> QED BY <1>1, ReadCpuKeepsInv DEF Next

-----------------------------------------------------------------------------
(* The theorems *)

(* Every variable of Topology keeps its type. *)
THEOREM TopologyTypeCorrect == Spec => []TypeOK
<1>1. TopologyInv => TypeOK
  BY DEF TopologyInv
<1> QED BY <1>1, InitTopologyInv, NextKeepsTopologyInv, PTL DEF Spec

(* Sets and maps describe the same CPUs, cores and packages. *)
THEOREM TopologyAgrees == Spec => []MapsAgree
<1>1. TopologyInv => MapsAgree
  BY DEF TopologyInv
<1> QED BY <1>1, InitTopologyInv, NextKeepsTopologyInv, PTL DEF Spec

(* Every core and package has a CPU to measure it on, and that CPU is in the   *)
(* package the core is said to be in.                                          *)
THEOREM MeasuringCpusAgree == Spec => []MeasuringCpusExist
<1>1. TopologyInv => MeasuringCpusExist
  BY DEF TopologyInv
<1> QED BY <1>1, InitTopologyInv, NextKeepsTopologyInv, PTL DEF Spec

(* A topology read while nothing changed is that of the machine. *)
THEOREM TopologyIsExact == Spec => []ExactWhenQuiet
<1>1. TopologyInv => ExactWhenQuiet
  BY DEF TopologyInv, SoFarExact, ExactWhenQuiet
<1> QED BY <1>1, InitTopologyInv, NextKeepsTopologyInv, PTL DEF Spec
=============================================================================
