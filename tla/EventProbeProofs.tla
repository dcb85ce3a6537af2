--------------------------- MODULE EventProbeProofs ---------------------------
(***************************************************************************)
(* Theorems about EventProbe, for any set of CPUs and any kernel.  The        *)
(* invariant follows the control flow: which attributes are in force at each  *)
(* place (Stages), what an undisturbed check has learnt so far (Learnt), and    *)
(* what an undisturbed construction has (Scanned, Fallback).                  *)
(***************************************************************************)
EXTENDS EventProbe, FiniteSetTheorems, WellFoundedInduction, TLAPS

\* The attributes in force at each place.
Stages ==
  /\ pc \in {"lists", "scan", "terms"} => ~built /\ ~excl /\ attempt = 1
  /\ pc = "scan" => kind # "breakpoint"
  /\ pc \in {"lists", "terms"} => kind = "sysfs"
  /\ pc \notin {"lists", "scan", "terms", "unparsed"} \/ kind = "scanned" => config = "real"
  /\ pc = "idle" => built
  /\ pc = "rejected" => excl
  /\ pc \in {"proc", "system"} /\ attempt = 2 => excl
  /\ pc # "scan" => todo = {}
  /\ steady => calm

\* The thread's answer stands while nothing changes.
Learnt == calm /\ pc = "system" => proc = Opens(Self)

\* The scan of a predefined or raw event is exact while nothing changes.
Scanned ==
  steady /\ kind = "scanned" =>
    /\ \A c \in cpus : Probe("real", FALSE, c) \in allowed
    /\ \A c \in Cpus \ (cpus \cup todo) : Probe("real", FALSE, c) \notin allowed

\* What is known once the kernel is excluded.
Fallback ==
  steady /\ excl =>
    /\ Probe(config, FALSE, Self) \notin allowed
    /\ cpus # {} => \A c \in Target : Probe(config, FALSE, c) \notin allowed
    /\ kind = "scanned" => cpus = {}

ProbeInv ==
  /\ TypeOK
  /\ Stages
  /\ Learnt
  /\ Scanned
  /\ Fallback
  /\ VerdictIsExact
  /\ RejectionIsJustified

-----------------------------------------------------------------------------
\* The least supported CPU is unique.
LEMMA TargetUnique ==
  ASSUME TypeOK, cpus # {}, NEW c \in Target, NEW d \in Target
  PROVE  c = d /\ c \in cpus
<1>1. c \in cpus /\ d \in cpus /\ c <= d /\ d <= c
  BY DEF Target
<1>2. c \in Nat /\ d \in Nat
  BY <1>1, ProbeAssumption DEF TypeOK
<1> QED BY <1>1, <1>2

LEMMA InitProbeInv == Init => ProbeInv
<1> SUFFICES ASSUME Init PROVE ProbeInv
  OBVIOUS
<1> USE DEF Init, InitScanned, InitSysfs, InitBreakpoint
<1>1. TypeOK
  BY DEF TypeOK, Kinds, Working, Ended, Availability
<1>2. Stages /\ Learnt /\ Scanned /\ Fallback
  BY DEF Stages, Learnt, Scanned, Fallback
<1>3. VerdictIsExact /\ RejectionIsJustified
  BY DEF VerdictIsExact, RejectionIsJustified
<1> QED BY <1>1, <1>2, <1>3 DEF ProbeInv

LEMMA ScanKeepsInv ==
  ASSUME ProbeInv, ReadLists \/ ScanCpu \/ ScanEnds \/ ParseTerms
  PROVE  ProbeInv'
<1> USE DEF ProbeInv, TypeOK, Stages
<1>0. CASE ReadLists
  <2> USE <1>0 DEF ReadLists
  <2>1. TypeOK' /\ Stages'
    BY DEF Working, Ended
  <2>2. Scanned' /\ Learnt' /\ Fallback' /\ VerdictIsExact' /\ RejectionIsJustified'
    BY DEF Scanned, Learnt, Fallback, VerdictIsExact, RejectionIsJustified
  <2> QED BY <2>1, <2>2
<1>1. CASE ScanCpu
  <2> USE <1>1 DEF ScanCpu
  <2>1. TypeOK' /\ Stages'
    BY DEF Working, Ended
  <2>2. Scanned'
    BY DEF Scanned, Opens
  <2>3. Learnt' /\ Fallback' /\ VerdictIsExact' /\ RejectionIsJustified'
    BY DEF Learnt, Fallback, VerdictIsExact, RejectionIsJustified
  <2> QED BY <2>1, <2>2, <2>3
<1>2. CASE ScanEnds
  <2> USE <1>2 DEF ScanEnds, locals, object
  <2>1. TypeOK' /\ Stages'
    BY DEF Working, Ended, Kinds
  <2>2. Scanned' /\ Learnt' /\ Fallback' /\ VerdictIsExact' /\ RejectionIsJustified'
    BY DEF Scanned, Learnt, Fallback, VerdictIsExact, RejectionIsJustified
  <2> QED BY <2>1, <2>2
<1>3. CASE ParseTerms
  <2> USE <1>3 DEF ParseTerms, locals
  <2>1. TypeOK' /\ Stages'
    BY DEF Working, Ended, Kinds
  <2>2. Scanned' /\ Learnt' /\ Fallback' /\ VerdictIsExact' /\ RejectionIsJustified'
    BY DEF Scanned, Learnt, Fallback, VerdictIsExact, RejectionIsJustified
  <2> QED BY <2>1, <2>2
<1> QED BY <1>0, <1>1, <1>2, <1>3

LEMMA ProbeProcessKeepsInv == ASSUME ProbeInv, ProbeProcess PROVE ProbeInv'
<1> USE DEF ProbeInv, TypeOK, Stages, ProbeProcess, object
<1>1. Opens(Self) \in BOOLEAN
  BY DEF Opens
<1>2. TypeOK' /\ Stages'
  BY <1>1 DEF Working, Ended
<1>3. Learnt' /\ Scanned' /\ Fallback' /\ VerdictIsExact' /\ RejectionIsJustified'
  BY DEF Learnt, Scanned, Fallback, VerdictIsExact, RejectionIsJustified, Opens, Target
<1> QED BY <1>2, <1>3

LEMMA ProbeSystemKeepsInv == ASSUME ProbeInv, ProbeSystem PROVE ProbeInv'
<1> USE DEF ProbeInv, TypeOK, Stages
<1>1. PICK c \in Target : availability' = Verdict(proc, Opens(c))
  BY DEF ProbeSystem
<1>2. /\ pc = "system" /\ config = "real" /\ todo = {}
      /\ UNCHANGED <<allowed, todo, proc, kind, config, cpus, steady, calm>>
  BY DEF ProbeSystem
<1>3. availability' \in Availability
  BY <1>1 DEF Verdict, Availability
<1>4. TypeOK'
  BY <1>2, <1>3 DEF ProbeSystem, Working, Ended
<1>5. availability' = "UNAVAILABLE" => ~proc /\ ~Opens(c)
  BY <1>1 DEF Verdict
<1>6. cpus # {} => \A d \in Target : d = c /\ c \in cpus
  BY TargetUnique
<1>7. CASE availability' = "UNAVAILABLE" /\ attempt = 1
  <2>1. pc' = "proc" /\ attempt' = 2 /\ excl' = TRUE /\ built' = built
    BY <1>7 DEF ProbeSystem
  <2>2. Stages'
    BY <1>2, <2>1
  <2>3. Learnt' /\ Scanned' /\ VerdictIsExact' /\ RejectionIsJustified'
    BY <1>2, <2>1 DEF Learnt, Scanned, VerdictIsExact, RejectionIsJustified
  <2>4. Fallback'
    <3> SUFFICES ASSUME steady, ~excl
        PROVE  /\ Probe(config, FALSE, Self) \notin allowed
               /\ cpus # {} => \A d \in Target : Probe(config, FALSE, d) \notin allowed
               /\ kind = "scanned" => cpus = {}
      BY <1>2, <2>1 DEF Fallback, Target
    <3>1. Probe(config, FALSE, Self) \notin allowed
      BY <1>2, <1>5, <1>7 DEF Learnt, Opens
    <3>2. Probe(config, FALSE, c) \notin allowed
      BY <1>5, <1>7 DEF Opens
    <3>3. kind = "scanned" => cpus = {}
      BY <1>2, <1>6, <3>2 DEF Scanned
    <3> QED BY <1>6, <3>1, <3>2, <3>3
  <2> QED BY <1>4, <2>2, <2>3, <2>4
<1>8. CASE ~ (availability' = "UNAVAILABLE" /\ attempt = 1)
  <2>1. /\ pc' = IF availability' = "UNAVAILABLE" /\ ~built THEN "rejected" ELSE "idle"
        /\ built' = (pc' = "idle")
        /\ UNCHANGED <<attempt, excl>>
    BY <1>8 DEF ProbeSystem
  <2>2. availability' = "UNAVAILABLE" => excl
    BY <1>2, <1>8
  <2>3. Stages'
    BY <1>2, <2>1, <2>2
  <2>4. Learnt' /\ Scanned' /\ Fallback'
    BY <1>2, <2>1 DEF Learnt, Scanned, Fallback, Target
  <2>5. VerdictIsExact'
    <3> SUFFICES ASSUME calm
        PROVE  /\ ClaimsProcess' <=> Opens(Self)
               /\ cpus # {} => \A d \in Target : ClaimsSystem' <=> Opens(d)
      BY <1>2, <2>1 DEF VerdictIsExact, Opens, Target
    <3>1. ClaimsProcess' <=> proc
      BY <1>1 DEF ClaimsProcess, Verdict
    <3>2. ClaimsSystem' <=> Opens(c)
      BY <1>1 DEF ClaimsSystem, Verdict
    <3>3. proc = Opens(Self)
      BY <1>2 DEF Learnt
    <3> QED BY <1>6, <3>1, <3>2, <3>3
  <2>6. RejectionIsJustified'
    <3> SUFFICES ASSUME steady, availability' = "UNAVAILABLE"
        PROVE  /\ \A x \in BOOLEAN : Probe(config, x, Self) \notin allowed
               /\ kind = "scanned" => \A d \in Cpus : Probe(config, FALSE, d) \notin allowed
      BY <1>2, <2>1 DEF RejectionIsJustified
    <3>1. Probe(config, TRUE, Self) \notin allowed
      BY <1>2, <1>5, <2>2 DEF Learnt, Opens
    <3>2. Probe(config, FALSE, Self) \notin allowed
      BY <2>2 DEF Fallback
    <3>3. kind = "scanned" => \A d \in Cpus : Probe(config, FALSE, d) \notin allowed
      BY <1>2, <2>2 DEF Fallback, Scanned
    <3> QED BY <3>1, <3>2, <3>3
  <2> QED BY <1>4, <2>3, <2>4, <2>5, <2>6
<1> QED BY <1>7, <1>8

LEMMA CallsKeepInv ==
  ASSUME ProbeInv, Recheck \/ SetExcludeKernel
  PROVE  ProbeInv'
<1> USE DEF ProbeInv, TypeOK, Stages, locals, object
<1>1. CASE Recheck
  <2> USE <1>1 DEF Recheck
  <2>1. TypeOK' /\ Stages'
    BY DEF Working, Ended
  <2>2. Learnt' /\ Scanned' /\ VerdictIsExact' /\ RejectionIsJustified'
    BY DEF Learnt, Scanned, VerdictIsExact, RejectionIsJustified
  <2>3. Fallback'
    BY DEF Fallback, Target
  <2> QED BY <2>1, <2>2, <2>3
<1>2. CASE SetExcludeKernel
  <2> USE <1>2 DEF SetExcludeKernel
  <2>1. TypeOK' /\ Stages'
    BY DEF Working, Ended
  <2>2. Learnt' /\ Scanned' /\ Fallback' /\ VerdictIsExact' /\ RejectionIsJustified'
    BY DEF Learnt, Scanned, Fallback, VerdictIsExact, RejectionIsJustified
  <2> QED BY <2>1, <2>2
<1> QED BY <1>1, <1>2

LEMMA KernelKeepsInv == ASSUME ProbeInv, KernelChanges PROVE ProbeInv'
<1> USE DEF ProbeInv, TypeOK, Stages, KernelChanges, locals, object
<1>1. allowed' \subseteq Probes
  OBVIOUS
<1>2. TypeOK' /\ Stages'
  BY <1>1
<1>3. Learnt' /\ Scanned' /\ Fallback' /\ VerdictIsExact' /\ RejectionIsJustified'
  BY DEF Learnt, Scanned, Fallback, VerdictIsExact, RejectionIsJustified
<1> QED BY <1>2, <1>3

LEMMA NextKeepsProbeInv == ProbeInv /\ [Next]_vars => ProbeInv'
<1>1. ASSUME ProbeInv, UNCHANGED vars PROVE ProbeInv'
  BY <1>1 DEF vars, locals, object, ProbeInv, TypeOK, Stages, Learnt, Scanned,
       Fallback, VerdictIsExact, RejectionIsJustified, Target, Opens,
       ClaimsProcess, ClaimsSystem
<1> QED BY <1>1, ScanKeepsInv, ProbeProcessKeepsInv, ProbeSystemKeepsInv,
           CallsKeepInv, KernelKeepsInv DEF Next, Step

-----------------------------------------------------------------------------
(* The theorems *)

(* Every variable of EventProbe keeps its type. *)
THEOREM ProbeTypeCorrect == Spec => []TypeOK
<1>1. ProbeInv => TypeOK
  BY DEF ProbeInv
<1> QED BY <1>1, InitProbeInv, NextKeepsProbeInv, PTL DEF Spec

(* A verdict no change has overtaken is what the kernel would say now. *)
THEOREM VerdictsAreExact == Spec => []VerdictIsExact
<1>1. ProbeInv => VerdictIsExact
  BY DEF ProbeInv
<1> QED BY <1>1, InitProbeInv, NextKeepsProbeInv, PTL DEF Spec

(* Every scanned CPU of a predefined or raw event opens the event as it was   *)
(* left, with or without exclude_kernel.                                      *)
THEOREM SupportedCpusOpen == Spec => []SupportedCpusAreOpenable
<1>1. ProbeInv => SupportedCpusAreOpenable
  <2> SUFFICES ASSUME ProbeInv, pc = "idle", steady, kind = "scanned", NEW c \in cpus
               PROVE  Opens(c)
    BY DEF SupportedCpusAreOpenable
  <2>1. config = "real" /\ excl = FALSE
    BY DEF ProbeInv, TypeOK, Stages, Fallback
  <2> QED BY <2>1 DEF ProbeInv, Scanned, Opens
<1> QED BY <1>1, InitProbeInv, NextKeepsProbeInv, PTL DEF Spec

(* exclude_kernel is only set by the library where the event cannot be had    *)
(* without it.                                                                *)
THEOREM FallbacksAreNeeded == Spec => []FallbackIsLastResort
<1>1. ProbeInv => FallbackIsLastResort
  BY DEF ProbeInv, Fallback, FallbackIsLastResort
<1> QED BY <1>1, InitProbeInv, NextKeepsProbeInv, PTL DEF Spec

(* InvalidEvent is only thrown for an event nothing but a CPU with            *)
(* exclude_kernel could have opened.                                          *)
THEOREM RejectionsAreJustified == Spec => []RejectionIsJustified
<1>1. ProbeInv => RejectionIsJustified
  BY DEF ProbeInv
<1> QED BY <1>1, InitProbeInv, NextKeepsProbeInv, PTL DEF Spec

-----------------------------------------------------------------------------
(* Every check ends: what can be said of CheckEnds without fairness *)

\* The steps of the thread that are left before the end, at most.
StepsLeft ==
  IF pc = "lists" THEN Cardinality(Cpus) + 7
  ELSE IF pc = "scan" THEN Cardinality(todo) + 6
  ELSE IF pc = "terms" THEN 5
  ELSE IF pc = "proc" THEN IF attempt = 1 THEN 4 ELSE 2
  ELSE IF pc = "system" THEN IF attempt = 1 THEN 3 ELSE 1
  ELSE 0

\* Where a step needs a CPU, there is one.
CanGoOn ==
  /\ pc = "scan" /\ todo # {} => \E c \in todo : \A d \in todo : c <= d
  /\ pc = "system" => Target # {}

(* Before the end there is always a next step, each step of the thread brings the  *)
(* end nearer, and nothing the kernel does in between puts it off: a check makes    *)
(* at most four opens, and a scan one for each CPU (event_is_openable,              *)
(* update_availability, get_cpu_set_for).                                         *)
CheckIsBounded ==
  /\ [](StepsLeft \in Nat /\ CanGoOn /\ (StepsLeft = 0 <=> pc \in Ended))
  /\ [][(pc \in Working) => StepsLeft' <= StepsLeft /\ (Step => StepsLeft' < StepsLeft)]_vars

LEMMA LeastNumber ==
  ASSUME NEW S \in SUBSET Nat, S # {}
  PROVE  \E x \in S : \A y \in S : x <= y
<1>1. IsWellFoundedOn(OpToRel(<, Nat), Nat)
  BY NatLessThanWellFounded, Zenon
<1>2. PICK x \in S : \A y \in S : <<y, x>> \notin OpToRel(<, Nat)
  BY <1>1, WFMin, Zenon
<1>3. \A y \in S : ~ (y < x)
  BY <1>2, Zenon DEF OpToRel
<1> QED BY <1>3

LEMMA CountsTodo ==
  ASSUME NEW S \in SUBSET Cpus
  PROVE  /\ Cardinality(S) \in Nat
         /\ \A c \in S : Cardinality(S \ {c}) < Cardinality(S)
<1>1. IsFiniteSet(S)
  BY ProbeAssumption, FS_Subset
<1>2. Cardinality(S) \in Nat
  BY <1>1, FS_CardinalityType
<1>3. \A c \in S : Cardinality(S \ {c}) = Cardinality(S) - 1
  BY <1>1, FS_RemoveElement, Zenon
<1> QED BY <1>2, <1>3

LEMMA InvBounds ==
  ASSUME ProbeInv PROVE StepsLeft \in Nat /\ CanGoOn /\ (StepsLeft = 0 <=> pc \in Ended)
<1>1. Cardinality(todo) \in Nat /\ Cardinality(Cpus) \in Nat
  BY CountsTodo DEF ProbeInv, TypeOK
<1>2. StepsLeft \in Nat /\ (StepsLeft = 0 <=> pc \in Ended)
  BY <1>1 DEF ProbeInv, TypeOK, StepsLeft, Working, Ended
<1>3. todo # {} => \E c \in todo : \A d \in todo : c <= d
  BY LeastNumber, ProbeAssumption DEF ProbeInv, TypeOK
<1>4. Target # {}
  <2>1. cpus # {} => \E c \in cpus : \A d \in cpus : c <= d
    BY LeastNumber, ProbeAssumption DEF ProbeInv, TypeOK
  <2> QED BY <2>1 DEF Target
<1> QED BY <1>2, <1>3, <1>4 DEF CanGoOn

LEMMA StepsCount ==
  ASSUME ProbeInv, [Next]_vars, pc \in Working
  PROVE  StepsLeft' <= StepsLeft /\ (Step => StepsLeft' < StepsLeft)
<1> USE DEF StepsLeft
<1>1. /\ todo \subseteq Cpus /\ attempt \in {1, 2}
      /\ Cardinality(todo) \in Nat /\ Cardinality(Cpus) \in Nat
  BY CountsTodo DEF ProbeInv, TypeOK
<1>2. ASSUME ReadLists PROVE StepsLeft' \in Int /\ StepsLeft' < StepsLeft
  BY <1>1, <1>2 DEF ReadLists
<1>3. ASSUME ScanCpu PROVE StepsLeft' \in Int /\ StepsLeft' < StepsLeft
  <2>1. PICK c \in todo : todo' = todo \ {c} /\ pc = "scan" /\ pc' = pc
    BY <1>3 DEF ScanCpu
  <2>2. Cardinality(todo') \in Nat /\ Cardinality(todo') < Cardinality(todo)
    BY <1>1, <2>1, CountsTodo
  <2> QED BY <1>1, <2>1, <2>2
<1>4. ASSUME ScanEnds \/ ParseTerms PROVE StepsLeft' \in Int /\ StepsLeft' < StepsLeft
  BY <1>1, <1>4 DEF ScanEnds, ParseTerms, locals, ProbeInv, Stages
<1>5. ASSUME ProbeProcess \/ ProbeSystem PROVE StepsLeft' \in Int /\ StepsLeft' < StepsLeft
  BY <1>1, <1>5 DEF ProbeProcess, ProbeSystem
<1>6. CASE Recheck \/ SetExcludeKernel
  BY <1>6 DEF Recheck, SetExcludeKernel, Working
<1>7. ASSUME KernelChanges \/ UNCHANGED vars PROVE StepsLeft' = StepsLeft
  BY <1>7 DEF KernelChanges, vars, locals
<1>8. StepsLeft \in Nat
  BY InvBounds
<1> QED BY <1>2, <1>3, <1>4, <1>5, <1>6, <1>7, <1>8 DEF Next, Step

(* Every check has a bound on its steps, and never stops before its end. *)
THEOREM ChecksAreBounded == Spec => CheckIsBounded
<1>1. ProbeInv => StepsLeft \in Nat /\ CanGoOn /\ (StepsLeft = 0 <=> pc \in Ended)
  BY InvBounds
<1>2. ProbeInv /\ [Next]_vars =>
        [(pc \in Working) => StepsLeft' <= StepsLeft /\ (Step => StepsLeft' < StepsLeft)]_vars
  BY StepsCount
<1> QED BY <1>1, <1>2, InitProbeInv, NextKeepsProbeInv, PTL DEF Spec, CheckIsBounded
-----------------------------------------------------------------------------
(* What a predefined or raw event comes to *)

\* The CPUs that open a predefined or raw event, as it is configured first.
OpenCpus == {c \in Cpus : Probe("real", FALSE, c) \in allowed}

\* Neither the thread nor any CPU opens it, unless the kernel is excluded.
RefusedEverywhere == OpenCpus = {} /\ Probe("real", FALSE, Self) \notin allowed

(* In a kernel that does not change, the whole result of constructing a predefined  *)
(* or raw event, and of checking it again, follows from the kernel's answers: its   *)
(* CPUs, whether it excludes the kernel, whether there is an event at all, and what  *)
(* it claims.  The one thing left open is which CPU *cpus_.begin() of an empty set   *)
(* names: it decides about an event refused everywhere, and nothing else             *)
(* (get_cpu_set_for, event_is_openable, update_availability).                      *)
OutcomeIsPredictable ==
  steady /\ kind = "scanned" /\ pc \in {"idle", "rejected"} =>
    /\ cpus = OpenCpus
    /\ excl <=> RefusedEverywhere
    /\ ClaimsProcess <=> Probe("real", excl, Self) \in allowed
    /\ ~excl => pc = "idle" /\ (ClaimsSystem <=> OpenCpus # {})
    /\ excl => (ClaimsSystem => \E c \in Cpus : Probe("real", TRUE, c) \in allowed)
    /\ pc = "rejected" => availability = "UNAVAILABLE"

\* The last check made its claims of some CPU it may have asked, and nothing is
\* given up before the kernel is excluded.
Claimed ==
  /\ pc = "idle" /\ kind # "breakpoint" /\ availability = "UNAVAILABLE" => excl
  /\ pc = "rejected" => availability = "UNAVAILABLE"
  /\ pc \in {"idle", "rejected"} /\ calm =>
       \E c \in Target : ClaimsSystem <=> Opens(c)

LEMMA InitClaimed == Init => Claimed
BY DEF Init, InitScanned, InitSysfs, InitBreakpoint, Claimed

LEMMA NextKeepsClaimed == ProbeInv /\ Claimed /\ [Next]_vars => Claimed'
<1> SUFFICES ASSUME ProbeInv, Claimed, [Next]_vars PROVE Claimed'
  OBVIOUS
<1> USE DEF Claimed
<1>1. ASSUME ReadLists \/ ScanCpu \/ ScanEnds \/ ParseTerms \/ ProbeProcess PROVE Claimed'
  BY <1>1 DEF ReadLists, ScanCpu, ScanEnds, ParseTerms, ProbeProcess
<1>2. ASSUME ProbeSystem PROVE Claimed'
  <2>1. PICK c \in Target : availability' = Verdict(proc, Opens(c))
    BY <1>2 DEF ProbeSystem
  <2>2. /\ pc = "system" /\ UNCHANGED <<allowed, config, cpus, kind, calm>>
        /\ pc' \in {"idle", "rejected"} => excl' = excl
    BY <1>2 DEF ProbeSystem
  <2>3. pc' \in {"idle", "rejected"} => (availability' = "UNAVAILABLE" => attempt = 2 /\ excl)
    BY <1>2, <2>2 DEF ProbeSystem, ProbeInv, TypeOK, Stages
  <2>4. pc' = "rejected" => availability' = "UNAVAILABLE"
    BY <1>2 DEF ProbeSystem
  <2>5. Target' = Target /\ (pc' \in {"idle", "rejected"} => (Opens(c)' <=> Opens(c)))
    BY <2>2 DEF Target, Opens
  <2>6. ClaimsSystem' <=> Opens(c)
    BY <2>1 DEF ClaimsSystem, Verdict
  <2> QED BY <2>2, <2>3, <2>4, <2>5, <2>6
<1>3. ASSUME Recheck \/ SetExcludeKernel PROVE Claimed'
  BY <1>3 DEF Recheck, SetExcludeKernel
<1>4. ASSUME KernelChanges PROVE Claimed'
  BY <1>4 DEF KernelChanges, object
<1>5. CASE UNCHANGED vars
  BY <1>5 DEF vars, locals, object, Target, Opens, ClaimsSystem
<1> QED BY <1>1, <1>2, <1>3, <1>4, <1>5 DEF Next, Step

LEMMA ClaimsFollow == ASSUME ProbeInv, Claimed PROVE OutcomeIsPredictable
<1> SUFFICES ASSUME steady, kind = "scanned", pc \in {"idle", "rejected"}
             PROVE  OutcomeIsPredictable
  BY DEF OutcomeIsPredictable
<1> USE DEF ProbeInv, TypeOK
<1>1. config = "real" /\ calm /\ todo = {} /\ (pc = "rejected" => excl)
  BY DEF Stages
<1>2. cpus = OpenCpus
  BY <1>1 DEF Scanned, OpenCpus
<1>3. PICK c \in Target : ClaimsSystem <=> Opens(c)
  BY <1>1 DEF Claimed
<1>4. Opens(c) => c \in Cpus
  BY <1>3, ProbeAssumption DEF Target, Opens, Probes, Probe
<1>5. excl => RefusedEverywhere
  BY <1>1, <1>2 DEF Fallback, RefusedEverywhere
<1>6. ClaimsProcess <=> Probe("real", excl, Self) \in allowed
  <2>1. CASE pc = "idle"
    BY <1>1, <2>1 DEF VerdictIsExact, Opens
  <2>2. CASE pc = "rejected"
    BY <1>1, <2>2 DEF Claimed, RejectionIsJustified, ClaimsProcess
  <2> QED BY <2>1, <2>2
<1>7. ASSUME ~excl PROVE pc = "idle" /\ ~RefusedEverywhere /\ (ClaimsSystem <=> OpenCpus # {})
  <2>1. pc = "idle" /\ availability # "UNAVAILABLE"
    BY <1>1, <1>7 DEF Claimed
  <2>2. ClaimsProcess \/ ClaimsSystem
    BY <2>1 DEF ClaimsProcess, ClaimsSystem, Availability
  <2>3. \A d \in Cpus : Opens(d) <=> d \in OpenCpus
    BY <1>1, <1>7 DEF Opens, OpenCpus
  <2>4. cpus # {} => c \in cpus
    BY DEF Target
  <2>5. ClaimsSystem <=> OpenCpus # {}
    BY <1>2, <1>3, <1>4, <2>3, <2>4
  <2> QED BY <1>6, <1>7, <2>1, <2>2, <2>5 DEF RefusedEverywhere
<1>8. excl => (ClaimsSystem => \E d \in Cpus : Probe("real", TRUE, d) \in allowed)
  BY <1>1, <1>3, <1>4 DEF Opens
<1> QED BY <1>2, <1>5, <1>6, <1>7, <1>8 DEF OutcomeIsPredictable, Claimed

(* In a kernel that does not change, what a predefined or raw event comes to is a     *)
(* function of the kernel's answers, the undefined read apart.                      *)
THEOREM OutcomesArePredictable == Spec => []OutcomeIsPredictable
<1> QED BY InitProbeInv, NextKeepsProbeInv, InitClaimed, NextKeepsClaimed, ClaimsFollow, PTL
        DEF Spec
-----------------------------------------------------------------------------
(* The refinement of Construction *)

\* While the constructor runs nothing is available, and afterwards there is an
\* object or an exception.
Underway ==
  /\ pc \in {"lists", "scan", "terms"} => ~built
  /\ ~built /\ pc # "unparsed" => availability = "UNAVAILABLE"
  /\ pc \in {"rejected", "unparsed"} => ~built
  /\ kind = "scanned" => pc \notin {"lists", "terms", "unparsed"}

LEMMA InitUnderway == Init => Underway
BY DEF Init, InitScanned, InitSysfs, InitBreakpoint, Underway

LEMMA NextKeepsUnderway == Underway /\ [Next]_vars => Underway'
<1> USE DEF Underway
<1>1. ASSUME Underway, ReadLists \/ ScanCpu \/ ScanEnds \/ ParseTerms PROVE Underway'
  BY <1>1 DEF ReadLists, ScanCpu, ScanEnds, ParseTerms, locals, object
<1>2. ASSUME Underway, ProbeProcess \/ ProbeSystem PROVE Underway'
  BY <1>2 DEF ProbeProcess, ProbeSystem, object
<1>3. ASSUME Underway, Recheck \/ SetExcludeKernel \/ KernelChanges \/ UNCHANGED vars
      PROVE  Underway'
  BY <1>3 DEF Recheck, SetExcludeKernel, KernelChanges, vars, locals, object
<1> QED BY <1>1, <1>2, <1>3 DEF Next, Step

LEMMA InitConstructs == Init /\ kind = "scanned" => Service!KInit
BY DEF Init, InitScanned, InitSysfs, InitBreakpoint, Service!KInit

LEMMA StepConstructs ==
  TypeOK /\ Stages /\ Underway /\ kind = "scanned" /\ [Next]_vars => [Service!KNext]_(Service!kvars)
<1> SUFFICES ASSUME TypeOK, Stages, Underway, kind = "scanned", [Next]_vars
             PROVE  Service!KNext \/ UNCHANGED Service!kvars
  OBVIOUS
<1> USE DEF Service!kvars, Underway
<1>1. ASSUME ProbeSystem PROVE Service!KNext \/ UNCHANGED Service!kvars
  <2>1. CASE pc' = "proc"
    BY <1>1, <2>1 DEF ProbeSystem, Service!KNext, Service!Check, TypeOK
  <2>2. CASE pc' = "rejected"
    BY <1>1, <2>2 DEF ProbeSystem, Service!KNext, Service!Fail, TypeOK
  <2>3. CASE pc' = "idle" /\ ~built
    BY <1>1, <2>3 DEF ProbeSystem, Service!KNext, Service!Succeed
  <2>4. CASE pc' = "idle" /\ built
    BY <1>1, <2>4 DEF ProbeSystem, Service!KNext, Service!Check
  <2> QED BY <1>1, <2>1, <2>2, <2>3, <2>4 DEF ProbeSystem
<1>2. ASSUME ~ProbeSystem PROVE UNCHANGED Service!kvars
  <2>1. ~(ReadLists \/ ParseTerms)
    BY DEF ReadLists, ParseTerms
  <2> QED BY <1>2, <2>1 DEF Next, Step, ScanCpu, ScanEnds, ProbeProcess, Recheck,
          SetExcludeKernel, KernelChanges, vars, locals, object
<1> QED BY <1>1, <1>2

(* Whatever the kernel answers and however often it changes its mind, constructing   *)
(* a predefined or raw event is one of the two outcomes EventResolver reckons with.   *)
THEOREM ScannedEventsConstruct == Spec => ImplementsConstruction
<1>1. kind = "scanned" /\ [Next]_vars => (kind = "scanned")'
  BY DEF Next, Step, ReadLists, ScanCpu, ScanEnds, ParseTerms, ProbeProcess, ProbeSystem,
     Recheck, SetExcludeKernel, KernelChanges, vars, locals, object
<1>2. ProbeInv => TypeOK /\ Stages
  BY DEF ProbeInv
<1> QED BY <1>1, <1>2, InitProbeInv, NextKeepsProbeInv, InitUnderway, NextKeepsUnderway,
           InitConstructs, StepConstructs, PTL DEF Spec, ImplementsConstruction, Service!KSpec
=============================================================================
