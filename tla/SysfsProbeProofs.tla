--------------------------- MODULE SysfsProbeProofs ---------------------------
(***************************************************************************)
(* The constructor of SysfsEventAttr implements both of its halves, for any      *)
(* descriptions, PMUs, CPUs and kernels.  What is needed of the other half is     *)
(* little (Handover): to the parsing that a scan finds CPUs of the topology, to   *)
(* the probing that nothing is listed or to be tried before the lists are read.   *)
(***************************************************************************)
EXTENDS SysfsProbe, TLAPS

Handover ==
  /\ pmu \in Parse!Pmus
  /\ cpus \subseteq Cpus /\ todo \subseteq Cpus
  /\ pc \in Files => cpus = {} /\ todo = {}

LEMMA InitHandover == SInit => Handover
BY DEF SInit, Handover

LEMMA ListsFit ==
  ASSUME Handover
  PROVE  Parse!ListOf(pmu.cpus) \subseteq Cpus /\ Parse!ListOf(pmu.cpumask) \subseteq Cpus
BY DEF Handover, Parse!Pmus, Parse!ListOf

LEMMA NextKeepsHandover == Handover /\ [SNext]_svars => Handover'
<1> SUFFICES ASSUME Handover, [SNext]_svars PROVE Handover'
  OBVIOUS
<1> USE DEF Handover, Files, disk, kernel, parsed, probed
<1>1. ASSUME FindEvent PROVE Handover'
  BY <1>1 DEF FindEvent
<1>2. ASSUME ListCpus PROVE Handover'
  BY <1>2, ListsFit DEF ListCpus
<1>3. ASSUME ScanCpus PROVE Handover'
  BY <1>3 DEF ScanCpus
<1>4. ASSUME ParseTerm PROVE Handover'
  BY <1>4 DEF ParseTerm, Parse!Fate
<1>5. ASSUME FinishParsing \/ ProbeThread PROVE Handover'
  BY <1>5 DEF FinishParsing, ProbeThread
<1>6. ASSUME ProbeCpu PROVE Handover'
  BY <1>6 DEF ProbeCpu
<1>7. ASSUME CheckAgain \/ ExcludeKernel \/ PmuChanges \/ KernelChanges PROVE Handover'
  BY <1>7 DEF CheckAgain, ExcludeKernel, PmuChanges, KernelChanges
<1>8. CASE UNCHANGED svars
  BY <1>8 DEF svars
<1> QED BY <1>1, <1>2, <1>3, <1>4, <1>5, <1>6, <1>7, <1>8 DEF SNext, SStep

-----------------------------------------------------------------------------
(* The parsing *)

LEMMA InitParses == SInit => Parse!Init
BY DEF SInit, Parse!Init, Probing

\* Nothing the parsing knows of.
LEMMA ParsingStutters ==
  ASSUME UNCHANGED <<disk, parsed>>, UNCHANGED cpus \/ (pc = "scan" /\ pc' = "scan"),
         pc' = pc \/ (pc \in Probing /\ pc' \in Probing)
  PROVE  UNCHANGED Parse!vars
BY DEF disk, parsed, Parse!vars, Parse!env, Parse!object, Probing

LEMMA StepsParse == Handover /\ [SNext]_svars => [Parse!Next]_(Parse!vars)
<1> SUFFICES ASSUME Handover, [SNext]_svars PROVE Parse!Next \/ UNCHANGED Parse!vars
  OBVIOUS
<1> USE DEF Parse!Next, Parse!Step
<1>1. ASSUME FindEvent PROVE Parse!ReadType \/ Parse!ReadEvent
  BY <1>1 DEF FindEvent, Parse!ReadType, Parse!ReadEvent, Parse!env, Parse!object,
     disk, parsed, Probing
<1>2. ASSUME ListCpus PROVE Parse!ReadCpus \/ Parse!ReadCpumask
  BY <1>2 DEF ListCpus, Parse!ReadCpus, Parse!ReadCpumask, Parse!env, disk, parsed, Probing
<1>3. ASSUME ScanCpus PROVE Parse!Scan \/ UNCHANGED Parse!vars
  <2>1. CASE pc' = pc
    BY <1>3, <2>1, ParsingStutters DEF ScanCpus
  <2>2. CASE pc' # pc
    BY <1>3, <2>2 DEF ScanCpus, Handover, Parse!Scan, Parse!env, disk, parsed, Probing
  <2> QED BY <2>1, <2>2
<1>4. ASSUME ParseTerm PROVE Parse!ReadTerm
  BY <1>4 DEF ParseTerm, Parse!Fate, Parse!ReadTerm, Parse!env, disk, Probing
<1>5. ASSUME FinishParsing PROVE Parse!ReadScale
  BY <1>5 DEF FinishParsing, Parse!ReadScale, Parse!env, disk, Probing
<1>6. ASSUME ProbeThread \/ ProbeCpu \/ CheckAgain \/ ExcludeKernel \/ KernelChanges
      PROVE  UNCHANGED Parse!vars
  BY <1>6, ParsingStutters
     DEF ProbeThread, ProbeCpu, CheckAgain, ExcludeKernel, KernelChanges, Probing
<1>7. ASSUME PmuChanges PROVE Parse!PmuComesOrGoes
  BY <1>7 DEF PmuChanges, Parse!PmuComesOrGoes, Parse!Ended, Parse!object, disk, parsed, Files,
     Probing
<1>8. CASE UNCHANGED svars
  BY <1>8, ParsingStutters DEF svars
<1> QED BY <1>1, <1>2, <1>3, <1>4, <1>5, <1>6, <1>7, <1>8 DEF SNext, SStep

-----------------------------------------------------------------------------
(* The probing *)

LEMMA InitProbes == SInit => Probe!Init
BY DEF SInit, Probe!Init, Probe!InitSysfs, Files, Probing

\* Nothing the probing knows of: a file is read between "type" and the lists, or
\* a term is parsed.
LEMMA ProbingStutters ==
  ASSUME UNCHANGED <<kernel, probed, cpus>>, pc' = pc \/ (pc \in Files /\ pc' \in Files)
  PROVE  UNCHANGED Probe!vars
BY DEF kernel, probed, Probe!vars, Probe!locals, Probe!object, Files, Probing

LEMMA StepsProbe == Handover /\ [SNext]_svars => [Probe!Next]_(Probe!vars)
<1> SUFFICES ASSUME Handover, [SNext]_svars PROVE Probe!Next \/ UNCHANGED Probe!vars
  OBVIOUS
<1> USE DEF Probe!Next, Probe!Step, Probe!locals, Probe!object, kernel, probed, Files, Probing
<1>1. ASSUME FindEvent PROVE Probe!ReadLists \/ UNCHANGED Probe!vars
  <2>1. CASE pc' \in Files
    BY <1>1, <2>1, ProbingStutters DEF FindEvent
  <2>2. CASE pc' \notin Files
    BY <1>1, <2>2 DEF FindEvent, Probe!ReadLists
  <2> QED BY <2>1, <2>2
<1>2. ASSUME ListCpus PROVE Probe!ReadLists \/ UNCHANGED Probe!vars
  <2>1. CASE pc' = "cpumask"
    <3>1. cpus' = cpus /\ todo' = todo
      BY <1>2, <2>1 DEF ListCpus, Handover
    <3> QED BY <1>2, <2>1, <3>1, ProbingStutters DEF ListCpus
  <2>2. CASE pc' # "cpumask"
    BY <1>2, <2>2, ListsFit DEF ListCpus, Handover, Probe!ReadLists
  <2> QED BY <2>1, <2>2
<1>3. ASSUME ScanCpus PROVE Probe!ScanCpu \/ Probe!ScanEnds
  BY <1>3 DEF ScanCpus, Probe!ScanCpu, Probe!ScanEnds
<1>4. ASSUME ParseTerm PROVE Probe!ParseTerms \/ UNCHANGED Probe!vars
  <2>1. CASE pc' = pc
    BY <1>4, <2>1, ProbingStutters DEF ParseTerm
  <2>2. CASE pc' # pc
    BY <1>4, <2>2 DEF ParseTerm, Parse!Fate, Probe!ParseTerms
  <2> QED BY <2>1, <2>2
<1>5. ASSUME FinishParsing PROVE Probe!ParseTerms
  BY <1>5 DEF FinishParsing, Probe!ParseTerms
<1>6. ASSUME ProbeThread PROVE Probe!ProbeProcess
  BY <1>6 DEF ProbeThread, Probe!ProbeProcess
<1>7. ASSUME ProbeCpu PROVE Probe!ProbeSystem
  BY <1>7 DEF ProbeCpu, Probe!ProbeSystem
<1>8. ASSUME CheckAgain PROVE Probe!Recheck
  BY <1>8 DEF CheckAgain, Probe!Recheck
<1>9. ASSUME ExcludeKernel PROVE Probe!SetExcludeKernel
  BY <1>9 DEF ExcludeKernel, Probe!SetExcludeKernel
<1>10. ASSUME KernelChanges PROVE Probe!KernelChanges
  BY <1>10 DEF KernelChanges, Probe!KernelChanges
<1>11. ASSUME PmuChanges PROVE UNCHANGED Probe!vars
  BY <1>11, ProbingStutters DEF PmuChanges
<1>12. CASE UNCHANGED svars
  BY <1>12, ProbingStutters DEF svars
<1> QED BY <1>1, <1>2, <1>3, <1>4, <1>5, <1>6, <1>7, <1>8, <1>9, <1>10, <1>11, <1>12
        DEF SNext, SStep

-----------------------------------------------------------------------------
(* The theorems *)

(* The constructor parses as SysfsEvent does, although its scan asks a kernel      *)
(* that changes.                                                                 *)
THEOREM ConstructorParses == SSpec => ImplementsSysfsEvent
<1> QED BY InitHandover, NextKeepsHandover, InitParses, StepsParse, PTL
        DEF SSpec, ImplementsSysfsEvent, Parse!Spec

(* The constructor and the checks after it probe as EventProbe does, although its  *)
(* CPUs and its configuration come from files that change.                        *)
THEOREM ConstructorProbes == SSpec => ImplementsEventProbe
<1> QED BY InitHandover, NextKeepsHandover, InitProbes, StepsProbe, PTL
        DEF SSpec, ImplementsEventProbe, Probe!Spec

-----------------------------------------------------------------------------
(* What comes out of the two halves together *)

SoFar(attribute) ==
  UNION {Parse!Contribution(description[i], attribute) : i \in 1 .. pos - 1}

\* The words are made of the terms before pos, which in the end are all.
Configured ==
  /\ pos \in Nat /\ pos >= 1
  /\ \E n \in Nat : DOMAIN description = 1 .. n
  /\ 1 .. pos - 1 \subseteq DOMAIN description
  /\ config = SoFar("config") /\ config1 = SoFar("config1")
  /\ pc \in Probing => pos \notin DOMAIN description

\* While the driver stays, a list is only passed over for being empty.
Listed ==
  quiet =>
    /\ pc \notin {"type", "invalid"} => registered
    /\ pc \in {"cpumask", "scan"} => pmu.cpus = {}
    /\ pc \in {"terms"} \cup Probing /\ pmu.cpus # {} => cpus = pmu.cpus

\* While the kernel stays, its last answers are still its answers.
Answered ==
  calm =>
    /\ pc = "system" => proc = Probe!Opens(Self)
    /\ pc = "idle" =>
         /\ Probe!ClaimsProcess <=> Probe!Opens(Self)
         /\ \E c \in Probe!Target : Probe!ClaimsSystem <=> Probe!Opens(c)

\* A new event is idle for the first time after its check.
LEMMA InitWhole == SInit => Configured /\ Listed /\ Answered
<1> SUFFICES ASSUME SInit PROVE Configured /\ Listed /\ Answered
  OBVIOUS
<1>1. PICK n \in 1 .. MaxTerms : description \in [1 .. n -> Terms]
  BY DEF SInit, Parse!Descriptions
<1>2. DOMAIN description = 1 .. n /\ n \in Nat
  BY <1>1
<1>3. 1 .. pos - 1 = {}
  BY DEF SInit
<1>4. SoFar("config") = {} /\ SoFar("config1") = {}
  BY <1>3, Zenon DEF SoFar
<1>5. Configured
  BY <1>2, <1>3, <1>4 DEF SInit, Configured, Probing
<1> QED BY <1>5 DEF SInit, Listed, Answered, Probing

LEMMA ConfiguredStays ==
  ASSUME Configured, UNCHANGED <<description, pos, config, config1>>,
         pc' \in Probing => pos \notin DOMAIN description
  PROVE  Configured'
BY DEF Configured, SoFar

LEMMA TermKeepsConfigured == ASSUME Configured, ParseTerm PROVE Configured'
<1> DEFINE t == description[pos]
<1>1. pc = "terms" /\ pos \in DOMAIN description /\ UNCHANGED description
  BY DEF ParseTerm, disk
<1>2. CASE UNCHANGED <<pos, config, config1>>
  BY <1>1, <1>2, ConfiguredStays DEF ParseTerm, Parse!Fate, Probing
<1>3. CASE ~ UNCHANGED <<pos, config, config1>>
  <2>1. /\ config' = config \cup Parse!Contribution(t, "config")
        /\ config1' = config1 \cup Parse!Contribution(t, "config1")
        /\ pos' = pos + 1 /\ pc' = "terms"
    BY <1>1, <1>3 DEF ParseTerm
  <2>2. 1 .. pos' - 1 = (1 .. pos - 1) \cup {pos}
    BY <2>1 DEF Configured
  <2>3. /\ SoFar("config")' = SoFar("config") \cup Parse!Contribution(t, "config")
        /\ SoFar("config1")' = SoFar("config1") \cup Parse!Contribution(t, "config1")
    BY <1>1, <2>2, Zenon DEF SoFar
  <2>4. /\ config' = SoFar("config")' /\ config1' = SoFar("config1")'
        /\ 1 .. pos' - 1 \subseteq DOMAIN description
    BY <1>1, <2>1, <2>2, <2>3 DEF Configured
  <2> QED BY <1>1, <2>1, <2>4 DEF Configured, Probing
<1> QED BY <1>2, <1>3

LEMMA NextKeepsConfigured == Configured /\ [SNext]_svars => Configured'
<1> SUFFICES ASSUME Configured, [SNext]_svars, ~ ParseTerm PROVE Configured'
  BY TermKeepsConfigured
<1> USE DEF disk, parsed
<1>1. UNCHANGED <<description, pos, config, config1>>
  BY DEF SNext, SStep, svars, FindEvent, ListCpus, ScanCpus, FinishParsing, ProbeThread,
     ProbeCpu, CheckAgain, ExcludeKernel, PmuChanges, KernelChanges
<1>2. pc' \in Probing => pc \in Probing \/ pos \notin DOMAIN description
  BY DEF SNext, SStep, svars, FindEvent, ListCpus, ScanCpus, FinishParsing, ProbeThread,
     ProbeCpu, CheckAgain, ExcludeKernel, PmuChanges, KernelChanges, Probing
<1> QED BY <1>1, <1>2, ConfiguredStays DEF Configured

LEMMA NextKeepsListed == Listed /\ [SNext]_svars => Listed'
<1> SUFFICES ASSUME Listed, [SNext]_svars PROVE Listed'
  OBVIOUS
<1> USE DEF Listed, Probing, disk
<1>1. ASSUME FindEvent \/ ListCpus PROVE Listed'
  BY <1>1 DEF FindEvent, ListCpus, Parse!ListOf
<1>2. ASSUME ScanCpus \/ ParseTerm \/ FinishParsing PROVE Listed'
  BY <1>2 DEF ScanCpus, ParseTerm, FinishParsing, Parse!Fate
<1>3. ASSUME ProbeThread \/ ProbeCpu \/ CheckAgain \/ ExcludeKernel PROVE Listed'
  BY <1>3 DEF ProbeThread, ProbeCpu, CheckAgain, ExcludeKernel
<1>4. ASSUME PmuChanges \/ KernelChanges \/ UNCHANGED svars PROVE Listed'
  BY <1>4 DEF PmuChanges, KernelChanges, svars
<1> QED BY <1>1, <1>2, <1>3, <1>4 DEF SNext, SStep

\* A step to "idle" or "system" is a check's, or leaves what was answered alone.
LEMMA NextKeepsAnswered == Answered /\ [SNext]_svars => Answered'
<1> SUFFICES ASSUME Answered, [SNext]_svars PROVE Answered'
  OBVIOUS
<1> USE DEF Answered, Probing, kernel
<1>1. ASSUME FindEvent \/ ListCpus \/ ScanCpus \/ ParseTerm \/ FinishParsing PROVE Answered'
  BY <1>1 DEF FindEvent, ListCpus, ScanCpus, ParseTerm, FinishParsing, Parse!Fate
<1>2. ASSUME ProbeThread PROVE Answered'
  BY <1>2 DEF ProbeThread, Probe!Opens
<1>3. ASSUME ProbeCpu PROVE Answered'
  <2> SUFFICES ASSUME calm', pc' = "idle"
      PROVE  /\ Probe!ClaimsProcess' <=> Probe!Opens(Self)'
             /\ \E c \in Probe!Target' : Probe!ClaimsSystem' <=> Probe!Opens(c)'
    BY <1>3 DEF ProbeCpu
  <2>1. PICK c \in Probe!Target : availability' = Probe!Verdict(proc, Probe!Opens(c))
    BY <1>3 DEF ProbeCpu
  <2>2. /\ pc = "system" /\ calm
        /\ UNCHANGED <<allowed, proc, excl, cpus>>
    BY <1>3 DEF ProbeCpu
  <2>3. \A d : Probe!Opens(d)' <=> Probe!Opens(d)
    BY <2>2 DEF Probe!Opens
  <2>4. Probe!Target' = Probe!Target
    BY <2>2 DEF Probe!Target
  <2>5. Probe!ClaimsProcess' <=> proc
    BY <2>1 DEF Probe!ClaimsProcess, Probe!Verdict
  <2>6. Probe!ClaimsSystem' <=> Probe!Opens(c)
    BY <2>1 DEF Probe!ClaimsSystem, Probe!Verdict
  <2> QED BY <2>2, <2>3, <2>4, <2>5, <2>6
<1>4. ASSUME CheckAgain \/ ExcludeKernel \/ KernelChanges PROVE Answered'
  BY <1>4 DEF CheckAgain, ExcludeKernel, KernelChanges
<1>5. ASSUME PmuChanges \/ UNCHANGED svars PROVE Answered'
  BY <1>5 DEF PmuChanges, svars, probed, Probe!Opens, Probe!Target, Probe!ClaimsProcess,
     Probe!ClaimsSystem
<1> QED BY <1>1, <1>2, <1>3, <1>4, <1>5 DEF SNext, SStep

LEMMA WholeWhenIdle ==
  ASSUME Configured, Listed, Answered
  PROVE  UsableEventIsWhole
<1> SUFFICES ASSUME pc = "idle" PROVE UsableEventIsWhole
  BY DEF UsableEventIsWhole
<1>1. PICK n \in Nat : DOMAIN description = 1 .. n
  BY DEF Configured
<1>2. 1 .. pos - 1 \subseteq 1 .. n /\ pos \notin 1 .. n /\ pos \in Nat /\ pos >= 1
  BY <1>1 DEF Configured, Probing
<1>3. 1 .. pos - 1 = DOMAIN description
  BY <1>1, <1>2
<1>4. config = Parse!Described("config") /\ config1 = Parse!Described("config1")
  BY <1>3, Zenon DEF Configured, SoFar, Parse!Described
<1> QED BY <1>4 DEF UsableEventIsWhole, Listed, Answered, Probing

(* A sysfs event that can be used has its whole configuration, the CPUs of its      *)
(* PMU and the kernel's verdict on just that configuration.                        *)
THEOREM UsableEventsAreWhole == SSpec => []UsableEventIsWhole
<1>1. Configured /\ Listed /\ Answered /\ [SNext]_svars => (Configured /\ Listed /\ Answered)'
  BY NextKeepsConfigured, NextKeepsListed, NextKeepsAnswered
<1> QED BY <1>1, InitWhole, WholeWhenIdle, PTL DEF SSpec
-----------------------------------------------------------------------------
(* Failures *)

\* The terms before pos are in order, and a failed one is the term at pos.
Passed ==
  /\ \A j \in 1 .. pos - 1 : Parse!Fate(description[j]) = "ok"
  /\ pc = "threw" => pos \in DOMAIN description /\ Parse!Fate(description[pos]) = "threw"
  /\ pc = "invalid" /\ quiet =>
       \/ ~registered \/ ~pmu.event
       \/ pos \in DOMAIN description /\ Parse!Fate(description[pos]) = "invalid"

\* Thread and first CPU refuse the event with the kernel, or without.
RefusedWith == Probe!Probe("real", FALSE, Self) \notin allowed /\ FirstCpuRefuses(FALSE)
RefusedWithout == Probe!Probe("real", TRUE, Self) \notin allowed /\ FirstCpuRefuses(TRUE)

\* While the kernel stays, what led to a second attempt is so still.
Refused ==
  /\ excl \in BOOLEAN /\ attempt \in {1, 2}
  /\ pc \in Files \cup {"scan", "terms"} => ~excl /\ attempt = 1
  /\ pc \in {"proc", "system"} /\ attempt = 2 => excl
  /\ pc = "rejected" => excl
  /\ steady => calm
  /\ calm /\ pc = "system" => proc = Probe!Opens(Self)
  /\ steady /\ excl => RefusedWith
  /\ steady /\ pc = "rejected" => RefusedWithout

LEMMA InitFailing == SInit => Passed /\ Refused
<1> SUFFICES ASSUME SInit PROVE Passed /\ Refused
  OBVIOUS
<1>1. 1 .. pos - 1 = {}
  BY DEF SInit
<1> QED BY <1>1 DEF SInit, Passed, Refused, Files

LEMMA NextKeepsPassed == Configured /\ Passed /\ [SNext]_svars => Passed'
<1> SUFFICES ASSUME Configured, Passed, [SNext]_svars PROVE Passed'
  OBVIOUS
<1> USE DEF Passed, disk
<1>1. ASSUME ParseTerm PROVE Passed'
  <2>1. /\ pc = "terms" /\ pos \in DOMAIN description /\ pos \in Nat
        /\ UNCHANGED <<description, pmu, registered, quiet>>
    BY <1>1 DEF ParseTerm, Configured
  <2>2. CASE pos' = pos + 1 /\ pc' = pc
    <3>1. Parse!Fate(description[pos]) = "ok"
      BY <1>1, <2>1, <2>2 DEF ParseTerm
    <3>2. \A j \in 1 .. pos' - 1 : j \in 1 .. pos - 1 \/ j = pos
      BY <2>1, <2>2
    <3>3. \A j \in 1 .. pos' - 1 : Parse!Fate(description[j]) = "ok"
      BY <3>1, <3>2
    <3> QED BY <2>1, <2>2, <3>3 DEF Parse!Fate
  <2>3. CASE pos' = pos
    <3>1. /\ pc' = "threw" => Parse!Fate(description[pos]) = "threw"
          /\ pc' = "invalid" => ~registered \/ Parse!Fate(description[pos]) = "invalid"
      BY <1>1, <2>1, <2>3 DEF ParseTerm
    <3> QED BY <2>1, <2>3, <3>1 DEF Parse!Fate
  <2> QED BY <1>1, <2>1, <2>2, <2>3 DEF ParseTerm
<1>2. ASSUME ~ParseTerm PROVE Passed'
  <2>1. UNCHANGED <<description, pos, pmu>>
    BY <1>2 DEF SNext, SStep, svars, FindEvent, ListCpus, ScanCpus, FinishParsing, ProbeThread,
       ProbeCpu, CheckAgain, ExcludeKernel, PmuChanges, KernelChanges, parsed
  <2>2. pc' = "threw" => pc = "threw"
    BY <1>2 DEF SNext, SStep, svars, FindEvent, ListCpus, ScanCpus, FinishParsing, ProbeThread,
       ProbeCpu, CheckAgain, ExcludeKernel, PmuChanges, KernelChanges
  <2>3. pc' = "invalid" /\ quiet' =>
          /\ pc = "invalid" \/ ~registered \/ ~pmu.event
          /\ UNCHANGED <<registered, quiet>>
    BY <1>2 DEF SNext, SStep, svars, FindEvent, ListCpus, ScanCpus, FinishParsing, ProbeThread,
       ProbeCpu, CheckAgain, ExcludeKernel, PmuChanges, KernelChanges
  <2> QED BY <2>1, <2>2, <2>3 DEF Parse!Fate
<1> QED BY <1>1, <1>2

LEMMA RefusalsStay ==
  ASSUME UNCHANGED <<allowed, cpus>>
  PROVE  (RefusedWith' <=> RefusedWith) /\ (RefusedWithout' <=> RefusedWithout)
BY DEF RefusedWith, RefusedWithout, FirstCpuRefuses, Probe!Target

LEMMA NextKeepsRefused == Refused /\ [SNext]_svars => Refused'
<1> SUFFICES ASSUME Refused, [SNext]_svars PROVE Refused'
  OBVIOUS
<1> USE DEF Refused, Files, kernel
<1>1. ASSUME FindEvent \/ ListCpus \/ ScanCpus \/ ParseTerm \/ FinishParsing PROVE Refused'
  BY <1>1 DEF FindEvent, ListCpus, ScanCpus, ParseTerm, FinishParsing, Parse!Fate, probed
<1>2. ASSUME ProbeThread PROVE Refused'
  <2>1. proc' = Probe!Opens(Self)'
    BY <1>2 DEF ProbeThread, Probe!Opens, Probing
  <2> QED BY <1>2, <2>1, RefusalsStay DEF ProbeThread
<1>3. ASSUME ProbeCpu PROVE Refused'
  <2>1. PICK c \in Probe!Target : availability' = Probe!Verdict(proc, Probe!Opens(c))
    BY <1>3 DEF ProbeCpu
  <2>2. pc = "system" /\ UNCHANGED <<allowed, steady, calm, cpus, proc>>
    BY <1>3 DEF ProbeCpu
  <2>3. availability' = "UNAVAILABLE" => ~proc /\ Probe!Probe("real", excl, c) \notin allowed
    BY <2>1, <2>2 DEF Probe!Verdict, Probe!Opens, Probing
  <2>4. availability' = "UNAVAILABLE" /\ steady =>
          (excl => RefusedWithout) /\ (~excl => RefusedWith)
    BY <2>1, <2>2, <2>3 DEF Probe!Opens, Probing, FirstCpuRefuses, RefusedWith, RefusedWithout
  <2>5. CASE pc' = "proc"
    BY <1>3, <2>2, <2>4, <2>5, RefusalsStay DEF ProbeCpu
  <2>6. CASE pc' = "rejected"
    BY <1>3, <2>2, <2>4, <2>6, RefusalsStay DEF ProbeCpu
  <2>7. CASE pc' = "idle"
    BY <1>3, <2>2, <2>7, RefusalsStay DEF ProbeCpu
  <2> QED BY <1>3, <2>5, <2>6, <2>7 DEF ProbeCpu
<1>4. ASSUME CheckAgain PROVE Refused'
  BY <1>4, RefusalsStay DEF CheckAgain
<1>5. ASSUME ExcludeKernel \/ KernelChanges PROVE Refused'
  <2>1. /\ ~steady' /\ ~calm' /\ UNCHANGED <<pc, attempt>>
        /\ excl' # excl => pc = "idle" /\ excl' = TRUE
    BY <1>5 DEF ExcludeKernel, KernelChanges, probed
  <2>2. CASE excl' = excl
    BY <2>1, <2>2
  <2>3. CASE excl' # excl
    BY <2>1, <2>3
  <2> QED BY <2>2, <2>3
<1>6. ASSUME PmuChanges \/ UNCHANGED svars PROVE Refused'
  BY <1>6, RefusalsStay DEF PmuChanges, svars, probed, Probe!Opens
<1> QED BY <1>1, <1>2, <1>3, <1>4, <1>5, <1>6 DEF SNext, SStep

LEMMA FailsWithReason == ASSUME Configured, Passed, Refused PROVE FailureIsDeserved
<1>1. PICK n \in Nat : DOMAIN description = 1 .. n
  BY DEF Configured
<1>2. ASSUME pc = "rejected" PROVE 1 .. pos - 1 = DOMAIN description
  <2>1. 1 .. pos - 1 \subseteq 1 .. n /\ pos \notin 1 .. n /\ pos \in Nat /\ pos >= 1
    BY <1>1, <1>2 DEF Configured, Probing
  <2> QED BY <1>1, <2>1
<1>3. ASSUME pc = "rejected"
      PROVE  /\ config = Parse!Described("config") /\ config1 = Parse!Described("config1")
             /\ \A i \in DOMAIN description : Parse!Fate(description[i]) = "ok"
  BY <1>2, <1>3, Zenon DEF Configured, SoFar, Parse!Described, Passed
<1>4. ASSUME pc = "rejected", steady, NEW x \in BOOLEAN
      PROVE  Probe!Probe("real", x, Self) \notin allowed /\ FirstCpuRefuses(x)
  BY <1>4 DEF Refused, RefusedWith, RefusedWithout
<1>5. \A fate : pos \in DOMAIN description /\ Parse!Fate(description[pos]) = fate
        => \E i \in DOMAIN description : Parse!FirstWithFate(i, fate)
  BY DEF Passed, Parse!FirstWithFate
<1> QED BY <1>3, <1>4, <1>5 DEF FailureIsDeserved, Passed

(* The constructor of a sysfs event fails for a reason, and the exception tells       *)
(* which.                                                                         *)
THEOREM FailuresAreDeserved == SSpec => []FailureIsDeserved
<1>1. Configured /\ Passed /\ Refused /\ [SNext]_svars => (Configured /\ Passed /\ Refused)'
  BY NextKeepsConfigured, NextKeepsPassed, NextKeepsRefused
<1> QED BY <1>1, InitWhole, InitFailing, FailsWithReason, PTL DEF SSpec

-----------------------------------------------------------------------------
(* The refinement of Construction *)

\* While the constructor runs nothing is available.
Underway ==
  /\ built \in BOOLEAN /\ availability \in Probe!Availability
  /\ pc \notin {"proc", "system", "idle"} => ~built
  /\ pc = "idle" => built
  /\ ~built => availability = "UNAVAILABLE"

LEMMA InitUnderway == SInit => Underway
BY DEF SInit, Underway, Probe!Availability

LEMMA NextKeepsUnderway == Underway /\ [SNext]_svars => Underway'
<1> SUFFICES ASSUME Underway, [SNext]_svars PROVE Underway'
  OBVIOUS
<1> USE DEF Underway
<1>1. ASSUME FindEvent \/ ListCpus \/ ScanCpus \/ ParseTerm \/ FinishParsing PROVE Underway'
  BY <1>1 DEF FindEvent, ListCpus, ScanCpus, ParseTerm, FinishParsing, Parse!Fate, probed
<1>2. ASSUME ProbeThread \/ ProbeCpu PROVE Underway'
  BY <1>2 DEF ProbeThread, ProbeCpu, Probe!Verdict, Probe!Availability
<1>3. ASSUME CheckAgain \/ ExcludeKernel \/ PmuChanges \/ KernelChanges \/ UNCHANGED svars
      PROVE  Underway'
  BY <1>3 DEF CheckAgain, ExcludeKernel, PmuChanges, KernelChanges, svars, probed
<1> QED BY <1>1, <1>2, <1>3 DEF SNext, SStep

LEMMA StepConstructs == Underway /\ [SNext]_svars => [Service!KNext]_(Service!kvars)
<1> SUFFICES ASSUME Underway, [SNext]_svars PROVE Service!KNext \/ UNCHANGED Service!kvars
  OBVIOUS
<1> USE DEF Underway, Service!kvars
<1>1. ASSUME ProbeCpu PROVE Service!KNext \/ UNCHANGED Service!kvars
  <2>1. CASE built
    BY <1>1, <2>1 DEF ProbeCpu, Service!KNext, Service!Check
  <2>2. CASE ~built /\ availability' = "UNAVAILABLE"
    BY <1>1, <2>2 DEF ProbeCpu, Service!KNext, Service!Fail
  <2>3. CASE ~built /\ availability' # "UNAVAILABLE"
    BY <1>1, <2>3 DEF ProbeCpu, Service!KNext, Service!Succeed
  <2> QED BY <2>1, <2>2, <2>3
<1>2. ASSUME FindEvent \/ ParseTerm PROVE Service!KNext \/ UNCHANGED Service!kvars
  BY <1>2 DEF FindEvent, ParseTerm, Parse!Fate, probed, Service!KNext, Service!Fail
<1>3. ASSUME ListCpus \/ ScanCpus \/ FinishParsing \/ ProbeThread PROVE UNCHANGED Service!kvars
  BY <1>3 DEF ListCpus, ScanCpus, FinishParsing, ProbeThread, probed
<1>4. ASSUME CheckAgain \/ ExcludeKernel \/ PmuChanges \/ KernelChanges \/ UNCHANGED svars
      PROVE  UNCHANGED Service!kvars
  BY <1>4 DEF CheckAgain, ExcludeKernel, PmuChanges, KernelChanges, svars, probed
<1> QED BY <1>1, <1>2, <1>3, <1>4 DEF SNext, SStep

(* Whatever sysfs and the kernel do meanwhile, constructing a sysfs event is one of    *)
(* the three outcomes EventResolver reckons with.                                  *)
THEOREM SysfsEventsConstruct == SSpec => ImplementsConstruction
<1>1. SInit => Service!KInit
  BY DEF SInit, Service!KInit
<1> QED BY <1>1, InitUnderway, NextKeepsUnderway, StepConstructs, PTL
        DEF SSpec, ImplementsConstruction, Service!KSpec
=============================================================================
