------------------------------ MODULE SysfsProbe ------------------------------
(***************************************************************************)
(* The whole constructor of SysfsEventAttr, and what can be done with the       *)
(* object: the files of the PMU are read while its driver comes and goes, and    *)
(* the event is opened here and there while the kernel changes its answers.       *)
(* SysfsEvent models the first half and lets the scan for CPUs find anything;     *)
(* EventProbe models the second and lets the files hold anything.  Put            *)
(* together, each does what the other takes for granted.                         *)
(***************************************************************************)
EXTENDS Words

CONSTANTS
  Terms,      \* terms a description can be made of
  MaxTerms,   \* bound on the length of a description
  Cpus,       \* Topology::cpus()
  Self,       \* Thread(0): the calling thread
  Junk        \* a CPU number that names no CPU

VARIABLES
  pmu, registered, description,        \* what sysfs has: see SysfsEvent
  allowed,                             \* what the kernel accepts: see EventProbe
  pc,                                  \* the place in the constructor or the check
  pos,                                 \* the next term
  todo, attempt, proc,                 \* the locals of the probing
  config, config1, scale,              \* attr_.config, attr_.config1, scale_
  excl,                                \* attr_.exclude_kernel
  cpus, availability,                  \* cpus_, availability_
  built,                               \* the constructor has returned
  quiet,                               \* history: the PMU has not come or gone
  steady, calm                         \* history: the kernel has not changed

disk == <<pmu, registered, description, quiet>>
kernel == <<allowed, steady, calm>>
parsed == <<pos, config, config1, scale>>
probed == <<todo, attempt, proc, excl, availability, built>>
svars == <<disk, kernel, pc, parsed, probed, cpus>>

Files == {"type", "event", "cpus", "cpumask"}
Probing == {"proc", "system", "idle", "rejected"}

-----------------------------------------------------------------------------
(* The two halves *)

\* To the parsing, the scan is one step, and all is over when the probing begins.
Parse == INSTANCE SysfsEvent
           WITH pc     <- IF pc \in Probing THEN "probe" ELSE pc,
                cpus   <- IF pc = "scan" THEN {} ELSE cpus,
                steady <- quiet

\* To the probing, reading the lists is one step, as is parsing the terms.
Probe == INSTANCE EventProbe
           WITH kind   <- "sysfs",
                pc     <- IF pc \in Files THEN "lists"
                          ELSE IF pc \in {"invalid", "threw"} THEN "unparsed" ELSE pc,
                config <- IF pc \in Probing THEN "real" ELSE "zero"

SInit ==
  /\ pmu \in Parse!Pmus /\ registered \in BOOLEAN
  /\ description \in Parse!Descriptions
  /\ allowed \in SUBSET Probe!Probes
  /\ pc = "type" /\ pos = 1
  /\ config = {} /\ config1 = {} /\ scale = "1.0" /\ cpus = {}
  /\ todo = {} /\ attempt = 1 /\ proc = FALSE /\ excl = FALSE
  /\ availability = "UNAVAILABLE" /\ built = FALSE
  /\ quiet = TRUE /\ steady = TRUE /\ calm = TRUE

-----------------------------------------------------------------------------
(* The files *)

\* type and events/<name>, or InvalidEvent.
FindEvent ==
  /\ \/ pc = "type" /\ pc' = IF registered THEN "event" ELSE "invalid"
     \/ pc = "event" /\ pc' = IF registered /\ pmu.event THEN "cpus" ELSE "invalid"
  /\ UNCHANGED <<disk, kernel, parsed, probed, cpus>>

\* cpus and cpumask; with neither, get_cpu_set_for.
ListCpus ==
  /\ \/ /\ pc = "cpus"
        /\ cpus' = Parse!ListOf(pmu.cpus)
        /\ pc' = IF cpus' = {} THEN "cpumask" ELSE "terms"
        /\ UNCHANGED todo
     \/ /\ pc = "cpumask"
        /\ cpus' = Parse!ListOf(pmu.cpumask)
        /\ pc' = IF cpus' = {} THEN "scan" ELSE "terms"
        /\ todo' = IF cpus' = {} THEN Cpus ELSE {}
  /\ UNCHANGED <<disk, kernel, parsed, attempt, proc, excl, availability, built>>

\* get_cpu_set_for, with config still 0.
ScanCpus ==
  /\ pc = "scan"
  /\ \/ /\ \E c \in todo :
             /\ \A d \in todo : c <= d
             /\ todo' = todo \ {c}
             /\ cpus' = IF Probe!Opens(c) THEN cpus \cup {c} ELSE cpus
        /\ UNCHANGED pc
     \/ todo = {} /\ pc' = "terms" /\ UNCHANGED <<todo, cpus>>
  /\ UNCHANGED <<disk, kernel, parsed, attempt, proc, excl, availability, built>>

\* One turn of the loop over the terms.
ParseTerm ==
  /\ pc = "terms" /\ pos \in DOMAIN description
  /\ LET t    == description[pos]
         fate == IF registered THEN Parse!Fate(t) ELSE "invalid"
     IN  \/ /\ fate = "ok"
            /\ config' = config \cup Parse!Contribution(t, "config")
            /\ config1' = config1 \cup Parse!Contribution(t, "config1")
            /\ pos' = pos + 1 /\ UNCHANGED pc
         \/ fate # "ok" /\ pc' = fate /\ UNCHANGED <<pos, config, config1>>
  /\ UNCHANGED <<disk, kernel, probed, cpus, scale>>

FinishParsing ==
  /\ pc = "terms" /\ pos \notin DOMAIN description
  /\ scale' = IF registered /\ pmu.scale THEN "read" ELSE "1.0"
  /\ pc' = "proc"
  /\ UNCHANGED <<disk, kernel, probed, cpus, pos, config, config1>>

-----------------------------------------------------------------------------
(* event_is_openable, in the constructor and later *)

ProbeThread ==
  /\ pc = "proc"
  /\ proc' = Probe!Opens(Self) /\ pc' = "system"
  /\ UNCHANGED <<disk, kernel, parsed, cpus, todo, attempt, excl, availability, built>>

\* Refused twice, it is tried again without the kernel, and then given up.
ProbeCpu ==
  /\ pc = "system"
  /\ \E c \in Probe!Target : availability' = Probe!Verdict(proc, Probe!Opens(c))
  /\ LET refused == availability' = "UNAVAILABLE"
     IN  \/ /\ refused /\ attempt = 1
            /\ pc' = "proc" /\ attempt' = 2 /\ excl' = TRUE /\ UNCHANGED built
         \/ /\ refused => attempt = 2
            /\ pc' = IF refused /\ ~built THEN "rejected" ELSE "idle"
            /\ built' = (pc' = "idle") /\ UNCHANGED <<attempt, excl>>
  /\ UNCHANGED <<disk, kernel, parsed, cpus, todo, proc>>

CheckAgain ==
  /\ pc = "idle"
  /\ pc' = "proc" /\ attempt' = 1 /\ calm' = TRUE
  /\ UNCHANGED <<disk, allowed, steady, parsed, cpus, todo, proc, excl, availability, built>>

ExcludeKernel ==
  /\ pc = "idle" /\ ~excl
  /\ excl' = TRUE /\ steady' = FALSE /\ calm' = FALSE
  /\ UNCHANGED <<disk, allowed, pc, parsed, cpus, todo, attempt, proc, availability, built>>

-----------------------------------------------------------------------------
(* The machine *)

\* The driver is unloaded or loaded; the object reads no file once it is probed.
PmuChanges ==
  /\ pc \in Files \cup {"scan", "terms"}
  /\ registered' = ~registered /\ quiet' = FALSE
  /\ UNCHANGED <<pmu, description, kernel, pc, parsed, probed, cpus>>

KernelChanges ==
  /\ \E p \in Probe!Probes :
       allowed' = IF p \in allowed THEN allowed \ {p} ELSE allowed \cup {p}
  /\ steady' = FALSE /\ calm' = FALSE
  /\ UNCHANGED <<disk, pc, parsed, probed, cpus>>

SStep ==
  \/ FindEvent \/ ListCpus \/ ScanCpus \/ ParseTerm \/ FinishParsing
  \/ ProbeThread \/ ProbeCpu

SNext == SStep \/ CheckAgain \/ ExcludeKernel \/ PmuChanges \/ KernelChanges

SSpec == SInit /\ [][SNext]_svars

-----------------------------------------------------------------------------
(* Properties *)

(* What SysfsEvent shows of the parsing holds although its scan asks a kernel     *)
(* that changes, and what EventProbe shows of the probing holds although its       *)
(* lists and terms come from files that do.                                      *)
ImplementsSysfsEvent == Parse!Spec
ImplementsEventProbe == Probe!Spec

\* What the caller of the constructor sees of all this.
Service == INSTANCE Construction
             WITH Failures <- {"invalid", "other"},
                  outcome  <- IF pc \in {"invalid", "rejected"} THEN "invalid"
                              ELSE IF pc = "threw" THEN "other"
                              ELSE IF built THEN "ok" ELSE "pending",
                  usable   <- availability # "UNAVAILABLE"

(* Constructing a sysfs event gives one that is available, or fails with           *)
(* InvalidEvent, or with what stol and stoi throw (see Construction).             *)
ImplementsConstruction == Service!KSpec

(* A sysfs event that can be used is one thing: it has the configuration of its    *)
(* whole description, the CPUs are those its PMU lists, if the driver has not      *)
(* come or gone, and what it says of the thread and of its first CPU is what the    *)
(* kernel says of this configuration, if the kernel has not changed its mind        *)
(* since (the constructor, event_attr_update and update_availability together).     *)
UsableEventIsWhole ==
  pc = "idle" =>
    /\ config = Parse!Described("config") /\ config1 = Parse!Described("config1")
    /\ quiet /\ pmu.cpus # {} => cpus = pmu.cpus
    /\ calm => (Probe!ClaimsProcess <=> Probe!Opens(Self))
    /\ calm => \E c \in Probe!Target : Probe!ClaimsSystem <=> Probe!Opens(c)
\* The first CPU of the event, or whatever is taken for it, refuses it.
FirstCpuRefuses(exclude) ==
  \E c \in Probe!Target : Probe!Probe("real", exclude, c) \notin allowed

(* The constructor fails for a reason in the PMU's files or in the kernel's         *)
(* answers, and the exception tells which as far as it goes.  What is no            *)
(* InvalidEvent comes from the value of the first term in error.  InvalidEvent       *)
(* means, if the driver has not come or gone, a missing file or a malformed          *)
(* format; or else the whole description was understood, and then, if the kernel     *)
(* has not changed, the thread and the first CPU refuse just this configuration,     *)
(* with the kernel and without (the constructor and event_is_openable together).    *)
FailureIsDeserved ==
  /\ pc = "threw" => \E i \in DOMAIN description : Parse!FirstWithFate(i, "threw")
  /\ pc = "invalid" /\ quiet =>
       \/ ~registered \/ ~pmu.event
       \/ \E i \in DOMAIN description : Parse!FirstWithFate(i, "invalid")
  /\ pc = "rejected" =>
       /\ \A i \in DOMAIN description : Parse!Fate(description[i]) = "ok"
       /\ config = Parse!Described("config") /\ config1 = Parse!Described("config1")
       /\ steady => \A x \in BOOLEAN :
                      Probe!Probe("real", x, Self) \notin allowed /\ FirstCpuRefuses(x)
=============================================================================
