------------------------------ MODULE EventProbe ------------------------------
(***************************************************************************)
(* How an EventAttr finds out where its event can be opened.  The constructor *)
(* opens the event on every CPU of the topology, then for the calling thread  *)
(* and on one CPU, and does the last two again with exclude_kernel set when    *)
(* both were refused.  Each of these is a system call, and between any two of  *)
(* them the kernel's answers may change: perf_event_paranoid, capabilities,    *)
(* CPU hotplug, counters in use, descriptors left.                             *)
(***************************************************************************)
EXTENDS Integers, FiniteSets

CONSTANTS Cpus,    \* Topology::cpus()
          Self,    \* Thread(0): the calling thread
          Junk     \* a CPU number that names no CPU

ASSUME ProbeAssumption ==
  /\ Cpus \subseteq Nat /\ IsFiniteSet(Cpus)
  /\ Self \notin Cpus /\ Junk \notin Cpus /\ Self # Junk

VARIABLES
  allowed,       \* the probes the kernel would accept now
  kind,          \* how the event is made: "scanned", "sysfs" or "breakpoint"
  pc,            \* where event_is_openable or the constructor is
  todo,          \* CPUs get_cpu_set_for has yet to try
  built,         \* the constructor has returned
  attempt,       \* which update_availability of event_is_openable is running
  proc,          \* local of update_availability: the thread was accepted
  config,        \* attr_.config: still 0 or the event's own
  excl,          \* attr_.exclude_kernel
  cpus,          \* cpus_
  availability,  \* availability_
  steady,        \* history: nothing has changed since construction began
  calm           \* history: nothing has changed since the last check began

object == <<kind, config, excl, cpus, availability, built>>
locals == <<todo, attempt, proc>>
vars == <<allowed, pc, locals, object, steady, calm>>

Kinds == {"scanned", "sysfs", "breakpoint"}
Availability == {"UNAVAILABLE", "SYSTEM_MODE", "PROCESS_MODE", "UNIVERSAL"}
Working == {"lists", "scan", "terms", "proc", "system"}
Ended == {"idle", "rejected", "unparsed"}

Probe(cfg, x, where) == [config |-> cfg, excl |-> x, on |-> where]

\* The probes an EventAttr can make: the scan runs before the fallback.
Probes == {Probe("real", x, w) : x \in BOOLEAN, w \in Cpus \cup {Self}}
            \cup {Probe("zero", FALSE, c) : c \in Cpus}

\* Does the kernel open the event, as attr_ is now, at this place?
Opens(where) == Probe(config, excl, where) \in allowed

\* What *supported_cpus().begin() can be: the least supported CPU.  Of an empty
\* set it is undefined, and whatever is read there is taken for a CPU number.
Target == IF cpus = {} THEN Cpus \cup {Junk}
          ELSE {c \in cpus : \A d \in cpus : c <= d}

TypeOK ==
  /\ allowed \subseteq Probes
  /\ kind \in Kinds
  /\ pc \in Working \cup Ended
  /\ todo \subseteq Cpus
  /\ {built, proc, excl, steady, calm} \subseteq BOOLEAN
  /\ attempt \in {1, 2}
  /\ config \in {"zero", "real"}
  /\ cpus \subseteq Cpus
  /\ availability \in Availability

-----------------------------------------------------------------------------
(* Construction up to the probing *)

\* PredefinedEventAttr and RawEventAttr scan with their own configuration.
InitScanned ==
  /\ kind = "scanned" /\ config = "real"
  /\ pc = "scan" /\ todo = Cpus
  /\ cpus = {} /\ built = FALSE

\* SysfsEventAttr looks into the files of the PMU before it scans.
InitSysfs ==
  /\ kind = "sysfs" /\ config = "zero"
  /\ pc = "lists" /\ todo = {}
  /\ cpus = {} /\ built = FALSE

\* BreakpointEventAttr probes nothing.
InitBreakpoint ==
  /\ kind = "breakpoint" /\ config = "real"
  /\ pc = "idle" /\ todo = {}
  /\ cpus = {} /\ built = TRUE

Init ==
  /\ allowed \in SUBSET Probes
  /\ InitScanned \/ InitSysfs \/ InitBreakpoint
  /\ attempt = 1 /\ proc = FALSE /\ excl = FALSE
  /\ availability = "UNAVAILABLE"
  /\ steady = ~built /\ calm = ~built

\* SysfsEventAttr takes the CPUs from the files "cpus" or "cpumask" of the PMU;
\* without them it scans, before it has parsed the configuration.  A PMU or an
\* event that is not there has ended the constructor by then.
ReadLists ==
  /\ pc = "lists"
  /\ \/ pc' = "unparsed" /\ UNCHANGED <<cpus, todo>>
     \/ /\ cpus' \in SUBSET Cpus
        /\ todo' = IF cpus' = {} THEN Cpus ELSE {}
        /\ pc' = IF cpus' = {} THEN "scan" ELSE "terms"
  /\ UNCHANGED <<allowed, attempt, proc, kind, config, excl, availability,
                 built, steady, calm>>

\* Mutant: a refused CPU is tried again.
ScanRetriesRefused ==
  /\ pc = "scan"
  /\ \E c \in todo :
       /\ \A d \in todo : c <= d
       /\ todo' = IF Opens(c) THEN todo \ {c} ELSE todo
       /\ cpus' = IF Opens(c) THEN cpus \cup {c} ELSE cpus
  /\ UNCHANGED <<allowed, pc, attempt, proc, kind, config, excl, availability,
                 built, steady, calm>>

\* Mutant: a refused CPU is listed.
ScanKeepsRefused ==
  /\ pc = "scan"
  /\ \E c \in todo :
       /\ \A d \in todo : c <= d
       /\ todo' = todo \ {c}
       /\ cpus' = cpus \cup {c}
  /\ UNCHANGED <<allowed, pc, attempt, proc, kind, config, excl, availability,
                 built, steady, calm>>

\* get_cpu_set_for: one CPU of the loop.
ScanCpu ==
  /\ pc = "scan"
  /\ \E c \in todo :
       /\ \A d \in todo : c <= d
       /\ todo' = todo \ {c}
       /\ cpus' = IF Opens(c) THEN cpus \cup {c} ELSE cpus
  /\ UNCHANGED <<allowed, pc, attempt, proc, kind, config, excl, availability,
                 built, steady, calm>>

ScanEnds ==
  /\ pc = "scan" /\ todo = {}
  /\ pc' = IF kind = "sysfs" THEN "terms" ELSE "proc"
  /\ UNCHANGED <<allowed, locals, object, steady, calm>>

\* The terms of a sysfs event are parsed, or the parsing throws.
ParseTerms ==
  /\ pc = "terms"
  /\ \/ pc' = "proc" /\ config' = "real"
     \/ pc' = "unparsed" /\ UNCHANGED config
  /\ UNCHANGED <<allowed, locals, kind, excl, cpus, availability, built, steady, calm>>

-----------------------------------------------------------------------------
(* event_is_openable and update_availability *)

ProbeProcess ==
  /\ pc = "proc"
  /\ proc' = Opens(Self)
  /\ pc' = "system"
  /\ UNCHANGED <<allowed, todo, attempt, object, steady, calm>>

Verdict(process, system) ==
  IF process THEN IF system THEN "UNIVERSAL" ELSE "PROCESS_MODE"
             ELSE IF system THEN "SYSTEM_MODE" ELSE "UNAVAILABLE"

\* Mutant: exclude_kernel is set after the second attempt.
ExcludeTooLate ==
  /\ pc = "system"
  /\ \E c \in Target : availability' = Verdict(proc, Opens(c))
  /\ IF availability' = "UNAVAILABLE" /\ attempt = 1
     THEN pc' = "proc" /\ attempt' = 2 /\ UNCHANGED <<excl, built>>
     ELSE /\ pc' = IF availability' = "UNAVAILABLE" /\ ~built THEN "rejected" ELSE "idle"
          /\ built' = (pc' = "idle")
          /\ excl' = (excl \/ attempt = 2)
          /\ UNCHANGED attempt
  /\ UNCHANGED <<allowed, todo, proc, kind, config, cpus, steady, calm>>

\* Mutant: there is no second attempt.
RejectsAtOnce ==
  /\ pc = "system"
  /\ \E c \in Target : availability' = Verdict(proc, Opens(c))
  /\ pc' = IF availability' = "UNAVAILABLE" /\ ~built THEN "rejected" ELSE "idle"
  /\ built' = (pc' = "idle")
  /\ UNCHANGED <<allowed, todo, proc, attempt, kind, config, excl, cpus, steady, calm>>

\* Mutant: the second attempt is also made when one mode works.
ExcludesAtOnce ==
  /\ pc = "system"
  /\ \E c \in Target : availability' = Verdict(proc, Opens(c))
  /\ IF availability' # "UNIVERSAL" /\ attempt = 1
     THEN pc' = "proc" /\ attempt' = 2 /\ excl' = TRUE /\ UNCHANGED built
     ELSE /\ pc' = IF availability' = "UNAVAILABLE" /\ ~built THEN "rejected" ELSE "idle"
          /\ built' = (pc' = "idle")
          /\ UNCHANGED <<attempt, excl>>
  /\ UNCHANGED <<allowed, todo, proc, kind, config, cpus, steady, calm>>

\* Mutant: attempts go on until one succeeds.
RetriesForever ==
  /\ pc = "system"
  /\ \E c \in Target : availability' = Verdict(proc, Opens(c))
  /\ IF availability' = "UNAVAILABLE"
     THEN pc' = "proc" /\ attempt' = attempt + 1 /\ excl' = TRUE /\ UNCHANGED built
     ELSE pc' = "idle" /\ built' = TRUE /\ UNCHANGED <<attempt, excl>>
  /\ UNCHANGED <<allowed, todo, proc, kind, config, cpus, steady, calm>>

\* The second open sets availability_.  Refused twice, a first attempt leads to a
\* second one with exclude_kernel set; a second attempt throws, which ends a
\* constructor and leaves an existing object as it now is.
ProbeSystem ==
  /\ pc = "system"
  /\ \E c \in Target : availability' = Verdict(proc, Opens(c))
  /\ IF availability' = "UNAVAILABLE" /\ attempt = 1
     THEN pc' = "proc" /\ attempt' = 2 /\ excl' = TRUE /\ UNCHANGED built
     ELSE /\ pc' = IF availability' = "UNAVAILABLE" /\ ~built THEN "rejected" ELSE "idle"
          /\ built' = (pc' = "idle")
          /\ UNCHANGED <<attempt, excl>>
  /\ UNCHANGED <<allowed, todo, proc, kind, config, cpus, steady, calm>>

-----------------------------------------------------------------------------
(* Calls on a finished object, and the kernel *)

\* event_is_openable is public.
Recheck ==
  /\ pc = "idle"
  /\ pc' = "proc" /\ attempt' = 1 /\ calm' = TRUE
  /\ UNCHANGED <<allowed, todo, proc, object, steady>>

\* set_exclude_kernel: the verdict is not taken again.
SetExcludeKernel ==
  /\ pc = "idle" /\ ~excl
  /\ excl' = TRUE
  /\ steady' = FALSE /\ calm' = FALSE
  /\ UNCHANGED <<allowed, pc, locals, kind, config, cpus, availability, built>>

\* The kernel changes its mind about one probe.
KernelChanges ==
  /\ \E p \in Probes : allowed' = IF p \in allowed THEN allowed \ {p} ELSE allowed \cup {p}
  /\ steady' = FALSE /\ calm' = FALSE
  /\ UNCHANGED <<pc, locals, object>>

Step == ReadLists \/ ScanCpu \/ ScanEnds \/ ParseTerms \/ ProbeProcess \/ ProbeSystem

Next == Step \/ Recheck \/ SetExcludeKernel \/ KernelChanges

Spec == Init /\ [][Next]_vars

\* The thread that constructs or checks an event goes on doing so.
FairSpec == Spec /\ WF_vars(Step)

-----------------------------------------------------------------------------
(* Properties *)

ClaimsProcess == availability \in {"PROCESS_MODE", "UNIVERSAL"}
ClaimsSystem == availability \in {"SYSTEM_MODE", "UNIVERSAL"}

(* While the kernel has given the same answers since the last check began, a  *)
(* finished event says of the thread and of its first supported CPU just what *)
(* the kernel says of the attributes the event was left with, whichever of    *)
(* the two attempts decided (event_is_openable, update_availability).         *)
VerdictIsExact ==
  pc = "idle" /\ calm =>
    /\ ClaimsProcess <=> Opens(Self)
    /\ cpus # {} => \A c \in Target : ClaimsSystem <=> Opens(c)

(* The CPUs of a predefined or raw event were scanned without exclude_kernel   *)
(* and the event may end up with it.  While the kernel does not change, each   *)
(* of them still opens the event as it was left, since the fallback is only    *)
(* reached with no CPU at all (get_cpu_set_for, event_is_openable).            *)
SupportedCpusAreOpenable ==
  pc = "idle" /\ steady /\ kind = "scanned" => \A c \in cpus : Opens(c)

(* The kernel is excluded only as a last resort: with a kernel that has not    *)
(* changed since construction began, an event has exclude_kernel set by the    *)
(* library only when thread and first CPU both refuse it otherwise.            *)
FallbackIsLastResort ==
  pc = "idle" /\ steady /\ excl =>
    /\ Probe(config, FALSE, Self) \notin allowed
    /\ cpus # {} => \A c \in Target : Probe(config, FALSE, c) \notin allowed

(* A predefined or raw event is rejected by a kernel that does not change only *)
(* if the thread refuses it with and without exclude_kernel, and every CPU     *)
(* refuses it without (the InvalidEvent of event_is_openable).                 *)
RejectionIsJustified ==
  pc = "rejected" /\ steady =>
    /\ \A x \in BOOLEAN : Probe(config, x, Self) \notin allowed
    /\ kind = "scanned" => \A c \in Cpus : Probe(config, FALSE, c) \notin allowed

\* What the caller of the constructor sees of all this.
Service == INSTANCE Construction
             WITH Failures <- {"invalid"},
                  outcome  <- IF pc = "rejected" THEN "invalid"
                              ELSE IF pc = "unparsed" THEN "unparsed"
                              ELSE IF built THEN "ok" ELSE "pending",
                  usable   <- availability # "UNAVAILABLE"

(* Constructing a predefined or raw event gives an event that is available, or     *)
(* fails with InvalidEvent, and with nothing else (see Construction).             *)
ImplementsConstruction == kind = "scanned" => Service!KSpec

(* Every constructor and every check comes to an end, whatever the kernel      *)
(* answers and however often it changes.                                       *)
CheckEnds == pc \in Working ~> pc \in Ended

-----------------------------------------------------------------------------
(* What the names and comments of the header say *)

\* is_available_in: the alternative std::get asks for is the one excluded by
\* the branch, so that asking about a thread ends in bad_variant_access.
IsAvailableIn(where) ==
  IF availability = "UNAVAILABLE" THEN "no"
  ELSE IF where = Self THEN "bad_variant_access"
  ELSE IF availability # "SYSTEM_MODE" THEN "yes" ELSE "no"

(* An event that was opened for the thread answers that it is available        *)
(* there, and one that was opened on a CPU only that it is available on a CPU.  *)
AnswersItsAvailability ==
  pc = "idle" =>
    /\ IsAvailableIn(Self) = (IF ClaimsProcess THEN "yes" ELSE "no")
    /\ \A c \in cpus : IsAvailableIn(c) = (IF ClaimsSystem THEN "yes" ELSE "no")

(* The note on SysfsEventAttr: until use_sampling_options() is called, the     *)
(* availability of a new event is UNAVAILABLE.                                  *)
SysfsStartsUnavailable ==
  pc = "idle" /\ kind = "sysfs" /\ steady => availability = "UNAVAILABLE"
=============================================================================
