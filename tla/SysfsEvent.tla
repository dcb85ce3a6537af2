------------------------------ MODULE SysfsEvent ------------------------------
(***************************************************************************)
(* The constructor of SysfsEventAttr up to the probing: it reads the type of    *)
(* the PMU, the description of the event, the CPUs of the PMU, and then for      *)
(* each term of the description the format file that says which bits of which    *)
(* attribute the term's value goes to.  Every file is read on its own, and the   *)
(* PMU may be unregistered and registered again between any two of them.         *)
(***************************************************************************)
EXTENDS Words

CONSTANTS
  Terms,      \* terms a description can be made of: see TermType
  MaxTerms,   \* bound on the length of a description
  Cpus        \* Topology::cpus()

\* A term is its format file, [target, ranges, singles], and its value.  Ranges
\* and single bits are the items of the file's list, as in config:0-7,32-35,21.
TermType == [target  : {"unreadable", "nocolon", "config", "config1", "other"},
             ranges  : SUBSET [lo : Nat, hi : Nat],
             singles : SUBSET Bits,
             numeric : BOOLEAN,        \* the value is a number at all
             value   : SUBSET Bits]    \* {0} when the term has no value

ASSUME SysfsAssumption ==
  /\ Terms \subseteq TermType
  /\ \A t \in Terms : \A r \in t.ranges : r.lo <= r.hi
  /\ MaxTerms \in Nat

VARIABLES
  pmu,           \* what sysfs has for the PMU while it is registered
  registered,    \* the PMU is there
  description,   \* the terms in the event's file
  pc,            \* what is read next, or how the constructor ended
  pos,           \* the next term
  config,        \* attr_.config
  config1,       \* attr_.config1
  cpus,          \* cpus_
  scale,         \* scale_: read or the default
  steady         \* history: the PMU has not come or gone

env == <<pmu, registered, description>>
object == <<pos, config, config1, cpus, scale>>
vars == <<env, pc, object, steady>>

\* Whether the event's files are there, and the lists in "cpus" and "cpumask",
\* empty when there is no such file.
Pmus == [event : BOOLEAN, scale : BOOLEAN, cpus : SUBSET Cpus, cpumask : SUBSET Cpus]

Reading == {"type", "event", "cpus", "cpumask", "scan", "terms"}
Ended == {"probe", "invalid", "threw"}

Descriptions == UNION {[1 .. n -> Terms] : n \in 1 .. MaxTerms}

TypeOK ==
  /\ pmu \in Pmus /\ registered \in BOOLEAN
  /\ description \in Descriptions
  /\ pc \in Reading \cup Ended
  /\ pos \in 1 .. MaxTerms + 1
  /\ config \subseteq Bits /\ config1 \subseteq Bits
  /\ cpus \subseteq Cpus
  /\ scale \in {"1.0", "read"}
  /\ steady \in BOOLEAN

Init ==
  /\ pmu \in Pmus /\ registered \in BOOLEAN
  /\ description \in Descriptions
  /\ pc = "type" /\ pos = 1
  /\ config = {} /\ config1 = {}
  /\ cpus = {} /\ scale = "1.0"
  /\ steady = TRUE

-----------------------------------------------------------------------------
(* One term *)

\* The bits of a number in a word.
BitsOf(n) == {b \in Bits : (n \div 2^b) % 2 = 1}

\* Mutant: a range of the whole word is no case of its own, and the processor
\* shifts by the width as by 0.
RangeMaskShifts(r) ==
  LET len == r.hi + 1 - r.lo
  IN  BitsOf((2^(len % Width) - 1) * 2^r.lo)

\* parse_bitmask, one range: as many ones as it has bits, shifted to its start.
RangeMask(r) ==
  LET len  == r.hi + 1 - r.lo
      ones == IF len = Width THEN 2^Width - 1 ELSE 2^len - 1
  IN  BitsOf(ones * 2^r.lo)

\* parse_bitmask: its regular expression only matches ranges, so that a single
\* bit in the list adds nothing to the mask.
Mask(t) == UNION {RangeMask(r) : r \in t.ranges}

\* What becomes of a term, in the order of the code: the format file has to be
\* read, stol has to accept the value as a signed number, and the format has to
\* have a colon and ranges inside the word.
Fate(t) ==
  IF t.target = "unreadable" THEN "invalid"
  ELSE IF ~t.numeric \/ Width - 1 \in t.value THEN "threw"
  ELSE IF t.target = "nocolon" \/ \E r \in t.ranges : r.hi >= Width THEN "invalid"
  ELSE "ok"

\* What a term adds to the attribute of that name: apply_mask (BitMask).
Contribution(t, attribute) ==
  IF t.target = attribute THEN Deposit(t.value, Mask(t)) ELSE {}

-----------------------------------------------------------------------------
(* The constructor *)

\* Reads of the files type and events/<name>, or InvalidEvent.
ReadType ==
  /\ pc = "type"
  /\ pc' = IF registered THEN "event" ELSE "invalid"
  /\ UNCHANGED <<env, object, steady>>

ReadEvent ==
  /\ pc = "event"
  /\ pc' = IF registered /\ pmu.event THEN "cpus" ELSE "invalid"
  /\ UNCHANGED <<env, object, steady>>

\* parse_list_from_file: a file that cannot be read is an empty list.
ListOf(file) == IF registered THEN file ELSE {}

\* Mutant: cpumask is read in any case.
CpumaskOverrides ==
  /\ pc = "cpus"
  /\ cpus' = ListOf(pmu.cpus)
  /\ pc' = "cpumask"
  /\ UNCHANGED <<env, pos, config, config1, scale, steady>>

\* The two lists; with neither, get_cpu_set_for opens the event everywhere.
ReadCpus ==
  /\ pc = "cpus"
  /\ cpus' = ListOf(pmu.cpus)
  /\ pc' = IF cpus' = {} THEN "cpumask" ELSE "terms"
  /\ UNCHANGED <<env, pos, config, config1, scale, steady>>

ReadCpumask ==
  /\ pc = "cpumask"
  /\ cpus' = ListOf(pmu.cpumask)
  /\ pc' = IF cpus' = {} THEN "scan" ELSE "terms"
  /\ UNCHANGED <<env, pos, config, config1, scale, steady>>

\* What the kernel answers is EventProbe's subject.
Scan ==
  /\ pc = "scan"
  /\ cpus' \in SUBSET Cpus
  /\ pc' = "terms"
  /\ UNCHANGED <<env, pos, config, config1, scale, steady>>

\* Mutant: a term replaces what the terms before it have set.
TermOverwrites ==
  /\ pc = "terms" /\ pos \in DOMAIN description
  /\ LET t    == description[pos]
         fate == IF registered THEN Fate(t) ELSE "invalid"
     IN  IF fate = "ok"
         THEN /\ config' = IF t.target = "config" THEN Contribution(t, "config") ELSE config
              /\ config1' = IF t.target = "config1" THEN Contribution(t, "config1") ELSE config1
              /\ pos' = pos + 1 /\ UNCHANGED pc
         ELSE pc' = fate /\ UNCHANGED <<pos, config, config1>>
  /\ UNCHANGED <<env, cpus, scale, steady>>

\* Mutant: a term that fails is passed over.
TermIsSkipped ==
  /\ pc = "terms" /\ pos \in DOMAIN description
  /\ LET t    == description[pos]
         fate == IF registered THEN Fate(t) ELSE "invalid"
     IN  IF fate = "threw"
         THEN pc' = fate /\ UNCHANGED <<pos, config, config1>>
         ELSE /\ config' = IF fate = "ok" THEN config \cup Contribution(t, "config") ELSE config
              /\ config1' = IF fate = "ok" THEN config1 \cup Contribution(t, "config1") ELSE config1
              /\ pos' = pos + 1 /\ UNCHANGED pc
  /\ UNCHANGED <<env, cpus, scale, steady>>

\* Mutant: a format file that cannot be read is tried again.
TermIsReread ==
  /\ pc = "terms" /\ pos \in DOMAIN description
  /\ LET t    == description[pos]
         fate == IF registered THEN Fate(t) ELSE "ok"
     IN  IF fate = "ok"
         THEN /\ config' = config \cup Contribution(t, "config")
              /\ config1' = config1 \cup Contribution(t, "config1")
              /\ pos' = IF registered THEN pos + 1 ELSE pos
              /\ UNCHANGED pc
         ELSE pc' = fate /\ UNCHANGED <<pos, config, config1>>
  /\ UNCHANGED <<env, cpus, scale, steady>>

\* One turn of the loop over the terms, with event_attr_update.
ReadTerm ==
  /\ pc = "terms" /\ pos \in DOMAIN description
  /\ LET t    == description[pos]
         fate == IF registered THEN Fate(t) ELSE "invalid"
     IN  IF fate = "ok"
         THEN /\ config' = config \cup Contribution(t, "config")
              /\ config1' = config1 \cup Contribution(t, "config1")
              /\ pos' = pos + 1 /\ UNCHANGED pc
         ELSE pc' = fate /\ UNCHANGED <<pos, config, config1>>
  /\ UNCHANGED <<env, cpus, scale, steady>>

\* Mutant: without a file the scale is the 0 that a failed read leaves.
ScaleOfFailedRead ==
  /\ pc = "terms" /\ pos \notin DOMAIN description
  /\ scale' = IF registered /\ pmu.scale THEN "read" ELSE "0.0"
  /\ pc' = "probe"
  /\ UNCHANGED <<env, pos, config, config1, cpus, steady>>

\* Scale and unit have defaults; then event_is_openable (EventProbe).
ReadScale ==
  /\ pc = "terms" /\ pos \notin DOMAIN description
  /\ scale' = IF registered /\ pmu.scale THEN "read" ELSE "1.0"
  /\ pc' = "probe"
  /\ UNCHANGED <<env, pos, config, config1, cpus, steady>>

Step ==
  \/ ReadType \/ ReadEvent \/ ReadCpus \/ ReadCpumask \/ Scan
  \/ ReadTerm \/ ReadScale

\* The driver of the PMU is unloaded, or loaded again.
PmuComesOrGoes ==
  /\ pc \notin Ended
  /\ registered' = ~registered /\ steady' = FALSE
  /\ UNCHANGED <<pmu, description, pc, object>>

Next == Step \/ PmuComesOrGoes

Spec == Init /\ [][Next]_vars

\* The thread in the constructor runs on.
FairSpec == Spec /\ WF_vars(Step)

-----------------------------------------------------------------------------
(* Properties *)

\* What all the terms together say of an attribute.
Described(attribute) ==
  UNION {Contribution(description[i], attribute) : i \in DOMAIN description}

(* An event that comes to be probed has the configuration its whole            *)
(* description says, although the PMU may have gone and come back between any   *)
(* two of the files: never one of a part of the terms (the loop over ev_cfg).   *)
ConfigIsDescribed ==
  pc = "probe" => config = Described("config") /\ config1 = Described("config1")

(* The shifts of parse_bitmask give the bits of the ranges and no others, also *)
(* of a range that is the whole word, for which a shift by its length would be  *)
(* undefined, and of one that ends with the word.                              *)
MasksAreTheirRanges ==
  pc = "probe" =>
    \A i \in DOMAIN description :
      Mask(description[i]) = UNION {r.lo .. r.hi : r \in description[i].ranges}

\* Term i is the one the loop stops at.
FirstWithFate(i, fate) ==
  /\ Fate(description[i]) = fate
  /\ \A j \in 1 .. i - 1 : Fate(description[j]) = "ok"

(* The way the constructor ends is decided by the first term in error, the     *)
(* error in it that the code looks at first, and nothing else: a value stol      *)
(* does not take ends it with an exception that is no InvalidEvent, and         *)
(* InvalidEvent means that a file is missing or a format is malformed.          *)
OutcomeIsDeserved ==
  /\ pc = "threw" => \E i \in DOMAIN description : FirstWithFate(i, "threw")
  /\ pc = "invalid" /\ steady =>
       \/ ~registered \/ ~pmu.event
       \/ \E i \in DOMAIN description : FirstWithFate(i, "invalid")
  /\ pc = "probe" => \A i \in DOMAIN description : Fate(description[i]) = "ok"

(* The supported CPUs are those of the file "cpus", or else of "cpumask", and  *)
(* only for a PMU with neither are they found by opening the event, which is    *)
(* not configured yet.                                                        *)
CpusComeFromThePmu ==
  steady /\ pc = "probe" =>
    /\ pmu.cpus # {} => cpus = pmu.cpus
    /\ pmu.cpus = {} /\ pmu.cpumask # {} => cpus = pmu.cpumask

(* Every construction comes to an end. *)
ConstructionEnds == <>(pc \in Ended)

-----------------------------------------------------------------------------
(* What the comments say *)

\* The mask with the single bits that parse_bitmask has a case for.
DocumentedMask(t) == Mask(t) \cup t.singles

(* parse_bitmask takes a match without an end as the range from start to       *)
(* start, and event_attr_update documents the format as a term and a bitmask:   *)
(* every bit of the list takes its bit of the value.                           *)
SingleBitsCount ==
  pc = "probe" =>
    \A i \in DOMAIN description :
      LET t == description[i]
      IN  /\ t.target = "config"  => Deposit(t.value, DocumentedMask(t)) \subseteq config
          /\ t.target = "config1" => Deposit(t.value, DocumentedMask(t)) \subseteq config1
=============================================================================
