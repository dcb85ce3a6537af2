--------------------------- MODULE SysfsEventProofs ---------------------------
(***************************************************************************)
(* Theorems about the constructor of SysfsEventAttr, for descriptions of any    *)
(* length, words of any width and any terms.  The loop invariant (Parsed) says   *)
(* of the terms before pos what the properties say of all of them; the CPUs      *)
(* need the outcome of each of the two lists to be remembered (Listed).          *)
(***************************************************************************)
EXTENDS SysfsEvent, TLAPS

SoFar(attribute) == UNION {Contribution(description[i], attribute) : i \in 1 .. pos - 1}

Parsed ==
  /\ 1 .. pos - 1 \subseteq DOMAIN description
  /\ \A i \in 1 .. pos - 1 : Fate(description[i]) = "ok"
  /\ config = SoFar("config") /\ config1 = SoFar("config1")
  /\ pc = "probe" => pos \notin DOMAIN description

Failed ==
  /\ pc = "threw" => \E i \in DOMAIN description : FirstWithFate(i, "threw")
  /\ pc = "invalid" /\ steady =>
       \/ ~registered \/ ~pmu.event
       \/ \E i \in DOMAIN description : FirstWithFate(i, "invalid")

Listed ==
  steady =>
    /\ pc \notin {"type", "invalid"} => registered
    /\ pc \in {"cpumask", "scan"} => pmu.cpus = {}
    /\ pc = "scan" => pmu.cpumask = {}
    /\ pc \in {"terms", "probe"} =>
         /\ pmu.cpus # {} => cpus = pmu.cpus
         /\ pmu.cpus = {} /\ pmu.cpumask # {} => cpus = pmu.cpumask

SysfsInv == TypeOK /\ Parsed /\ Failed /\ Listed

-----------------------------------------------------------------------------
\* What a term contributes fits the word.
LEMMA ContributionFits ==
  ASSUME NEW t \in Terms, NEW attribute, Fate(t) = "ok"
  PROVE  Contribution(t, attribute) \subseteq Bits
<1>1. Mask(t) \subseteq Bits
  BY DEF Mask, RangeMask, BitsOf
<1> QED BY <1>1 DEF Contribution, Deposit

\* A term more.
LEMMA OneMore ==
  ASSUME pos \in Nat, pos >= 1
  PROVE  1 .. (pos + 1) - 1 = (1 .. pos - 1) \cup {pos}
OBVIOUS

LEMMA InitSysfsInv == Init => SysfsInv
<1> SUFFICES ASSUME Init PROVE SysfsInv
  OBVIOUS
<1>1. TypeOK
  BY SysfsAssumption DEF Init, TypeOK, Reading, Ended
<1>2. 1 .. pos - 1 = {}
  BY DEF Init
<1>3. Parsed
  BY <1>2, Zenon DEF Init, Parsed, SoFar
<1>4. Failed /\ Listed
  BY DEF Init, Failed, Listed
<1> QED BY <1>1, <1>3, <1>4 DEF SysfsInv

\* A step that leaves the description, pos and the two words alone, and does not
\* get to the end, keeps Parsed.
LEMMA ParsedStays ==
  ASSUME Parsed, UNCHANGED <<description, pos, config, config1>>,
         pc' = "probe" => pos \notin DOMAIN description
  PROVE  Parsed'
BY DEF Parsed, SoFar

LEMMA NextKeepsSysfsInv == SysfsInv /\ [Next]_vars => SysfsInv'
<1> SUFFICES ASSUME SysfsInv, [Next]_vars PROVE SysfsInv'
  OBVIOUS
<1> USE DEF SysfsInv
<1>1. TypeOK /\ Parsed /\ Failed /\ Listed
  OBVIOUS
<1>2. pmu.cpus \subseteq Cpus /\ pmu.cpumask \subseteq Cpus
  BY <1>1 DEF TypeOK, Pmus
<1>3. CASE ReadType \/ ReadEvent \/ ReadCpus \/ ReadCpumask \/ Scan \/ ReadScale
  <2>1. UNCHANGED <<env, pos, config, config1, steady>>
    BY <1>3 DEF ReadType, ReadEvent, ReadCpus, ReadCpumask, Scan, ReadScale, object
  <2>2. TypeOK'
    BY <1>1, <1>2, <1>3, <2>1
    DEF TypeOK, ReadType, ReadEvent, ReadCpus, ReadCpumask, Scan, ReadScale,
        ListOf, env, object, Reading, Ended
  <2>3. Parsed'
    BY <1>1, <1>3, <2>1, ParsedStays
    DEF ReadType, ReadEvent, ReadCpus, ReadCpumask, Scan, ReadScale, env, object
  <2>4. Failed'
    BY <1>1, <1>3, <2>1
    DEF Failed, ReadType, ReadEvent, ReadCpus, ReadCpumask, Scan, ReadScale, env
  <2>5. Listed'
    BY <1>1, <1>3, <2>1
    DEF Listed, ReadType, ReadEvent, ReadCpus, ReadCpumask, Scan, ReadScale,
        ListOf, env, object
  <2> QED BY <2>2, <2>3, <2>4, <2>5
<1>4. CASE ReadTerm
  <2>1. /\ pc = "terms" /\ pos \in DOMAIN description
        /\ UNCHANGED <<env, cpus, scale, steady>>
        /\ pos \in 1 .. MaxTerms + 1
    BY <1>1, <1>4 DEF ReadTerm, TypeOK
  <2>2. PICK n \in 1 .. MaxTerms : description \in [1 .. n -> Terms]
    BY <1>1 DEF TypeOK, Descriptions
  <2>3. description[pos] \in Terms /\ pos \in 1 .. n
    BY <2>1, <2>2
  <2> DEFINE t == description[pos]
             fate == IF registered THEN Fate(t) ELSE "invalid"
  <2>4. CASE fate = "ok"
    <3>1. /\ config' = config \cup Contribution(t, "config")
          /\ config1' = config1 \cup Contribution(t, "config1")
          /\ pos' = pos + 1 /\ pc' = "terms" /\ Fate(t) = "ok"
      BY <1>4, <2>1, <2>4 DEF ReadTerm
    <3>2. TypeOK'
      BY <1>1, <2>1, <2>2, <2>3, <3>1, ContributionFits, SysfsAssumption
      DEF TypeOK, env, Reading, Ended
    <3>3. 1 .. pos' - 1 = (1 .. pos - 1) \cup {pos}
      BY <2>1, <3>1, OneMore, SysfsAssumption
    <3>4. /\ SoFar("config")' = SoFar("config") \cup Contribution(t, "config")
          /\ SoFar("config1")' = SoFar("config1") \cup Contribution(t, "config1")
      BY <2>1, <3>3, Zenon DEF SoFar, env
    <3>5. Parsed'
      BY <1>1, <2>1, <3>1, <3>3, <3>4 DEF Parsed, env
    <3>6. Failed' /\ Listed'
      BY <1>1, <2>1, <3>1 DEF Failed, Listed, env
    <3> QED BY <3>2, <3>5, <3>6
  <2>5. CASE fate # "ok"
    <3>1. pc' = fate /\ UNCHANGED <<pos, config, config1>>
      BY <1>4, <2>5 DEF ReadTerm
    <3>2. pc' \in {"invalid", "threw"}
      BY <2>5, <3>1 DEF Fate
    <3>3. TypeOK'
      BY <1>1, <2>1, <3>1, <3>2 DEF TypeOK, env, Ended
    <3>4. Parsed'
      BY <1>1, <2>1, <3>1, <3>2, ParsedStays DEF env
    <3>5. Fate(t) = "ok" \/ Fate(t) = "invalid" \/ Fate(t) = "threw"
      BY DEF Fate
    <3>6. Failed'
      BY <1>1, <2>1, <3>1, <3>2, <3>5 DEF Failed, FirstWithFate, Parsed, env
    <3>7. Listed'
      BY <1>1, <2>1, <3>1, <3>2 DEF Listed, env
    <3> QED BY <3>3, <3>4, <3>6, <3>7
  <2> QED BY <2>4, <2>5
<1>5. CASE PmuComesOrGoes
  <2>1. TypeOK'
    BY <1>1, <1>5 DEF PmuComesOrGoes, TypeOK, object
  <2>2. Parsed'
    BY <1>1, <1>5, ParsedStays DEF PmuComesOrGoes, object, Ended
  <2>3. Failed' /\ Listed'
    BY <1>1, <1>5 DEF PmuComesOrGoes, Failed, Listed, FirstWithFate, Ended
  <2> QED BY <2>1, <2>2, <2>3
<1>6. CASE UNCHANGED vars
  BY <1>1, <1>6
  DEF vars, env, object, TypeOK, Parsed, SoFar, Failed, FirstWithFate, Listed
<1> QED BY <1>3, <1>4, <1>5, <1>6 DEF Next, Step

-----------------------------------------------------------------------------
(* The theorems *)

(* Every variable keeps its type; the two words stay words. *)
THEOREM SysfsTypeCorrect == Spec => []TypeOK
<1>1. SysfsInv => TypeOK
  BY DEF SysfsInv
<1> QED BY <1>1, InitSysfsInv, NextKeepsSysfsInv, PTL DEF Spec

LEMMA AllParsed ==
  ASSUME SysfsInv, pc = "probe" PROVE 1 .. pos - 1 = DOMAIN description
<1>1. PICK n \in 1 .. MaxTerms : description \in [1 .. n -> Terms]
  BY DEF SysfsInv, TypeOK, Descriptions
<1>2. /\ 1 .. pos - 1 \subseteq 1 .. n /\ pos \notin 1 .. n
      /\ pos \in Nat /\ pos >= 1 /\ n \in Nat
  BY <1>1, SysfsAssumption DEF SysfsInv, Parsed, TypeOK
<1> QED BY <1>1, <1>2

(* An event is probed with the configuration its whole description says. *)
THEOREM ConfigsAreDescribed == Spec => []ConfigIsDescribed
<1>1. SysfsInv => ConfigIsDescribed
  BY AllParsed, Zenon DEF SysfsInv, Parsed, SoFar, ConfigIsDescribed, Described
<1> QED BY <1>1, InitSysfsInv, NextKeepsSysfsInv, PTL DEF Spec

(* The first error in the description decides how the constructor ends. *)
THEOREM OutcomesAreDeserved == Spec => []OutcomeIsDeserved
<1>1. SysfsInv => OutcomeIsDeserved
  BY AllParsed DEF SysfsInv, Parsed, Failed, OutcomeIsDeserved
<1> QED BY <1>1, InitSysfsInv, NextKeepsSysfsInv, PTL DEF Spec

(* The PMU's own lists of CPUs are used if it has any. *)
THEOREM CpusAreThePmus == Spec => []CpusComeFromThePmu
<1>1. SysfsInv => CpusComeFromThePmu
  BY DEF SysfsInv, Listed, CpusComeFromThePmu
<1> QED BY <1>1, InitSysfsInv, NextKeepsSysfsInv, PTL DEF Spec

-----------------------------------------------------------------------------
(* What the terms have to do with one another *)

\* No other term of the description goes to bits of term i.
HasItsOwnBits(i) ==
  \A j \in DOMAIN description \ {i} :
    description[j].target = description[i].target =>
      Mask(description[j]) \cap Mask(description[i]) = {}

(* In the configuration of an event that comes to be probed, the bits of a term     *)
(* hold the value of this term and nothing of any other, and no bit is set that      *)
(* is none of any term's: given formats that do not overlap, in whatever order the   *)
(* terms are written, event_attr_update never spills into another term.             *)
TermsStandApart ==
  pc = "probe" =>
    /\ \A i \in DOMAIN description : HasItsOwnBits(i) =>
         LET t == description[i]
         IN  /\ t.target = "config"  => config \cap Mask(t) = Deposit(t.value, Mask(t))
             /\ t.target = "config1" => config1 \cap Mask(t) = Deposit(t.value, Mask(t))
    /\ config  \subseteq UNION {Mask(description[i]) : i \in DOMAIN description}
    /\ config1 \subseteq UNION {Mask(description[i]) : i \in DOMAIN description}

\* The bits of an attribute inside the mask of one of its terms.
LEMMA OwnBits ==
  ASSUME NEW i \in DOMAIN description, HasItsOwnBits(i),
         NEW attribute, description[i].target = attribute
  PROVE  Described(attribute) \cap Mask(description[i])
           = Deposit(description[i].value, Mask(description[i]))
<1> DEFINE t == description[i]
<1>1. \A j \in DOMAIN description : Contribution(description[j], attribute) \cap Mask(t) =
         IF j = i THEN Deposit(t.value, Mask(t)) ELSE {}
  BY DEF HasItsOwnBits, Contribution, Deposit
<1>2. \A b : b \in Described(attribute) \cap Mask(t)
               <=> \E j \in DOMAIN description :
                     b \in Contribution(description[j], attribute) \cap Mask(t)
  BY Zenon DEF Described
<1> HIDE DEF t
<1>3. \A b : b \in Described(attribute) \cap Mask(t) <=> b \in Deposit(t.value, Mask(t))
  BY <1>1, <1>2
<1> QED BY <1>3 DEF t

LEMMA NoStrayBits ==
  ASSUME NEW attribute
  PROVE  Described(attribute) \subseteq UNION {Mask(description[i]) : i \in DOMAIN description}
<1>1. \A i \in DOMAIN description :
        Contribution(description[i], attribute) \subseteq Mask(description[i])
  BY DEF Contribution, Deposit
<1> QED BY <1>1, Zenon DEF Described

(* Terms whose formats do not overlap do not disturb one another. *)
THEOREM TermsDoStandApart == Spec => []TermsStandApart
<1>1. SysfsInv => ConfigIsDescribed
  BY AllParsed, Zenon DEF SysfsInv, Parsed, SoFar, ConfigIsDescribed, Described
<1>2. ConfigIsDescribed => TermsStandApart
  <2> SUFFICES ASSUME pc = "probe", config = Described("config"),
                      config1 = Described("config1")
               PROVE  TermsStandApart
    BY DEF ConfigIsDescribed, TermsStandApart
  <2>1. ASSUME NEW i \in DOMAIN description, HasItsOwnBits(i)
        PROVE  /\ description[i].target = "config" =>
                    config \cap Mask(description[i])
                      = Deposit(description[i].value, Mask(description[i]))
               /\ description[i].target = "config1" =>
                    config1 \cap Mask(description[i])
                      = Deposit(description[i].value, Mask(description[i]))
    BY <2>1, OwnBits
  <2>2. /\ config \subseteq UNION {Mask(description[i]) : i \in DOMAIN description}
        /\ config1 \subseteq UNION {Mask(description[i]) : i \in DOMAIN description}
    BY NoStrayBits
  <2> QED BY <2>1, <2>2 DEF TermsStandApart
<1> QED BY <1>1, <1>2, InitSysfsInv, NextKeepsSysfsInv, PTL DEF Spec

-----------------------------------------------------------------------------
(* Every construction ends: what can be said of ConstructionEnds without fairness *)

\* The steps of the constructor that are left before the end, at most.
StepsLeft ==
  IF pc = "type" THEN MaxTerms + 7
  ELSE IF pc = "event" THEN MaxTerms + 6
  ELSE IF pc = "cpus" THEN MaxTerms + 5
  ELSE IF pc = "cpumask" THEN MaxTerms + 4
  ELSE IF pc = "scan" THEN MaxTerms + 3
  ELSE IF pc = "terms" THEN MaxTerms + 2 - pos
  ELSE 0

(* Each step of the constructor brings its end nearer, and a PMU that comes and     *)
(* goes never makes it read a file twice: the files are at most six and one for      *)
(* each term (the constructor of SysfsEventAttr).                                 *)
ConstructionIsBounded ==
  /\ [](StepsLeft \in Nat /\ (StepsLeft = 0 <=> pc \in Ended))
  /\ [][StepsLeft' <= StepsLeft /\ (Step => StepsLeft' < StepsLeft)]_vars

LEMMA InvBounds == ASSUME SysfsInv PROVE StepsLeft \in Nat /\ (StepsLeft = 0 <=> pc \in Ended)
<1>1. pos \in 1 .. MaxTerms + 1 /\ MaxTerms \in Nat
  BY SysfsAssumption DEF SysfsInv, TypeOK
<1> QED BY <1>1 DEF SysfsInv, TypeOK, StepsLeft, Reading, Ended

LEMMA StepsCount ==
  ASSUME SysfsInv, [Next]_vars
  PROVE  StepsLeft' <= StepsLeft /\ (Step => StepsLeft' < StepsLeft)
<1> USE DEF StepsLeft
<1>1. pos \in 1 .. MaxTerms + 1 /\ MaxTerms \in Nat
  BY SysfsAssumption DEF SysfsInv, TypeOK
<1>2. ASSUME ReadType \/ ReadEvent \/ ReadCpus \/ ReadCpumask \/ Scan
      PROVE  StepsLeft' \in Int /\ StepsLeft' < StepsLeft
  BY <1>1, <1>2 DEF ReadType, ReadEvent, ReadCpus, ReadCpumask, Scan, object
<1>3. ASSUME ReadTerm PROVE StepsLeft' \in Int /\ StepsLeft' < StepsLeft
  <2>1. pc = "terms" /\ ((pc' = "terms" /\ pos' = pos + 1) \/ pc' \in {"invalid", "threw"})
    BY <1>3 DEF ReadTerm, Fate
  <2> QED BY <1>1, <2>1
<1>4. ASSUME ReadScale PROVE StepsLeft' \in Int /\ StepsLeft' < StepsLeft
  BY <1>1, <1>4 DEF ReadScale
<1>5. ASSUME PmuComesOrGoes \/ UNCHANGED vars PROVE StepsLeft' = StepsLeft
  BY <1>5 DEF PmuComesOrGoes, vars, object
<1>6. StepsLeft \in Nat
  BY InvBounds
<1> QED BY <1>2, <1>3, <1>4, <1>5, <1>6 DEF Next, Step

(* The constructor has a bound on its steps. *)
THEOREM ConstructionsAreBounded == Spec => ConstructionIsBounded
<1>1. SysfsInv => StepsLeft \in Nat /\ (StepsLeft = 0 <=> pc \in Ended)
  BY InvBounds
<1>2. SysfsInv /\ [Next]_vars =>
        [StepsLeft' <= StepsLeft /\ (Step => StepsLeft' < StepsLeft)]_vars
  BY StepsCount
<1> QED BY <1>1, <1>2, InitSysfsInv, NextKeepsSysfsInv, PTL DEF Spec, ConstructionIsBounded
=============================================================================
