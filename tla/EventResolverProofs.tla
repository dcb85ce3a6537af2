-------------------------- MODULE EventResolverProofs --------------------------
(***************************************************************************)
(* Theorems about EventResolver, for any names and files.  The answers stand   *)
(* because the map and the memory of the callers move together (Entries); the  *)
(* refinement also needs that nobody is answered before the constructor is     *)
(* done (Startup); the listing theorem needs what the loop has seen so far     *)
(* (ListedSoFar).                                                                *)
(***************************************************************************)
EXTENDS EventResolver, FiniteSetTheorems, TLAPS

Startup ==
  pc = "startup" =>
    /\ todo \subseteq Predefined
    /\ \A n \in todo : event_map[n] = "absent"
    /\ last = Lookup!NoReply /\ ~calm
    /\ \A n \in Names : told[n] = "none"

\* An entry no caller knows of is a predefined event.
Entries ==
  \A n \in Names :
    /\ event_map[n] = "null" => told[n] = "no"
    /\ event_map[n] = "absent" => told[n] = "none"
    /\ event_map[n] = "attr" /\ n \notin Predefined => told[n] = "yes"

\* What the callers were told is in the map.
MapAgrees ==
  \A n \in Names :
    /\ told[n] = "yes" => event_map[n] = "attr"
    /\ told[n] = "no"  => event_map[n] = "null"
    /\ told[n] = "none" /\ n \notin Predefined => event_map[n] = "absent"

\* What the running loops can still come to.
Left == IF Devices \in todo THEN Directories \cup Files
        ELSE todo \cup {f \in Files : PmuOf[f] \in todo}

\* A directory is visited before what is in it.  While the world stands still,
\* the loops have put aside what can be opened.
ListedSoFar ==
  pc = "listing" =>
    /\ todo \subseteq Directories \cup Files
    /\ Devices \in todo => todo = {Devices}
    /\ \A f \in todo \cap Files : PmuOf[f] \notin todo
    /\ calm => /\ todo \subseteq Listed
               /\ events = {f \in (Listed \cap Files) \ Left : world[f] = "ok"}
               /\ \A x \in Listed \ Left : world[x] # "other"

ResolverInv ==
  /\ TypeOK
  /\ Startup
  /\ Entries
  /\ ListedSoFar
  /\ AnswersNeverChange
  /\ MapAgrees
  /\ ListingIsAllOrNothing

-----------------------------------------------------------------------------
LEMMA ReplyNames ==
  ASSUME TypeOK
  PROVE  /\ last # Lookup!NoReply => last.name \in Names /\ last.answer \in {"yes", "no", "error"}
         /\ \A n \in Names, a \in {"yes", "no", "error"} :
              /\ [name |-> n, answer |-> a] \in Lookup!Replies
              /\ [name |-> n, answer |-> a] # Lookup!NoReply
  BY DEF TypeOK, Lookup!Replies, Lookup!NoReply

\* Only a sysfs name with a file can fail with another exception.
LEMMA ConstructType == ASSUME TypeOK, NEW n \in Names PROVE Construct(n) \in {"ok", "invalid", "other"}
<1>1. n \in Sysfs => FileOf[n] \in Files \cup {NoFile}
  BY ResolverAssumption
<1> QED BY <1>1 DEF TypeOK, Construct, Names, Places, Constructible

LEMMA InitResolverInv == Init => ResolverInv
<1> SUFFICES ASSUME Init PROVE ResolverInv
  OBVIOUS
<1>1. TypeOK
  BY DEF Init, TypeOK, Worlds
<1>2. Startup /\ Entries /\ ListedSoFar /\ AnswersNeverChange /\ MapAgrees
  BY DEF Init, Startup, Entries, ListedSoFar, AnswersNeverChange, MapAgrees, Names
<1>3. ListingIsAllOrNothing
  BY DEF Init, ListingIsAllOrNothing
<1> QED BY <1>1, <1>2, <1>3 DEF ResolverInv

LEMMA StartupKeepsInv ==
  ASSUME ResolverInv, StartupStep \/ StartupEnds
  PROVE  ResolverInv'
<1> USE DEF ResolverInv, TypeOK
<1>1. CASE StartupStep
  <2>1. PICK n \in todo :
          /\ todo' = todo \ {n}
          /\ event_map' = IF world[n] = "ok" THEN [event_map EXCEPT ![n] = "attr"]
                                             ELSE event_map
    BY <1>1 DEF StartupStep
  <2>2. pc = "startup" /\ UNCHANGED <<world, pc, last, events, listing, calm, told>>
    BY <1>1 DEF StartupStep
  <2>3. n \in Predefined /\ n \in Names /\ todo \subseteq Predefined
    BY <2>2 DEF Startup, Names
  <2>4. TypeOK'
    BY <2>1, <2>2, <2>3
  <2>5. Startup' /\ Entries' /\ MapAgrees'
    BY <2>1, <2>2, <2>3 DEF Startup, Entries, MapAgrees, Names
  <2>6. ListedSoFar' /\ AnswersNeverChange' /\ ListingIsAllOrNothing'
    BY <2>2 DEF ListedSoFar, AnswersNeverChange, ListingIsAllOrNothing, Startup
  <2> QED BY <2>4, <2>5, <2>6
<1>2. CASE StartupEnds
  <2> USE <1>2 DEF StartupEnds
  <2>1. TypeOK' /\ Startup' /\ Entries' /\ MapAgrees' /\ AnswersNeverChange'
    BY DEF Startup, Entries, MapAgrees, AnswersNeverChange
  <2>2. ListedSoFar'
    BY DEF ListedSoFar
  <2>3. ListingIsAllOrNothing'
    BY DEF Startup, ListingIsAllOrNothing
  <2> QED BY <2>1, <2>2, <2>3
<1> QED BY <1>1, <1>2

\* What a look-up does, by the three outcomes a caller can see.
LEMMA LookUpCases ==
  ASSUME ResolverInv, NEW n \in Names, LookUp(n)
  PROVE  \E a \in {"yes", "no", "error"} :
           /\ last' = [name |-> n, answer |-> a]
           /\ a = "yes" => /\ event_map[n] \in {"absent", "attr"}
                           /\ event_map' = [event_map EXCEPT ![n] = "attr"]
           /\ a = "no" => /\ event_map[n] \in {"absent", "null"}
                          /\ event_map' = [event_map EXCEPT ![n] = "null"]
           /\ a = "error" => event_map[n] = "absent" /\ event_map' = event_map
           /\ told' = IF told[n] = "none" /\ a # "error"
                      THEN [told EXCEPT ![n] = a] ELSE told
<1> USE DEF ResolverInv, TypeOK
<1>1. CASE event_map[n] = "absent"
  <2>1. /\ event_map' = [event_map EXCEPT ![n] = Entry[Construct(n)]]
        /\ last' = [name |-> n, answer |-> Reply[Construct(n)]]
        /\ told' = IF told[n] = "none" /\ Reply[Construct(n)] # "error"
                   THEN [told EXCEPT ![n] = Reply[Construct(n)]] ELSE told
    BY <1>1 DEF LookUp
  <2>2. CASE Construct(n) = "ok"
    BY <1>1, <2>1, <2>2 DEF Entry, Reply
  <2>3. CASE Construct(n) = "invalid"
    BY <1>1, <2>1, <2>3 DEF Entry, Reply
  <2>4. CASE Construct(n) = "other"
    BY <1>1, <2>1, <2>4 DEF Entry, Reply
  <2> QED BY <2>2, <2>3, <2>4, ConstructType
<1>2. CASE event_map[n] # "absent"
  <2>1. /\ event_map' = event_map
        /\ last' = [name |-> n, answer |-> Reply[event_map[n]]]
        /\ told' = IF told[n] = "none" /\ Reply[event_map[n]] # "error"
                   THEN [told EXCEPT ![n] = Reply[event_map[n]]] ELSE told
    BY <1>2 DEF LookUp
  <2>2. CASE event_map[n] = "attr"
    BY <2>1, <2>2 DEF Reply
  <2>3. CASE event_map[n] = "null"
    BY <2>1, <2>3 DEF Reply
  <2> QED BY <1>2, <2>2, <2>3
<1> QED BY <1>1, <1>2

LEMMA LookUpKeepsInv ==
  ASSUME ResolverInv, NEW n \in Names, LookUp(n)
  PROVE  ResolverInv'
<1> USE DEF ResolverInv, TypeOK
<1>1. PICK a \in {"yes", "no", "error"} :
        /\ last' = [name |-> n, answer |-> a]
        /\ a = "yes" => /\ event_map[n] \in {"absent", "attr"}
                        /\ event_map' = [event_map EXCEPT ![n] = "attr"]
        /\ a = "no" => /\ event_map[n] \in {"absent", "null"}
                       /\ event_map' = [event_map EXCEPT ![n] = "null"]
        /\ a = "error" => event_map[n] = "absent" /\ event_map' = event_map
        /\ told' = IF told[n] = "none" /\ a # "error"
                   THEN [told EXCEPT ![n] = a] ELSE told
  BY LookUpCases
<1>2. pc = "ready" /\ UNCHANGED <<world, pc, todo, events, listing, calm>>
  BY DEF LookUp
<1>3. TypeOK'
  BY <1>1, <1>2, ReplyNames
<1>4. Startup' /\ ListedSoFar' /\ ListingIsAllOrNothing'
  BY <1>2 DEF Startup, ListedSoFar, Left, Listed, ListingIsAllOrNothing
<1>5. Entries' /\ MapAgrees'
  BY <1>1 DEF Entries, MapAgrees
<1>6. AnswersNeverChange'
  BY <1>1 DEF Entries, MapAgrees, AnswersNeverChange
<1> QED BY <1>3, <1>4, <1>5, <1>6

\* What a turn takes away from what is left.
LEMMA VisitShrinks ==
  ASSUME ResolverInv, pc = "listing", NEW x \in Turn, Visit(x), world[x] # "other"
  PROVE  /\ x \in Left /\ Left' \subseteq Left \ {x}
         /\ calm => Listed \cap (Left \ Left') \subseteq {x}
<1> USE DEF ResolverInv, TypeOK, ListedSoFar, Visit, Turn, Contents
<1>1. /\ x \in todo /\ todo \subseteq Directories \cup Files
      /\ Devices \notin Pmus \cup Files /\ Pmus \cap Files = {}
      /\ \A f \in Files : PmuOf[f] \in Pmus
  BY ResolverAssumption DEF Directories
<1>2. CASE x = Devices
  <2>1. world[x] = "ok" /\ todo = {Devices}
    BY <1>1, <1>2 DEF Places, Directories, Outcomes
  <2>2. todo' = Pmus
    BY <2>1, <1>2
  <2> QED BY <1>1, <1>2, <2>1, <2>2 DEF Left, Directories
<1>3. CASE x \in Pmus
  <2>1. Devices \notin todo /\ todo \cap Files = {}
    BY <1>1, <1>3
  <2>2. x # Devices
    BY <1>1, <1>3
  <2>3. Left = todo \cup {f \in Files : PmuOf[f] \in todo}
    BY <2>1 DEF Left
  <2>4. CASE world[x] = "ok"
    <3>1. todo' = (todo \ {x}) \cup {f \in Files : PmuOf[f] = x}
      BY <2>2, <2>4
    <3>2. Devices \notin todo'
      BY <1>1, <2>1, <3>1
    <3>3. Left' = todo' \cup {f \in Files : PmuOf[f] \in todo'}
      BY <3>2 DEF Left
    <3> QED BY <1>1, <1>3, <2>1, <2>3, <3>1, <3>3
  <2>5. CASE world[x] # "ok"
    <3>1. todo' = todo \ {x}
      BY <2>5
    <3>2. Left' = todo' \cup {f \in Files : PmuOf[f] \in todo'}
      BY <2>1, <3>1 DEF Left
    <3>3. world[x] = "invalid"
      BY <1>1, <1>3, <2>5 DEF Places, Directories
    <3>4. \A f \in Files : PmuOf[f] = x => f \notin Listed
      BY <1>1, <3>3 DEF Listed
    <3> QED BY <1>1, <1>3, <2>1, <2>3, <3>1, <3>2, <3>4
  <2> QED BY <2>4, <2>5
<1>4. CASE x \in Files
  <2>1. Devices \notin todo /\ x # Devices
    BY <1>1, <1>4
  <2>2. {f \in Files : PmuOf[f] = x} = {}
    BY <1>1, <1>4
  <2>3. todo' = todo \ {x} /\ Devices \notin todo'
    BY <2>1, <2>2
  <2>4. PmuOf[x] \notin todo
    BY <1>1, <1>4
  <2>5. Left = todo \cup {f \in Files : PmuOf[f] \in todo}
    BY <2>1 DEF Left
  <2>6. Left' = todo' \cup {f \in Files : PmuOf[f] \in todo'}
    BY <2>3 DEF Left
  <2> QED BY <1>1, <1>4, <2>3, <2>4, <2>5, <2>6
<1> QED BY <1>1, <1>2, <1>3, <1>4 DEF Directories

LEMMA ListingKeepsInv ==
  ASSUME ResolverInv, ListingBegins \/ ListingStep \/ ListingEnds
  PROVE  ResolverInv'
<1> USE DEF ResolverInv, TypeOK, Consistent
<1>1. UNCHANGED <<world, event_map, last, told>>
  BY DEF ListingBegins, ListingStep, ListingEnds
<1>2. Startup' /\ Entries' /\ AnswersNeverChange' /\ MapAgrees'
  BY <1>1 DEF ListingBegins, ListingStep, ListingEnds, Visit, Startup, Entries,
       AnswersNeverChange, MapAgrees
<1>3. CASE ListingBegins
  <2>1. TypeOK'
    BY <1>1, <1>3 DEF ListingBegins, Directories
  <2>2. Left' = Directories \cup Files /\ Listed' \subseteq Directories \cup Files
    BY <1>3 DEF ListingBegins, Left, Listed, Directories
  <2>3. \A f \in todo' \cap Files : PmuOf[f] \notin todo'
    BY <1>3, ResolverAssumption DEF ListingBegins, Directories
  <2>4. todo' \subseteq Listed'
    BY <1>3 DEF ListingBegins, Listed
  <2>5. ListedSoFar'
    BY <1>3, <2>2, <2>3, <2>4 DEF ListingBegins, ListedSoFar, Directories
  <2>6. ListingIsAllOrNothing'
    BY <1>3 DEF ListingBegins, ListingIsAllOrNothing
  <2> QED BY <1>2, <2>1, <2>5, <2>6
<1>4. CASE ListingStep
  <2>1. PICK x \in Turn :
          IF world[x] = "other"
          THEN pc' = "ready" /\ listing' = "threw" /\ todo' = {} /\ events' = {}
          ELSE Visit(x)
    BY <1>4 DEF ListingStep
  <2>2. pc = "listing" /\ calm' = calm /\ x \in todo /\ todo \subseteq Directories \cup Files
    BY <1>4 DEF ListingStep, ListedSoFar, Turn
  <2>3. Listed' = Listed
    BY <1>1 DEF Listed
  <2>4. CASE world[x] = "other"
    <3>1. TypeOK'
      BY <1>1, <2>1, <2>2, <2>4
    <3>2. ListedSoFar'
      BY <2>1, <2>4 DEF ListedSoFar
    <3>3. calm => x \in Listed
      BY <2>2 DEF ListedSoFar
    <3>4. ListingIsAllOrNothing'
      BY <1>1, <2>1, <2>2, <2>3, <2>4, <3>3 DEF ListingIsAllOrNothing
    <3> QED BY <1>2, <3>1, <3>2, <3>4
  <2>5. CASE world[x] # "other"
    <3>1. /\ todo' = (todo \ {x}) \cup (IF world[x] = "ok" THEN Contents(x) ELSE {})
          /\ events' = IF x \in Files /\ world[x] = "ok" THEN events \cup {x} ELSE events
          /\ UNCHANGED <<pc, listing>>
      BY <2>1, <2>5 DEF Visit
    <3>2. Contents(x) \subseteq Pmus \cup Files
      BY DEF Contents
    <3>3. TypeOK'
      BY <1>1, <2>2, <3>1, <3>2 DEF Directories
    <3>4. /\ x \in Left /\ Left' \subseteq Left \ {x}
          /\ calm => Listed \cap (Left \ Left') \subseteq {x}
      BY <2>1, <2>2, <2>5, VisitShrinks
    <3>5. ListedSoFar'
      <4>1. Devices \notin todo' /\ todo' \subseteq Directories \cup Files
        BY <2>2, <3>1, <3>2, ResolverAssumption DEF ListedSoFar, Directories
      <4>2. \A f \in todo' \cap Files : PmuOf[f] \notin todo'
        BY <2>1, <2>2, <3>1, ResolverAssumption DEF ListedSoFar, Contents, Turn, Directories
      <4>3. calm => todo' \subseteq Listed
        BY <2>2, <3>1, ResolverAssumption DEF ListedSoFar, Contents, Listed, Directories
      <4>4. calm => events' = {f \in (Listed \cap Files) \ Left' : world[f] = "ok"}
        BY <2>2, <3>1, <3>4 DEF ListedSoFar
      <4>5. calm => \A y \in Listed \ Left' : world[y] # "other"
        BY <2>2, <2>5, <3>4 DEF ListedSoFar
      <4> QED BY <1>1, <2>2, <2>3, <3>1, <4>1, <4>2, <4>3, <4>4, <4>5 DEF ListedSoFar
    <3>6. ListingIsAllOrNothing'
      BY <2>2, <3>1 DEF ListingIsAllOrNothing
    <3> QED BY <1>2, <3>3, <3>5, <3>6
  <2> QED BY <2>4, <2>5
<1>5. CASE ListingEnds
  <2>1. TypeOK'
    BY <1>1, <1>5 DEF ListingEnds
  <2>2. ListedSoFar'
    BY <1>5 DEF ListingEnds, ListedSoFar
  <2>3. Listed' = Listed
    BY <1>1 DEF Listed
  <2>4. Left = {}
    BY <1>5 DEF ListingEnds, Left
  <2>5. ListingIsAllOrNothing'
    BY <1>1, <1>5, <2>3, <2>4 DEF ListingEnds, ListedSoFar, ListingIsAllOrNothing
  <2> QED BY <1>2, <2>1, <2>2, <2>5
<1> QED BY <1>3, <1>4, <1>5

LEMMA WorldKeepsInv == ASSUME ResolverInv, WorldChanges PROVE ResolverInv'
<1> USE DEF ResolverInv, TypeOK, WorldChanges
<1>1. PICK x \in Places : \E o \in Outcomes(x) :
        world' = [y \in Places |-> IF y = x THEN o
                                  ELSE IF o = "invalid" /\ y \in Contents(x)
                                  THEN "invalid" ELSE world[y]]
  OBVIOUS
<1>2. PICK o \in Outcomes(x) :
        world' = [y \in Places |-> IF y = x THEN o
                                  ELSE IF o = "invalid" /\ y \in Contents(x)
                                  THEN "invalid" ELSE world[y]]
  BY <1>1
<1>3. o = "invalid" => \A y \in Contents(x) : "invalid" \in Outcomes(y)
  BY ResolverAssumption DEF Outcomes, Contents, Directories
<1>4. \A y \in Places : Outcomes(y) \subseteq {"ok", "invalid", "other"}
  BY DEF Outcomes
<1>5. /\ world' \in [Places -> {"ok", "invalid", "other"}]
      /\ \A y \in Places : world'[y] \in Outcomes(y)
  BY <1>2, <1>3, <1>4
<1>6. TypeOK'
  BY <1>5 DEF Consistent, Outcomes
<1>7. /\ Startup' /\ Entries' /\ ListedSoFar' /\ AnswersNeverChange'
      /\ MapAgrees' /\ ListingIsAllOrNothing'
  BY DEF Startup, Entries, ListedSoFar, AnswersNeverChange, MapAgrees,
       ListingIsAllOrNothing
<1> QED BY <1>6, <1>7

LEMMA NextKeepsResolverInv == ResolverInv /\ [Next]_vars => ResolverInv'
<1>1. ASSUME ResolverInv, UNCHANGED vars PROVE ResolverInv'
  BY <1>1 DEF vars, ResolverInv, TypeOK, Consistent, Startup, Entries, ListedSoFar,
       Left, Listed, AnswersNeverChange, MapAgrees, ListingIsAllOrNothing
<1> QED BY <1>1, StartupKeepsInv, LookUpKeepsInv, ListingKeepsInv, WorldKeepsInv
        DEF Next, Loop

-----------------------------------------------------------------------------
(* The theorems *)

(* Every variable of EventResolver keeps its type. *)
THEOREM ResolverTypeCorrect == Spec => []TypeOK
<1>1. ResolverInv => TypeOK
  BY DEF ResolverInv
<1> QED BY <1>1, InitResolverInv, NextKeepsResolverInv, PTL DEF Spec

(* A definite answer about a name is given for good, however the system that   *)
(* decides about events changes.                                               *)
THEOREM AnswersStand == Spec => []AnswersNeverChange
<1>1. ResolverInv => AnswersNeverChange
  BY DEF ResolverInv
<1> QED BY <1>1, InitResolverInv, NextKeepsResolverInv, PTL DEF Spec

(* The map holds what the callers were told and, besides, predefined events. *)
THEOREM MapStands == Spec => []MapIsWhatWasTold
<1>1. ResolverInv => MapIsWhatWasTold
  <2> SUFFICES ASSUME ResolverInv PROVE MapIsWhatWasTold
    OBVIOUS
  <2>1. \A n \in Names \ Predefined : event_map[n] = "attr" <=> told[n] = "yes"
    BY DEF ResolverInv, Entries, MapAgrees
  <2>2. GetPredefinedEvents \ Predefined = {n \in Names \ Predefined : told[n] = "yes"}
    BY <2>1 DEF GetPredefinedEvents
  <2> QED BY <2>2 DEF ResolverInv, MapAgrees, MapIsWhatWasTold
<1> QED BY <1>1, InitResolverInv, NextKeepsResolverInv, PTL DEF Spec

(* get_pmu_events is exact in a system that does not change, or throws because   *)
(* of a directory or a file on its way. *)
THEOREM ListingsAreAllOrNothing == Spec => []ListingIsAllOrNothing
<1>1. ResolverInv => ListingIsAllOrNothing
  BY DEF ResolverInv
<1> QED BY <1>1, InitResolverInv, NextKeepsResolverInv, PTL DEF Spec

(* After the constructor no predefined event enters the map any more. *)
THEOREM LatePredefinedAreLost == Spec => PredefinedOnlyAtStartup
<1>1. ASSUME ResolverInv, [Next]_vars, NEW n \in Predefined,
             event_map'[n] = "attr", event_map[n] # "attr"
      PROVE  pc = "startup"
  <2>1. ASSUME NEW m \in Names, LookUp(m) PROVE FALSE
    <3>1. m = n /\ event_map[n] = "absent"
      BY <1>1, <2>1, LookUpCases DEF ResolverInv, TypeOK, Names
    <3>2. Construct(n) = "invalid"
      BY ResolverAssumption DEF Construct
    <3> QED BY <1>1, <2>1, <3>1, <3>2 DEF LookUp, Entry, ResolverInv, TypeOK
  <2>2. StartupStep
    BY <1>1, <2>1 DEF Next, Loop, vars, StartupEnds, ListingBegins, ListingStep,
         ListingEnds, WorldChanges
  <2> QED BY <2>2 DEF StartupStep
<1>2. ResolverInv /\ [Next]_vars =>
        [\A n \in Predefined : event_map'[n] = "attr" /\ event_map[n] # "attr"
           => pc = "startup"]_vars
  BY <1>1
<1> QED BY <1>2, InitResolverInv, NextKeepsResolverInv, PTL
        DEF Spec, PredefinedOnlyAtStartup

-----------------------------------------------------------------------------
(* The refinement of EventLookup *)

LEMMA InitLooksUp == Init => Lookup!LInit
  BY DEF Init, Lookup!LInit, Settled

LEMMA SettledSteps ==
  ASSUME TypeOK, NEW n \in Names, NEW v \in {"null", "attr"},
         event_map' = [event_map EXCEPT ![n] = v]
  PROVE  [m \in Names |-> Settled[event_map'[m]]]
           = [[m \in Names |-> Settled[event_map[m]]] EXCEPT ![n] = Settled[v]]
  BY DEF TypeOK

LEMMA StepLooksUp == ResolverInv /\ [Next]_vars => [Lookup!LNext]_(Lookup!lvars)
<1> SUFFICES ASSUME ResolverInv, [Next]_vars
             PROVE  Lookup!LNext \/ UNCHANGED Lookup!lvars
  OBVIOUS
<1> USE DEF ResolverInv, TypeOK
<1>1. CASE StartupStep
  <2>1. PICK n \in todo :
          event_map' = IF world[n] = "ok" THEN [event_map EXCEPT ![n] = "attr"]
                                          ELSE event_map
    BY <1>1 DEF StartupStep
  <2>2. n \in Names /\ event_map[n] = "absent" /\ last = Lookup!NoReply /\ last' = last
    BY <1>1, <2>1 DEF StartupStep, Startup, Names
  <2>3. CASE world[n] = "ok"
    <3>1. Settled["absent"] = "unknown" /\ Settled["attr"] = "yes"
      BY DEF Settled
    <3>2. [m \in Names |-> Settled[event_map'[m]]]
            = [[m \in Names |-> Settled[event_map[m]]] EXCEPT ![n] = "yes"]
      BY <2>1, <2>2, <2>3, <3>1, SettledSteps
    <3>3. Lookup!Preset(n, "yes")
      BY <2>2, <3>1, <3>2 DEF Lookup!Preset
    <3> QED BY <2>2, <3>3 DEF Lookup!LNext
  <2>4. CASE world[n] # "ok"
    BY <2>1, <2>2, <2>4 DEF Lookup!lvars
  <2> QED BY <2>3, <2>4
<1>2. ASSUME NEW n \in Names, LookUp(n) PROVE Lookup!LNext
  <2>1. PICK a \in {"yes", "no", "error"} :
          /\ last' = [name |-> n, answer |-> a]
          /\ a = "yes" => /\ event_map[n] \in {"absent", "attr"}
                          /\ event_map' = [event_map EXCEPT ![n] = "attr"]
          /\ a = "no" => /\ event_map[n] \in {"absent", "null"}
                         /\ event_map' = [event_map EXCEPT ![n] = "null"]
          /\ a = "error" => event_map[n] = "absent" /\ event_map' = event_map
    BY <1>2, LookUpCases
  <2>2. CASE a = "error"
    BY <2>1, <2>2 DEF Lookup!LNext, Lookup!Fail, Settled
  <2>3. CASE a = "yes"
    <3>1. Settled["absent"] = "unknown" /\ Settled["attr"] = "yes"
      BY DEF Settled
    <3>2. [m \in Names |-> Settled[event_map'[m]]]
            = [[m \in Names |-> Settled[event_map[m]]] EXCEPT ![n] = "yes"]
      BY <2>1, <2>3, <3>1, SettledSteps
    <3>3. Lookup!Ask(n, "yes")
      BY <2>1, <2>3, <3>1, <3>2 DEF Lookup!Ask
    <3> QED BY <3>3 DEF Lookup!LNext
  <2>4. CASE a = "no"
    <3>1. Settled["absent"] = "unknown" /\ Settled["null"] = "no"
      BY DEF Settled
    <3>2. [m \in Names |-> Settled[event_map'[m]]]
            = [[m \in Names |-> Settled[event_map[m]]] EXCEPT ![n] = "no"]
      BY <2>1, <2>4, <3>1, SettledSteps
    <3>3. Lookup!Ask(n, "no")
      BY <2>1, <2>4, <3>1, <3>2 DEF Lookup!Ask
    <3> QED BY <3>3 DEF Lookup!LNext
  <2> QED BY <2>2, <2>3, <2>4
<1>3. CASE \/ StartupEnds \/ ListingBegins \/ ListingStep \/ ListingEnds
           \/ WorldChanges \/ UNCHANGED vars
  <2>1. UNCHANGED <<event_map, last>>
    BY <1>3 DEF StartupEnds, ListingBegins, ListingStep, ListingEnds, WorldChanges, vars
  <2> QED BY <2>1 DEF Lookup!lvars
<1> QED BY <1>1, <1>2, <1>3 DEF Next, Loop

(* EventResolver implements EventLookup: to its callers the map, with its       *)
(* cached failures, is a memory of the first definite answer about each name.  *)
THEOREM ResolverImplementsLookup == Spec => ImplementsLookup
<1> QED BY InitResolverInv, NextKeepsResolverInv, InitLooksUp, StepLooksUp, PTL
        DEF Spec, ImplementsLookup, Lookup!LSpec
-----------------------------------------------------------------------------
(* Every loop ends: what can be said of LoopsEnd without fairness *)

\* The turns of the running loop that are left, at most, and its end.
TurnsLeft == IF pc = "ready" THEN 0 ELSE 1 + Cardinality(Left)

(* The constructor and get_pmu_events visit what there is once: every turn        *)
(* brings the loop nearer to its end, no change of the system puts the end off,    *)
(* and no look-up comes in between (constructor, get_pmu_events).                     *)
LoopIsBounded ==
  /\ [](TurnsLeft \in Nat /\ (TurnsLeft = 0 <=> pc = "ready"))
  /\ [][pc # "ready" => /\ TurnsLeft' <= TurnsLeft
                        /\ Loop => TurnsLeft' < TurnsLeft
                        /\ UNCHANGED <<last, told>>]_vars

Visited == Predefined \cup Directories \cup Files

LEMMA CountsVisits ==
  ASSUME NEW S \in SUBSET Visited
  PROVE  /\ Cardinality(S) \in Nat
         /\ \A T \in SUBSET S : T # S => Cardinality(T) < Cardinality(S)
<1>1. IsFiniteSet({Devices})
  BY FS_Singleton
<1>2. IsFiniteSet({Devices} \cup Pmus)
  BY <1>1, ResolverAssumption, FS_Union
<1>3. IsFiniteSet(Predefined \cup ({Devices} \cup Pmus))
  BY <1>2, ResolverAssumption, FS_Union
<1>4. IsFiniteSet((Predefined \cup ({Devices} \cup Pmus)) \cup Files)
  BY <1>3, ResolverAssumption, FS_Union
<1>5. IsFiniteSet(Visited)
  BY <1>4 DEF Visited, Directories
<1>6. IsFiniteSet(S)
  BY <1>5, FS_Subset
<1>7. Cardinality(S) \in Nat
  BY <1>6, FS_CardinalityType
<1>8. ASSUME NEW T \in SUBSET S, T # S PROVE Cardinality(T) < Cardinality(S)
  <2>1. PICK x \in S : x \notin T
    BY <1>8
  <2>2. Cardinality(S \ {x}) = Cardinality(S) - 1 /\ IsFiniteSet(S \ {x})
    BY <1>6, FS_RemoveElement, Zenon
  <2>3. T \subseteq S \ {x}
    BY <2>1
  <2>4. IsFiniteSet(T) /\ Cardinality(T) <= Cardinality(S \ {x})
    BY <2>2, <2>3, FS_Subset
  <2>5. Cardinality(T) \in Nat
    BY <2>4, FS_CardinalityType
  <2> QED BY <1>7, <2>2, <2>4, <2>5
<1> QED BY <1>7, <1>8

LEMMA LeftType == ASSUME ResolverInv PROVE Left \subseteq Visited
  BY DEF ResolverInv, TypeOK, Left, Visited, Directories

LEMMA TurnsCount ==
  ASSUME ResolverInv, [Next]_vars, pc # "ready"
  PROVE  /\ TurnsLeft' <= TurnsLeft
         /\ Loop => TurnsLeft' < TurnsLeft
         /\ UNCHANGED <<last, told>>
<1> USE DEF TurnsLeft
<1>1. Cardinality(Left) \in Nat /\ Left \in SUBSET Visited
  BY LeftType, CountsVisits
<1>2. ASSUME NEW x \in Left, Left' \subseteq Left \ {x}, pc' = pc
      PROVE  TurnsLeft' \in Int /\ TurnsLeft' < TurnsLeft
  <2>1. Left' \in SUBSET Left /\ Left' # Left /\ Left' \in SUBSET Visited
    BY <1>1, <1>2
  <2>2. Cardinality(Left') \in Nat /\ Cardinality(Left') < Cardinality(Left)
    BY <1>1, <2>1, CountsVisits
  <2> QED BY <1>1, <1>2, <2>2
<1>3. ASSUME StartupStep PROVE TurnsLeft' \in Int /\ TurnsLeft' < TurnsLeft
  <2>1. PICK n \in todo : todo' = todo \ {n} /\ pc' = pc
    BY <1>3 DEF StartupStep
  <2>2. todo \subseteq Predefined
    BY <1>3 DEF StartupStep, ResolverInv, Startup
  <2>3. Left = todo /\ Left' = todo'
    BY <2>1, <2>2, ResolverAssumption DEF Left, Directories
  <2> QED BY <1>2, <2>1, <2>3
<1>4. ASSUME ListingStep PROVE TurnsLeft' \in Int /\ TurnsLeft' < TurnsLeft
  <2>1. PICK x \in Turn : (world[x] = "other" /\ pc' = "ready") \/ (world[x] # "other" /\ Visit(x))
    BY <1>4 DEF ListingStep
  <2>2. CASE pc' = "ready"
    BY <1>1, <2>2
  <2>3. CASE world[x] # "other" /\ Visit(x)
    <3>1. pc = "listing" /\ pc' = pc
      BY <1>4, <2>3 DEF ListingStep, Visit
    <3> QED BY <1>2, <2>3, <3>1, VisitShrinks
  <2> QED BY <2>1, <2>2, <2>3
<1>5. ASSUME StartupEnds \/ ListingEnds PROVE TurnsLeft' \in Int /\ TurnsLeft' < TurnsLeft
  BY <1>1, <1>5 DEF StartupEnds, ListingEnds
<1>6. ASSUME WorldChanges \/ UNCHANGED vars PROVE TurnsLeft' = TurnsLeft
  BY <1>6 DEF WorldChanges, vars, Left
<1>7. Loop \/ WorldChanges \/ UNCHANGED vars
  BY DEF Next, LookUp, ListingBegins
<1>8. UNCHANGED <<last, told>>
  BY <1>7 DEF Loop, StartupStep, StartupEnds, ListingStep, ListingEnds, WorldChanges, vars
<1> QED BY <1>1, <1>3, <1>4, <1>5, <1>6, <1>7, <1>8 DEF Loop

(* Each loop of the resolver has a bound on its turns. *)
THEOREM LoopsAreBounded == Spec => LoopIsBounded
<1>1. ResolverInv => TurnsLeft \in Nat /\ (TurnsLeft = 0 <=> pc = "ready")
  BY LeftType, CountsVisits DEF TurnsLeft
<1>2. ResolverInv /\ [Next]_vars =>
        [pc # "ready" => /\ TurnsLeft' <= TurnsLeft
                         /\ Loop => TurnsLeft' < TurnsLeft
                         /\ UNCHANGED <<last, told>>]_vars
  BY TurnsCount
<1> QED BY <1>1, <1>2, InitResolverInv, NextKeepsResolverInv, PTL DEF Spec, LoopIsBounded
=============================================================================
