---------------------------- MODULE EventResolver ----------------------------
(***************************************************************************)
(* The singleton that resolves event names.  Its constructor fills the map    *)
(* with the predefined events that probe as available; a name that is not in   *)
(* the map is constructed as a raw or a sysfs event, and the outcome is kept   *)
(* for good, a failure as an empty optional.  What a construction comes to     *)
(* depends on a system that changes under the library (EventProbe, SysfsEvent) *)
(* and is a variable here.  The code takes no lock: one thread at a time.      *)
(***************************************************************************)
EXTENDS Naturals, FiniteSets

CONSTANTS Predefined,   \* names in predef_events and in the cache tables
          Raw,          \* names that match raw_regex
          Sysfs,        \* other names
          Devices,      \* the directory /sys/bus/event_source/devices
          Pmus,         \* the directories <pmu>/events in it
          Files,        \* the event files in those
          PmuOf,        \* PmuOf[f] : the directory the file f is in
          NoFile,
          FileOf        \* FileOf[n] : the file a sysfs name denotes, or NoFile

Names       == Predefined \cup Raw \cup Sysfs
Directories == {Devices} \cup Pmus

ASSUME ResolverAssumption ==
  /\ Predefined \cap (Raw \cup Sysfs) = {} /\ Raw \cap Sysfs = {}
  /\ Files \cap (Predefined \cup Raw) = {} /\ NoFile \notin Files
  /\ Directories \cap (Predefined \cup Raw \cup Files) = {} /\ Devices \notin Pmus
  /\ IsFiniteSet(Predefined) /\ IsFiniteSet(Files) /\ IsFiniteSet(Pmus)
  /\ PmuOf \in [Files -> Pmus]
  /\ FileOf \in [Sysfs -> Files \cup {NoFile}]

VARIABLES
  world,       \* world[x] : what constructing the event x, or reading the
               \*   directory x, comes to now
  pc,          \* "startup", "ready" or "listing"
  todo,        \* names, directories or files the running loops have yet to visit
  event_map,   \* event_map_[n] : "absent", "null" or "attr"
  last,        \* the last answer given about a name
  events,      \* the local of get_pmu_events, then what it returned
  listing,     \* how the last get_pmu_events went: "none", "ok" or "threw"
  calm,        \* history: the world has not changed since the listing began
  told         \* history: the first definite answer about each name

vars == <<world, pc, todo, event_map, last, events, listing, calm, told>>

Constructible == Predefined \cup Raw \cup Files
Places        == Constructible \cup Directories

\* stol, stoi and the directory iterators throw what is not an InvalidEvent.
\* An <pmu>/events that is no directory is "invalid"; nobody asks that of
\* Devices.
Outcomes(x) ==
  IF x \in Files \cup Pmus THEN {"ok", "invalid", "other"}
  ELSE IF x = Devices THEN {"ok", "other"}
  ELSE {"ok", "invalid"}

\* What a directory has in it.
Contents(x) == IF x = Devices THEN Pmus ELSE {f \in Files : PmuOf[f] = x}

\* No file without its directory.
Consistent(w) == \A f \in Files : w[PmuOf[f]] = "invalid" => w[f] = "invalid"

Worlds == {w \in [Places -> {"ok", "invalid", "other"}] :
             Consistent(w) /\ \A x \in Places : w[x] \in Outcomes(x)}

\* What an entry of the map means to a caller.
Settled == [absent |-> "unknown", null |-> "no", attr |-> "yes"]

Lookup == INSTANCE EventLookup
            WITH known <- [n \in Names |-> Settled[event_map[n]]],
                 reply <- last

TypeOK ==
  /\ world \in [Places -> {"ok", "invalid", "other"}]
  /\ \A x \in Places : world[x] \in Outcomes(x)
  /\ Consistent(world)
  /\ pc \in {"startup", "ready", "listing"}
  /\ todo \subseteq Predefined \cup Directories \cup Files
  /\ event_map \in [Names -> {"absent", "null", "attr"}]
  /\ last \in Lookup!Replies \cup {Lookup!NoReply}
  /\ events \subseteq Files
  /\ listing \in {"none", "ok", "threw"}
  /\ calm \in BOOLEAN
  /\ told \in [Names -> {"none", "yes", "no"}]

Init ==
  /\ world \in Worlds
  /\ pc = "startup" /\ todo = Predefined
  /\ event_map = [n \in Names |-> "absent"]
  /\ last = Lookup!NoReply
  /\ events = {} /\ listing = "none" /\ calm = FALSE
  /\ told = [n \in Names |-> "none"]

-----------------------------------------------------------------------------
(* The constructor *)

\* One predefined event: InvalidEvent is swallowed and leaves no entry.
StartupStep ==
  /\ pc = "startup"
  /\ \E n \in todo :
       /\ todo' = todo \ {n}
       /\ event_map' = IF world[n] = "ok" THEN [event_map EXCEPT ![n] = "attr"]
                                          ELSE event_map
  /\ UNCHANGED <<world, pc, last, events, listing, calm, told>>

StartupEnds ==
  /\ pc = "startup" /\ todo = {}
  /\ pc' = "ready"
  /\ UNCHANGED <<world, todo, event_map, last, events, listing, calm, told>>

-----------------------------------------------------------------------------
(* Looking a name up *)

\* Mutant: a predefined name is probed again.
ConstructAlsoPredefined(n) ==
  IF n \in Predefined \cup Raw THEN world[n]
  ELSE IF FileOf[n] = NoFile THEN "invalid"
  ELSE world[FileOf[n]]

\* What cache_event constructs for a name the map does not have.  A predefined
\* name is not of the form <pmu>/<event> and so is no sysfs event.
Construct(n) ==
  IF n \in Raw THEN world[n]
  ELSE IF n \in Predefined \/ FileOf[n] = NoFile THEN "invalid"
  ELSE world[FileOf[n]]

\* Mutant: failures are not cached.
EntryForgetsFailure == [ok |-> "attr", invalid |-> "absent", other |-> "absent"]

\* Mutant: any other exception is cached, too.
EntryKeepsOutcome == [ok |-> "attr", invalid |-> "null", other |-> "other"]

\* What cache_event enters for each outcome: a failure is an empty optional,
\* and an exception that is no InvalidEvent leaves no entry.
Entry == [ok |-> "attr", invalid |-> "null", other |-> "absent"]

\* What the caller gets: the event or true, InvalidEvent or false, or the
\* exception that is no InvalidEvent.
Reply == [attr |-> "yes", ok |-> "yes", null |-> "no", invalid |-> "no", other |-> "error"]

\* get_event_by_name and has_event: from the map, or else by cache_event.
LookUp(n) ==
  LET found  == event_map[n] # "absent"
      answer == Reply[IF found THEN event_map[n] ELSE Construct(n)]
  IN  /\ pc = "ready"
      /\ event_map' = IF found THEN event_map
                      ELSE [event_map EXCEPT ![n] = Entry[Construct(n)]]
      /\ last' = [name |-> n, answer |-> answer]
      /\ told' = IF told[n] = "none" /\ answer # "error"
                 THEN [told EXCEPT ![n] = answer] ELSE told
      /\ UNCHANGED <<world, pc, todo, events, listing, calm>>

\* get_predefined_events: whatever the map has by now.
GetPredefinedEvents == {n \in Names : event_map[n] = "attr"}

-----------------------------------------------------------------------------
(* get_pmu_events *)

ListingBegins ==
  /\ pc = "ready"
  /\ pc' = "listing" /\ todo' = {Devices}
  /\ events' = {} /\ calm' = TRUE
  /\ UNCHANGED <<world, event_map, last, listing, told>>

\* What the loops visit next: the files of a PMU come before the next PMU.
Turn == {x \in todo : x \in Pmus => todo \cap Files = {}}

\* A turn on x that does not throw: a directory is entered, an event is kept
\* if it can be constructed, and if not, its InvalidEvent is swallowed.
Visit(x) ==
  /\ todo' = (todo \ {x}) \cup (IF world[x] = "ok" THEN Contents(x) ELSE {})
  /\ events' = IF x \in Files /\ world[x] = "ok" THEN events \cup {x} ELSE events
  /\ UNCHANGED <<pc, listing>>

\* Mutant: any exception is swallowed.
ListingSwallowsAll ==
  /\ pc = "listing"
  /\ \E x \in Turn : Visit(x)
  /\ UNCHANGED <<world, event_map, last, calm, told>>

\* Mutant: what fails is visited again.
ListingRetries ==
  /\ pc = "listing"
  /\ \E x \in Turn : IF world[x] = "ok" THEN Visit(x)
                      ELSE UNCHANGED <<todo, events, pc, listing>>
  /\ UNCHANGED <<world, event_map, last, calm, told>>

\* One turn of the outer or of the inner loop.  What is no InvalidEvent, be it
\* of a directory or of a file, ends the call and with it the vector collected
\* so far.  is_directory and the iterator behind it are one step: a directory
\* that goes away between them is "other" for that moment.
ListingStep ==
  /\ pc = "listing"
  /\ \E x \in Turn :
       IF world[x] = "other"
       THEN pc' = "ready" /\ listing' = "threw" /\ todo' = {} /\ events' = {}
       ELSE Visit(x)
  /\ UNCHANGED <<world, event_map, last, calm, told>>

ListingEnds ==
  /\ pc = "listing" /\ todo = {}
  /\ pc' = "ready" /\ listing' = "ok"
  /\ UNCHANGED <<world, todo, event_map, last, events, calm, told>>

-----------------------------------------------------------------------------
\* Permissions, PMU drivers and CPUs come and go; the files go with their
\* directory.
WorldChanges ==
  /\ \E x \in Places : \E o \in Outcomes(x) \ {world[x]} :
       world' = [y \in Places |-> IF y = x THEN o
                                 ELSE IF o = "invalid" /\ y \in Contents(x)
                                 THEN "invalid" ELSE world[y]]
  /\ Consistent(world')
  /\ calm' = FALSE
  /\ UNCHANGED <<pc, todo, event_map, last, events, listing, told>>

Loop == StartupStep \/ StartupEnds \/ ListingStep \/ ListingEnds

Next == Loop \/ (\E n \in Names : LookUp(n)) \/ ListingBegins \/ WorldChanges

Spec == Init /\ [][Next]_vars

\* The calling thread runs the loops it has entered.
FairSpec == Spec /\ WF_vars(Loop)

-----------------------------------------------------------------------------
(* Properties *)

(* Whatever happens to the system, a definite answer about a name is the one   *)
(* given the first time, by get_event_by_name and has_event alike: failures    *)
(* are cached as firmly as events.                                            *)
AnswersNeverChange ==
  last # Lookup!NoReply /\ last.answer # "error" => last.answer = told[last.name]

(* The map has what the callers were told, and besides it only predefined      *)
(* events: no call leaves an entry behind that it did not answer from.  So     *)
(* get_predefined_events returns, beyond predefined events, exactly those that   *)
(* some caller has found before.                                              *)
MapIsWhatWasTold ==
  /\ \A n \in Names :
       /\ told[n] = "yes" => event_map[n] = "attr"
       /\ told[n] = "no"  => event_map[n] = "null"
       /\ told[n] = "none" /\ n \notin Predefined => event_map[n] = "absent"
  /\ GetPredefinedEvents \ Predefined = {n \in Names \ Predefined : told[n] = "yes"}

(* A predefined event the constructor could not open is lost for the program:  *)
(* no later look-up finds it, the system's recovery notwithstanding.           *)
PredefinedOnlyAtStartup ==
  [][\A n \in Predefined : event_map'[n] = "attr" /\ event_map[n] # "attr"
       => pc = "startup"]_vars

\* What get_pmu_events comes across as the system is now.
Listed == {Devices} \cup
  (IF world[Devices] = "ok" THEN Pmus \cup {f \in Files : world[PmuOf[f]] = "ok"} ELSE {})

(* In a system that does not change meanwhile, get_pmu_events returns just the *)
(* events that can be opened, or throws because a directory or a file on its   *)
(* way throws what is no InvalidEvent; it never returns a part of the events.  *)
ListingIsAllOrNothing ==
  pc = "ready" /\ calm =>
    IF listing = "threw" THEN \E x \in Listed : world[x] = "other"
    ELSE /\ events = {f \in Listed \cap Files : world[f] = "ok"}
         /\ \A x \in Listed : world[x] # "other"

(* The constructor and get_pmu_events come to an end. *)
LoopsEnd == pc # "ready" ~> pc = "ready"

(* Callers see EventLookup. *)
ImplementsLookup == Lookup!LSpec

-----------------------------------------------------------------------------
(* What the comments say *)

(* The comment on get_event_by_name: it returns the event, or throws           *)
(* InvalidEvent if the event is unavailable.                                   *)
ThrowsOnlyInvalidEvent == last.answer # "error"
=============================================================================
