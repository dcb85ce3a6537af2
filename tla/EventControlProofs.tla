-------------------------- MODULE EventControlProofs --------------------------
(***************************************************************************)
(* Theorems about EventControl, for any numbers of guards, descriptors,       *)
(* events, EventAttrs and flags.  Every step of it is one of EventGuard or     *)
(* leaves the descriptors alone, so that GuardInv holds and only the rest of   *)
(* the state needs an argument: CInv.                                         *)
(***************************************************************************)
EXTENDS EventControl, EventGuardProofs, FiniteSetTheorems

IsOpen(e) == leader[e] # NoEvent

\* An event is in a group while it is behind a descriptor, the leader of a group
\* is in it, and a fresh event has no history.
GroupInv ==
  /\ \A e \in Events : IsOpen(e) <=> \E f \in Fds : file[f] = e
  /\ \A e \in Events : IsOpen(e) =>
       e \in used /\ leader[e] \in used /\ leader[leader[e]] = leader[e]
  /\ \A e \in Events \ used : caller[e] = NoEvent

\* Only open events are enabled, wait for an exec or are known by their format.
OthersAreSilent ==
  /\ \A e \in on \cup armed \cup plain \cup headed : IsOpen(e)
  /\ woken \subseteq used

\* An event stays under the leader it was opened under, until it is its own.
JoinedTheirLeaders ==
  \A e \in Events : IsOpen(e) => joined[e] \in Events /\ leader[e] \in {joined[e], e}

LeadersAreFormatted ==
  \A e \in headed : "FORMAT_GROUP" \in made[e] /\ caller[e] = NoEvent

\* Who is never given the format of a group does not have it.
PlainAreNotFormatted ==
  /\ \A a \in Attrs \ grouped : "FORMAT_GROUP" \notin attr[a]
  /\ \A e \in plain : "FORMAT_GROUP" \notin made[e]

ArmedAskedForIt == \A e \in armed : "enable_on_exec" \in made[e]

CInv ==
  /\ CTypeOK
  /\ GuardInv
  /\ GroupInv
  /\ OthersAreSilent
  /\ JoinedTheirLeaders
  /\ LeadersAreFormatted
  /\ PlainAreNotFormatted
  /\ ArmedAskedForIt
  /\ WakingIsWithinGroup

-----------------------------------------------------------------------------
LEMMA InitCInv == CInit => CInv
<1> SUFFICES ASSUME CInit PROVE CInv
  OBVIOUS
<1> USE DEF CInit
<1>1. CTypeOK
  BY InitGuardInv DEF CTypeOK, GuardInv
<1>2. GroupInv
  BY GuardAssumption DEF GroupInv, IsOpen, Init
<1>3. /\ OthersAreSilent /\ JoinedTheirLeaders /\ LeadersAreFormatted
      /\ PlainAreNotFormatted /\ ArmedAskedForIt /\ WakingIsWithinGroup
  BY DEF OthersAreSilent, JoinedTheirLeaders, LeadersAreFormatted, PlainAreNotFormatted,
     ArmedAskedForIt, WakingIsWithinGroup, IsOpen, Init
<1> QED BY <1>1, <1>2, <1>3, InitGuardInv DEF CInv

-----------------------------------------------------------------------------
(* The steps of EventGuard *)

LEMMA StepsAreGuards == [CNext]_cvars => [Next]_vars
<1> SUFFICES ASSUME [CNext]_cvars PROVE [Next]_vars
  OBVIOUS
<1>1. ASSUME NEW g \in Guards, NEW a \in Attrs, OpenPlain(g, a) \/ OpenAsGroupLeader(g, a)
      PROVE  Next
  BY <1>1 DEF OpenPlain, OpenAsGroupLeader, Next
<1>2. ASSUME NEW g \in Guards, NEW h \in Guards, NEW a \in Attrs, OpenAsChild(h, g, a)
      PROVE  Next
  BY <1>2 DEF OpenAsChild, Next
<1>3. ASSUME NEW g \in Guards, NEW h \in Guards, Move(g, h) PROVE Next
  BY <1>3 DEF Move, Next
<1>4. ASSUME NEW g \in Guards, Close(g) PROVE Next
  BY <1>4 DEF Close, Next
<1>5. ASSUME NEW g \in Guards,
             \/ Enable(g) \/ Disable(g) \/ ControlFails(g)
             \/ \E h \in Guards : SetOutput(g, h)
             \/ \E calls \in SUBSET Syscalls : SetSyscallFilter(g, calls)
      PROVE  UNCHANGED vars
  BY <1>5 DEF Enable, Disable, ControlFails, SetOutput, SetSyscallFilter, cvars
<1>6. ASSUME NEW a \in Attrs,
             \/ \E x \in Setters : SetFlag(a, x)
             \/ \E format \in Formats : SetReadFormat(a, format)
      PROVE  UNCHANGED vars
  BY <1>6 DEF SetFlag, SetReadFormat
<1>7. CASE Exec \/ UNCHANGED cvars
  BY <1>7 DEF Exec, cvars
<1> QED BY <1>1, <1>2, <1>3, <1>4, <1>5, <1>6, <1>7 DEF CNext

\* What becomes of the groups in a step of EventGuard.  Nothing; an event appears
\* in a group of its own or under a leader; or an event goes, and those it led
\* become their own leaders.
Appears(e) ==
  /\ e \in Events \ used /\ used' = used \cup {e}
  /\ \E l \in used \cup {e} :
       /\ l = e \/ leader[l] = l
       /\ leader' = [leader EXCEPT ![e] = l]
  /\ \E f \in Fds : file[f] = NoEvent /\ file' = [file EXCEPT ![f] = e]
  /\ \A d \in Events \ {e} : caller'[d] = caller[d]

Goes(e) ==
  /\ e \in used /\ UNCHANGED <<used, caller>>
  /\ leader' = [d \in Events |-> IF d = e THEN NoEvent
                                 ELSE IF leader[d] = e THEN d ELSE leader[d]]
  /\ \E f \in OpenFiles \ lost : file[f] = e /\ file' = [file EXCEPT ![f] = NoEvent]

LEMMA ConstructAppears ==
  ASSUME GuardInv, GroupInv, NEW g \in Guards, NEW gfd \in Fds \cup {NoFd}, NEW via,
         Construct(g, gfd, via)
  PROVE  \/ UNCHANGED vars
         \/ \E e \in Events : Appears(e) /\ (via = NoEvent => caller'[e] = NoEvent)
<1> USE DEF GuardInv, TypeOK, GroupInv
<1>1. CASE ConstructRefused(g, gfd)
  BY <1>1 DEF ConstructRefused
<1>2. CASE \E f \in Fds, e \in Events :
             /\ CreateEvent(f, e, gfd)
             /\ \/ caller' = caller
                \/ caller' = [caller EXCEPT ![e] = via]
  <2>1. PICK f \in Fds, e \in Events :
          /\ CreateEvent(f, e, gfd)
          /\ caller' = caller \/ caller' = [caller EXCEPT ![e] = via]
    BY <1>2
  <2>2. Created(f, e, gfd)
    BY <2>1, CreateFacts
  <2>3. gfd # NoFd => file[gfd] \in used /\ leader[file[gfd]] = file[gfd]
    BY <2>1, <2>2 DEF CreateEvent, GroupAccepted, FilesAreEvents
  <2>4. \E l \in used \cup {e} :
          (l = e \/ leader[l] = l) /\ leader' = [leader EXCEPT ![e] = l]
    BY <2>2, <2>3 DEF Created
  <2>5. Appears(e)
    <3>1. \A d \in Events \ {e} : caller'[d] = caller[d]
      BY <2>1
    <3>2. \E x \in Fds : file[x] = NoEvent /\ file' = [file EXCEPT ![x] = e]
      BY <2>2 DEF Created
    <3> QED BY <2>2, <2>4, <3>1, <3>2 DEF Created, Appears
  <2>6. via = NoEvent => caller'[e] = NoEvent
    BY <2>1, <2>2 DEF Created
  <2> QED BY <2>5, <2>6
<1> QED BY <1>1, <1>2 DEF Construct, ConstructStrands, ConstructSucceeds

LEMMA DestroyGoes ==
  ASSUME GuardInv, NEW g \in Guards, Destroy(g)
  PROVE  IF Holds(g) = NoEvent THEN UNCHANGED <<file, used, leader, caller, lost>>
         ELSE Goes(Holds(g)) /\ lost' = lost
<1> USE DEF GuardInv, TypeOK
<1>1. CASE Holds(g) = NoEvent
  BY <1>1, CallerFacts DEF Destroy
<1>2. CASE Holds(g) # NoEvent
  <2>1. fd[g] # NoFd /\ fd[g] \in OpenFiles /\ g \in live /\ Holds(g) \in used
    BY <1>2, CallerFacts
  <2>2. fd[g] \notin lost
    BY <2>1 DEF DescriptorsAccountedFor, Owned
  <2> QED BY <1>2, <2>1, <2>2 DEF Destroy, CloseFile, Goes, Holds
<1> QED BY <1>1, <1>2

LEMMA GroupInvKept ==
  ASSUME GuardInv, GroupInv,
         \/ UNCHANGED <<file, used, leader, caller>>
         \/ \E e \in Events : Appears(e) \/ Goes(e)
  PROVE  GroupInv'
<1> USE DEF GuardInv, TypeOK
<1>1. CASE UNCHANGED <<file, used, leader, caller>>
  BY <1>1 DEF GroupInv, IsOpen
<1>2. ASSUME NEW e \in Events, Appears(e) PROVE GroupInv'
  BY <1>2, GuardAssumption DEF GroupInv, IsOpen, Appears
<1>3. ASSUME NEW e \in Events, Goes(e) PROVE GroupInv'
  BY <1>3, GuardAssumption DEF GroupInv, IsOpen, Goes, FilesAreEvents, OpenFiles
<1> QED BY <1>1, <1>2, <1>3

-----------------------------------------------------------------------------
(* The steps of EventControl *)

\* An event that appears has the flags of its EventAttr, and is on unless one of
\* them says otherwise; nothing else changes but the EventAttr.
LEMMA AdoptKeepsInv ==
  ASSUME CInv, GuardInv', NEW a \in Attrs, NEW flags \in SUBSET Flags,
         NEW heads \in BOOLEAN, Adopt(a, flags, heads),
         attr' \in [Attrs -> SUBSET Flags], grouped' \subseteq Attrs,
         \A b \in Attrs \ grouped' : "FORMAT_GROUP" \notin attr'[b],
         a \notin grouped' => "FORMAT_GROUP" \notin flags,
         heads => "FORMAT_GROUP" \in flags,
         \/ UNCHANGED vars
         \/ \E e \in Events : Appears(e) /\ (heads => caller'[e] = NoEvent)
  PROVE  CInv'
<1> USE DEF CInv, CTypeOK, Records
<1>1. GroupInv'
  BY GroupInvKept DEF vars
<1>2. CASE UNCHANGED vars
  <2>1. UNCHANGED control
    BY <1>2 DEF Adopt, vars, control
  <2>2. PlainAreNotFormatted'
    BY <2>1 DEF PlainAreNotFormatted, control
  <2>3. CTypeOK'
    BY <2>1 DEF GuardInv, control
  <2> QED BY <1>1, <1>2, <2>1, <2>2, <2>3
       DEF OthersAreSilent, JoinedTheirLeaders, LeadersAreFormatted, ArmedAskedForIt,
           WakingIsWithinGroup, Mates, IsOpen, vars, control
<1>3. ASSUME NEW e \in Events, Appears(e), heads => caller'[e] = NoEvent
      PROVE  CInv'
  <2>1. /\ used' \ used = {e} /\ e \notin used
        /\ \A d \in used : IsOpen(d)' <=> IsOpen(d)
        /\ \A d \in used : leader'[d] = leader[d] /\ caller'[d] = caller[d]
        /\ leader'[e] \in used \cup {e}
    BY <1>3 DEF Appears, IsOpen, GuardInv, TypeOK
  <2>2. /\ made' = [d \in Events |-> IF d = e THEN flags ELSE made[d]]
        /\ joined' = [d \in Events |-> IF d = e THEN leader'[d] ELSE joined[d]]
        /\ on' \subseteq on \cup {e} /\ ("disabled" \in flags => on' = on)
        /\ armed \subseteq armed' /\ armed' \subseteq armed \cup {e}
        /\ e \in armed' \ armed => "enable_on_exec" \in flags
        /\ plain' \subseteq plain \cup {e} /\ (a \in grouped' => plain' = plain)
        /\ headed' \subseteq headed \cup {e} /\ (~heads => headed' = headed)
        /\ UNCHANGED <<output, filter, woken>>
    BY <2>1 DEF Adopt
  <2>3. on \subseteq used /\ armed \subseteq used /\ plain \subseteq used /\ headed \subseteq used
    BY DEF OthersAreSilent, GroupInv
  <2>4. CTypeOK'
    BY <2>1, <2>2 DEF GuardInv, TypeOK
  <2>5. OthersAreSilent'
    <3>1. IsOpen(e)'
      BY <2>1, GuardAssumption DEF IsOpen, GuardInv, TypeOK
    <3>2. used \subseteq used'
      BY <1>3 DEF Appears
    <3> QED BY <2>1, <2>2, <2>3, <3>1, <3>2 DEF OthersAreSilent
  <2>6. \A d \in Events \ {e} : IsOpen(d)' => d \in used /\ IsOpen(d)
    BY <1>1, <1>3, <2>1 DEF GroupInv, Appears
  <2>7. JoinedTheirLeaders'
    BY <2>1, <2>2, <2>6 DEF JoinedTheirLeaders, GuardInv, TypeOK
  <2>8. LeadersAreFormatted'
    BY <1>3, <2>1, <2>2, <2>3 DEF LeadersAreFormatted
  <2>9. PlainAreNotFormatted' /\ ArmedAskedForIt'
    BY <2>1, <2>2, <2>3 DEF PlainAreNotFormatted, ArmedAskedForIt
  <2>10. WakingIsWithinGroup'
    <3> SUFFICES ASSUME NEW d \in on', "disabled" \in made'[d],
                        ~("enable_on_exec" \in made'[d] /\ d \notin armed')
                 PROVE  \E x \in woken' : Mates(x, d)'
      BY DEF WakingIsWithinGroup
    <3>1. d \in on /\ d # e /\ "disabled" \in made[d]
      BY <2>1, <2>2, <2>3
    <3>2. PICK x \in woken : Mates(x, d)
      BY <2>2, <3>1 DEF WakingIsWithinGroup
    <3>3. x \in used /\ x # e
      BY <2>1 DEF OthersAreSilent
    <3> QED BY <2>2, <3>1, <3>2, <3>3 DEF Mates, GuardInv, TypeOK
  <2> QED BY <1>1, <2>4, <2>5, <2>7, <2>8, <2>9, <2>10
<1> QED BY <1>2, <1>3

LEMMA OpensKeepInv ==
  ASSUME CInv, GuardInv', NEW g \in Guards, NEW a \in Attrs,
         \/ OpenPlain(g, a) \/ OpenAsGroupLeader(g, a)
         \/ \E h \in Guards : OpenAsChild(h, g, a)
  PROVE  CInv'
<1> USE DEF CInv, CTypeOK
<1>1. attr[a] \in SUBSET Flags
  OBVIOUS
<1>2. CASE OpenPlain(g, a) \/ \E h \in Guards : OpenAsChild(h, g, a)
  <2>1. UNCHANGED <<attr, grouped>> /\ Adopt(a, attr[a], FALSE)
    BY <1>2 DEF OpenPlain, OpenAsChild
  <2>2. \/ UNCHANGED vars
        \/ \E e \in Events : Appears(e) /\ (FALSE => caller'[e] = NoEvent)
    BY <1>2, ConstructAppears, CallerFacts
       DEF OpenPlain, OpenAsChild, Open, OpenChild
  <2>3. /\ \A b \in Attrs \ grouped' : "FORMAT_GROUP" \notin attr'[b]
        /\ a \notin grouped' => "FORMAT_GROUP" \notin attr[a]
        /\ attr' \in [Attrs -> SUBSET Flags] /\ grouped' \subseteq Attrs
    BY <2>1 DEF PlainAreNotFormatted
  <2> QED BY <1>1, <2>1, <2>2, <2>3, AdoptKeepsInv
<1>3. CASE OpenAsGroupLeader(g, a)
  <2> DEFINE flags == attr[a] \cup LeaderFlags
  <2>1. /\ attr' = [attr EXCEPT ![a] = flags] /\ grouped' = grouped \cup {a}
        /\ attr'[a] = flags /\ Adopt(a, flags, TRUE)
    BY <1>3 DEF OpenAsGroupLeader
  <2>2. UNCHANGED vars \/ \E e \in Events : Appears(e) /\ caller'[e] = NoEvent
    BY <1>3, ConstructAppears DEF OpenAsGroupLeader, Open
  <2>3. flags \in SUBSET Flags /\ "FORMAT_GROUP" \in flags
    BY <1>1 DEF Flags, LeaderFlags
  <2>4. /\ \A b \in Attrs \ grouped' : "FORMAT_GROUP" \notin attr'[b]
        /\ a \in grouped' /\ grouped' \subseteq Attrs
    BY <2>1 DEF PlainAreNotFormatted
  <2>5. attr' \in [Attrs -> SUBSET Flags]
    BY <2>1, <2>3
  <2> HIDE DEF flags
  <2> QED BY <2>1, <2>2, <2>3, <2>4, <2>5, AdoptKeepsInv
<1> QED BY <1>2, <1>3

\* What only asks for flags, moves or fails changes nothing of an open event.
LEMMA QuietStepsKeepInv ==
  ASSUME CInv, GuardInv', UNCHANGED <<used, file, leader, caller, control>>,
         attr' \in [Attrs -> SUBSET Flags], grouped' \subseteq Attrs,
         \A b \in Attrs \ grouped' : "FORMAT_GROUP" \notin attr'[b]
  PROVE  CInv'
<1> USE DEF CInv, CTypeOK, control
<1>1. GroupInv'
  BY GroupInvKept
<1>2. CTypeOK'
  BY DEF GuardInv
<1>3. PlainAreNotFormatted' /\ ArmedAskedForIt'
  BY DEF PlainAreNotFormatted, ArmedAskedForIt
<1> QED BY <1>1, <1>2, <1>3
     DEF OthersAreSilent, JoinedTheirLeaders, LeadersAreFormatted, WakingIsWithinGroup,
         Mates, IsOpen

LEMMA AttrStepsKeepInv ==
  ASSUME CInv, GuardInv', NEW a \in Attrs,
         \/ \E x \in Setters : SetFlag(a, x)
         \/ \E format \in Formats : SetReadFormat(a, format)
  PROVE  CInv'
<1> USE DEF CInv, CTypeOK
<1>1. CASE \E x \in Setters : SetFlag(a, x)
  <2>1. PICK x \in Setters : attr' = [attr EXCEPT ![a] = attr[a] \cup {x}]
    BY <1>1 DEF SetFlag
  <2>2. UNCHANGED <<vars, grouped, control>>
    BY <1>1 DEF SetFlag
  <2>3. /\ attr' \in [Attrs -> SUBSET Flags] /\ grouped' \subseteq Attrs
        /\ \A b \in Attrs \ grouped' : "FORMAT_GROUP" \notin attr'[b]
    BY <2>1, <2>2, ControlAssumption DEF PlainAreNotFormatted, Flags, Askable
  <2> QED BY <2>2, <2>3, QuietStepsKeepInv DEF vars
<1>2. CASE \E format \in Formats : SetReadFormat(a, format)
  <2>1. PICK format \in Formats :
          /\ attr' = [attr EXCEPT ![a] = (attr[a] \ {"FORMAT_GROUP"}) \cup format]
          /\ grouped' = IF format = {} THEN grouped ELSE grouped \cup {a}
    BY <1>2 DEF SetReadFormat
  <2>2. UNCHANGED <<vars, control>>
    BY <1>2 DEF SetReadFormat
  <2>3. /\ attr' \in [Attrs -> SUBSET Flags] /\ grouped' \subseteq Attrs
        /\ \A b \in Attrs \ grouped' : "FORMAT_GROUP" \notin attr'[b]
    BY <2>1, ControlAssumption DEF PlainAreNotFormatted, Flags, Askable
  <2> QED BY <2>2, <2>3, QuietStepsKeepInv DEF vars
<1> QED BY <1>1, <1>2

LEMMA MoveKeepsCInv ==
  ASSUME CInv, GuardInv', NEW g \in Guards, NEW h \in Guards, Move(g, h)
  PROVE  CInv'
<1>1. UNCHANGED <<used, file, leader, caller, attr, grouped, control>>
  BY DEF Move, MoveConstruct, MoveAssign
<1>2. /\ attr' \in [Attrs -> SUBSET Flags] /\ grouped' \subseteq Attrs
      /\ \A b \in Attrs \ grouped' : "FORMAT_GROUP" \notin attr'[b]
  BY <1>1 DEF CInv, CTypeOK, PlainAreNotFormatted
<1> QED BY <1>1, <1>2, QuietStepsKeepInv

\* A step that keeps the descriptors and the flags, and switches events.
LEMMA SwitchKeepsInv ==
  ASSUME CInv, GuardInv', UNCHANGED <<vars, attr, grouped, made, plain, joined, headed>>,
         on' \subseteq Events, armed' \subseteq armed, woken' \subseteq Events,
         output' \in [Events -> Events \cup {NoEvent}],
         filter' \in [Events -> SUBSET Syscalls],
         \A e \in on' : IsOpen(e), woken \subseteq woken', woken' \subseteq used,
         \A e \in on' \ on : \/ "enable_on_exec" \in made[e] /\ e \notin armed'
                            \/ \E d \in woken' : Mates(d, e)
  PROVE  CInv'
<1> USE DEF CInv, CTypeOK, vars
<1>1. GroupInv'
  BY GroupInvKept
<1>2. CTypeOK'
  BY DEF GuardInv
<1>3. OthersAreSilent'
  BY DEF OthersAreSilent, IsOpen
<1>4. WakingIsWithinGroup'
  BY DEF WakingIsWithinGroup, Mates
<1> QED BY <1>1, <1>2, <1>3, <1>4
     DEF JoinedTheirLeaders, LeadersAreFormatted, PlainAreNotFormatted, ArmedAskedForIt,
         IsOpen

\* The group of an open event, and what ioctl reaches of it.
LEMMA ReachedFacts ==
  ASSUME CInv, NEW e \in Events, IsOpen(e), NEW es \in Reached(e)
  PROVE  /\ e \in es /\ es \subseteq Group(e)
         /\ \A d \in es : d \in Events /\ IsOpen(d) /\ leader[d] = leader[e] /\ Mates(e, d)
<1>1. \A d \in Group(e) : d \in Events /\ IsOpen(d) /\ leader[d] = leader[e]
  BY DEF Group, IsOpen
<1>2. \A d \in Group(e) : Mates(e, d)
  BY <1>1 DEF CInv, JoinedTheirLeaders, Mates
<1>3. e \in Group(e)
  BY DEF Group
<1> QED BY <1>1, <1>2, <1>3 DEF Reached

\* The event of a guard that owns a descriptor is open.
LEMMA HeldIsOpen ==
  ASSUME CInv, NEW g \in Guards, fd[g] # NoFd
  PROVE  g \in live /\ Holds(g) \in Events /\ Holds(g) \in used /\ IsOpen(Holds(g))
<1>1. /\ g \in live /\ Holds(g) \in Events /\ Holds(g) \in used
      /\ fd[g] \in Fds /\ Holds(g) = file[fd[g]]
  BY CallerFacts DEF CInv, Holds, OpenFiles
<1> QED BY <1>1 DEF CInv, GroupInv

LEMMA ControlKeepsInv ==
  ASSUME CInv, GuardInv', NEW g \in Guards,
         \/ Enable(g) \/ Disable(g)
         \/ \E h \in Guards : SetOutput(g, h)
         \/ \E calls \in SUBSET Syscalls : SetSyscallFilter(g, calls)
  PROVE  CInv'
<1> USE DEF CInv, CTypeOK
<1>1. \A e \in on : IsOpen(e)
  BY DEF OthersAreSilent
<1>2. woken \subseteq used
  BY DEF OthersAreSilent
<1>3. CASE Enable(g)
  <2>1. /\ Holds(g) \in Events /\ Holds(g) \in used /\ IsOpen(Holds(g))
        /\ UNCHANGED <<vars, attr, grouped, made, armed, output, filter, plain, joined, headed>>
        /\ woken' = woken \cup {Holds(g)}
    BY <1>3, HeldIsOpen DEF Enable
  <2>2. PICK es \in Reached(Holds(g)) : on' = on \cup es
    BY <1>3 DEF Enable
  <2>3. \A d \in es : d \in Events /\ IsOpen(d) /\ Mates(Holds(g), d)
    BY <2>1, ReachedFacts
  <2> QED BY <1>1, <1>2, <2>1, <2>2, <2>3, SwitchKeepsInv
<1>4. CASE \/ Disable(g)
           \/ \E calls \in SUBSET Syscalls : SetSyscallFilter(g, calls)
  <2>1. /\ UNCHANGED <<vars, attr, grouped, made, armed, output, plain, joined, headed, woken>>
        /\ on' \subseteq on
        /\ filter' \in [Events -> SUBSET Syscalls]
    BY <1>4 DEF Disable, SetSyscallFilter
  <2> QED BY <1>1, <1>2, <2>1, SwitchKeepsInv
<1>5. CASE \E h \in Guards : SetOutput(g, h)
  <2>1. PICK h \in Guards : SetOutput(g, h)
    BY <1>5
  <2>2. fd[h] # NoFd => Buffer(Holds(h)) \in Events
    BY HeldIsOpen DEF Buffer
  <2>3. output' \in [Events -> Events \cup {NoEvent}]
    BY <2>1, <2>2 DEF SetOutput
  <2>4. UNCHANGED <<vars, attr, grouped, made, on, armed, filter, plain, joined, headed, woken>>
    BY <2>1 DEF SetOutput
  <2> QED BY <1>1, <1>2, <2>3, <2>4, SwitchKeepsInv
<1> QED BY <1>3, <1>4, <1>5

LEMMA ExecKeepsInv == ASSUME CInv, GuardInv', Exec PROVE CInv'
<1> USE DEF CInv, CTypeOK
<1>1. PICK es \in SUBSET armed : on' = on \cup es /\ armed' = armed \ es
  BY DEF Exec
<1>2. UNCHANGED <<vars, attr, grouped, made, output, filter, plain, joined, headed, woken>>
  BY DEF Exec
<1>3. \A e \in on' : IsOpen(e)
  BY <1>1 DEF OthersAreSilent
<1>4. woken \subseteq used
  BY DEF OthersAreSilent
<1>5. \A e \in on' \ on : "enable_on_exec" \in made[e] /\ e \notin armed'
  BY <1>1 DEF ArmedAskedForIt
<1> QED BY <1>1, <1>2, <1>3, <1>4, <1>5, SwitchKeepsInv

\* The other events keep what is known of them; those of the closed event's group
\* are now their own leaders.
LEMMA CloseKeepsInv ==
  ASSUME CInv, GuardInv', NEW g \in Guards, Close(g)
  PROVE  CInv'
<1> USE DEF CInv, CTypeOK
<1> DEFINE e == Holds(g)
<1>1. /\ UNCHANGED <<used, caller, attr, grouped, joined, woken>>
      /\ on' = on \ {e} /\ armed' = armed \ {e}
      /\ plain' = plain \ {e} /\ headed' = headed \ {e}
      /\ made' \in [Events -> SUBSET Flags]
      /\ output' \in [Events -> Events \cup {NoEvent}]
      /\ filter' \in [Events -> SUBSET Syscalls]
      /\ \A d \in Events \ {e} : made'[d] = made[d]
      /\ made'[e] = {} \/ e \notin Events
  BY DEF Close, Destroy
<1>2. \/ UNCHANGED <<file, leader>> /\ e = NoEvent
      \/ e \in Events /\ Goes(e)
  BY DestroyGoes DEF Close, Goes, GuardInv, TypeOK
<1>3. GroupInv'
  BY <1>1, <1>2, GroupInvKept
<1>4. /\ leader' \in [Events -> Events \cup {NoEvent}]
      /\ \A d \in Events : IsOpen(d)' => d # e /\ IsOpen(d) /\ leader'[d] \in {leader[d], d}
      /\ \A d \in Events \ {e} : IsOpen(d) => IsOpen(d)'
  BY <1>2, GuardAssumption DEF Goes, IsOpen, GuardInv, TypeOK
<1>5. CTypeOK'
  BY <1>1 DEF GuardInv
<1> HIDE DEF e
<1>6. OthersAreSilent'
  BY <1>1, <1>4 DEF OthersAreSilent
<1>7. JoinedTheirLeaders'
  BY <1>1, <1>4 DEF JoinedTheirLeaders
<1>8. LeadersAreFormatted'
  BY <1>1 DEF LeadersAreFormatted
<1>9. PlainAreNotFormatted' /\ ArmedAskedForIt'
  BY <1>1 DEF PlainAreNotFormatted, ArmedAskedForIt
<1>10. WakingIsWithinGroup'
  BY <1>1 DEF WakingIsWithinGroup, Mates
<1> QED BY <1>3, <1>5, <1>6, <1>7, <1>8, <1>9, <1>10

LEMMA CNextKeepsInv == CInv /\ [CNext]_cvars => CInv'
<1> SUFFICES ASSUME CInv, [CNext]_cvars PROVE CInv'
  OBVIOUS
<1>1. GuardInv'
  BY StepsAreGuards, NextKeepsInv DEF CInv
<1>2. CASE UNCHANGED cvars
  <2>1. /\ attr' \in [Attrs -> SUBSET Flags] /\ grouped' \subseteq Attrs
        /\ \A b \in Attrs \ grouped' : "FORMAT_GROUP" \notin attr'[b]
    BY <1>2 DEF CInv, CTypeOK, cvars, PlainAreNotFormatted
  <2> QED BY <1>1, <1>2, <2>1, QuietStepsKeepInv DEF cvars, vars
<1>3. ASSUME NEW g \in Guards, ControlFails(g) PROVE CInv'
  BY <1>2, <1>3 DEF ControlFails
<1> QED BY <1>1, <1>2, <1>3, AttrStepsKeepInv, OpensKeepInv, MoveKeepsCInv, CloseKeepsInv,
           ControlKeepsInv, ExecKeepsInv DEF CNext

-----------------------------------------------------------------------------
(* Reading a group *)

LEMMA SameSize ==
  ASSUME NEW S, IsFiniteSet(S), NEW F, \A x, y \in S : F[x] = F[y] => x = y
  PROVE  LET T == {F[x] : x \in S}
         IN  IsFiniteSet(T) /\ Cardinality(T) = Cardinality(S)
<1> DEFINE T == {F[x] : x \in S}
           b == [x \in S |-> F[x]]
<1>1. b \in Bijection(S, T)
  BY DEF Bijection, Injection, Surjection, IsInjective
<1>2. ExistsBijection(S, T)
  BY <1>1 DEF ExistsBijection
<1>3. IsFiniteSet(T) /\ Cardinality(T) = Cardinality(S)
  <2> HIDE DEF T
  <2> QED BY <1>2, FS_Bijection
<1> QED BY <1>3

\* Two guards never hold the same event.
LEMMA HoldsOnce ==
  ASSUME GuardInv, NEW g \in live, NEW h \in live, Holds(g) = Holds(h), Holds(g) # NoEvent
  PROVE  g = h
<1> USE DEF GuardInv, TypeOK
<1>1. /\ fd[g] \in OpenFiles /\ fd[h] \in OpenFiles
      /\ Holds(g) = file[fd[g]] /\ Holds(h) = file[fd[h]]
  BY CallerFacts DEF Holds
<1>2. fd[g] = fd[h] /\ fd[g] # NoFd
  BY <1>1, CallerFacts DEF FilesAreEvents
<1> QED BY <1>2 DEF ExclusiveOwnership

\* The group of a leader's event is what the guards of the group hold and what
\* was stranded in it.
LEMMA GroupOfLeader ==
  ASSUME CInv, NEW g \in live, Holds(g) \in headed
  PROVE  LET e       == Holds(g)
             theirs  == {Holds(h) : h \in GuardsOfGroup(e)}
             strands == {file[f] : f \in {x \in lost : leader[file[x]] = e}}
         IN  /\ leader[e] = e
             /\ Group(e) = theirs \cup strands
             /\ theirs \cap strands = {}
<1> USE DEF CInv, GuardInv, TypeOK
<1> DEFINE e == Holds(g)
           theirs == {Holds(h) : h \in GuardsOfGroup(e)}
           strands == {file[f] : f \in {x \in lost : leader[file[x]] = e}}
<1>1. /\ e \in Events /\ e # NoEvent /\ IsOpen(e) /\ caller[e] = NoEvent
      /\ \E f \in Fds : file[f] = e
  BY GuardAssumption DEF CTypeOK, OthersAreSilent, LeadersAreFormatted, GroupInv
<1>2. leader[e] = e
  BY <1>1 DEF GroupFollowsCaller
<1>3. \A d \in Group(e) : d \in Events /\ leader[d] = e
  BY <1>2 DEF Group
<1>4. ASSUME NEW h \in GuardsOfGroup(e)
      PROVE  Holds(h) \in Group(e) /\ fd[h] \in Owned /\ file[fd[h]] = Holds(h)
  <2>1. h \in live /\ Holds(h) # NoEvent /\ (Holds(h) = e \/ caller[Holds(h)] = e)
    BY DEF GuardsOfGroup
  <2>2. Holds(h) \in Events /\ fd[h] \in Owned /\ file[fd[h]] = Holds(h)
    BY <2>1, CallerFacts DEF Owned, Holds
  <2>3. leader[Holds(h)] = e
    BY <1>1, <1>2, <2>1 DEF GroupFollowsCaller
  <2> QED BY <1>2, <2>2, <2>3 DEF Group
<1>5. ASSUME NEW f \in lost, leader[file[f]] = e PROVE file[f] \in Group(e)
  <2>1. file[f] \in Events
    BY DEF DescriptorsAccountedFor, OpenFiles
  <2> QED BY <1>2, <1>5, <2>1 DEF Group
<1>6. ASSUME NEW d \in Group(e) PROVE d \in theirs \cup strands
  <2>1. d \in Events /\ leader[d] = e /\ d # NoEvent
    BY <1>3, GuardAssumption
  <2>2. PICK f \in Fds : file[f] = d
    BY <1>1, <2>1 DEF GroupInv, IsOpen
  <2>3. f \in Owned \cup lost
    BY <2>1, <2>2 DEF DescriptorsAccountedFor, OpenFiles
  <2>4. ASSUME NEW h \in live, fd[h] = f PROVE d \in theirs
    <3>1. Holds(h) = d
      BY <2>2, <2>4, GuardAssumption DEF Holds, NoFd
    <3>2. d = e \/ caller[d] = e
      BY <2>1, <3>1 DEF GroupFollowsCaller
    <3> QED BY <2>1, <3>1, <3>2 DEF GuardsOfGroup
  <2> QED BY <2>1, <2>2, <2>3, <2>4 DEF Owned
<1>7. ASSUME NEW h \in GuardsOfGroup(e), NEW f \in lost, Holds(h) = file[f] PROVE FALSE
  <2>1. fd[h] \in OpenFiles /\ f \in OpenFiles /\ fd[h] # f
    BY <1>4 DEF DescriptorsAccountedFor
  <2> QED BY <1>4, <1>7, <2>1 DEF FilesAreEvents
<1>8. Group(e) = theirs \cup strands
  BY <1>4, <1>5, <1>6
<1>9. theirs \cap strands = {}
  BY <1>7
<1> QED BY <1>2, <1>8, <1>9

LEMMA ReadsMatch == CInv => ReadsMatchGuards
<1> SUFFICES ASSUME CInv, NEW g \in live, Holds(g) \in headed
             PROVE  LET e    == Holds(g)
                        mine == GuardsOfGroup(e)
                        got  == Read(g, 1 + Cardinality(mine))
                    IN  got = IF \E f \in lost : leader[file[f]] = e
                              THEN Outcome("ENOSPC", {}, 0)
                              ELSE Outcome("group", {Holds(h) : h \in mine}, 0)
  BY DEF ReadsMatchGuards
<1> DEFINE e == Holds(g)
           mine == GuardsOfGroup(e)
           theirs == {Holds(h) : h \in mine}
           strands == {file[f] : f \in {x \in lost : leader[file[x]] = e}}
<1>1. Group(e) = theirs \cup strands /\ theirs \cap strands = {}
  BY GroupOfLeader
<1>2. fd[g] # NoFd /\ "FORMAT_GROUP" \in made[e]
  BY GuardAssumption DEF Holds, CInv, CTypeOK, LeadersAreFormatted
<1>3. IsFiniteSet(mine) /\ IsFiniteSet(Group(e))
  <2>1. mine \in SUBSET Guards /\ Group(e) \in SUBSET Events
    BY DEF GuardsOfGroup, Group, CInv, CTypeOK, TypeOK
  <2> QED BY <2>1, FS_Subset, ControlAssumption
<1>4. Cardinality(theirs) = Cardinality(mine) /\ IsFiniteSet(theirs)
  <2> DEFINE F == [h \in mine |-> Holds(h)]
  <2>1. \A x, y \in mine : F[x] = F[y] => x = y
    BY HoldsOnce DEF GuardsOfGroup, CInv
  <2>2. {F[h] : h \in mine} = theirs
    OBVIOUS
  <2> HIDE DEF F, theirs
  <2>3. LET T == {F[h] : h \in mine}
        IN  IsFiniteSet(T) /\ Cardinality(T) = Cardinality(mine)
    BY <1>3, <2>1, SameSize
  <2> QED BY <2>2, <2>3
<1>5. Cardinality(mine) \in Nat /\ Cardinality(Group(e)) \in Nat
  BY <1>3, FS_CardinalityType
<1>6. CASE \E f \in lost : leader[file[f]] = e
  <2>1. theirs \in SUBSET Group(e) /\ theirs # Group(e)
    BY <1>1, <1>6
  <2>2. Cardinality(theirs) < Cardinality(Group(e))
    <3> HIDE DEF theirs
    <3>1. /\ Cardinality(theirs) <= Cardinality(Group(e))
          /\ Cardinality(theirs) # Cardinality(Group(e))
      BY <1>3, <2>1, FS_Subset
    <3> QED BY <1>4, <1>5, <3>1
  <2>3. 1 + Cardinality(mine) < 1 + Cardinality(Group(e))
    BY <1>4, <1>5, <2>2
  <2> QED BY <1>2, <1>6, <2>3 DEF Read
<1>7. CASE ~ \E f \in lost : leader[file[f]] = e
  <2>1. Group(e) = theirs
    BY <1>1, <1>7
  <2>2. /\ ~(1 + Cardinality(mine) < 1 + Cardinality(Group(e)))
        /\ (1 + Cardinality(mine)) - (1 + Cardinality(Group(e))) = 0
    BY <1>4, <1>5, <2>1
  <2> QED BY <1>2, <1>7, <2>1, <2>2 DEF Read
<1> QED BY <1>6, <1>7

(* A leader's guard reads one value of each guard of its group, unless a child   *)
(* was stranded in it: then the kernel refuses the read.                         *)
THEOREM ReadsMatchTheGuards == CSpec => []ReadsMatchGuards
<1> QED BY InitCInv, CNextKeepsInv, ReadsMatch, PTL DEF CSpec

-----------------------------------------------------------------------------
(* Switching and setting, step by step *)

\* A step that opens, or does nothing to the events that were there.
Keeps == \A e \in used :
  /\ leader'[e] = leader[e]
  /\ e \in on' <=> e \in on
  /\ output'[e] = output[e] /\ filter'[e] = filter[e]

LEMMA OpensKeep ==
  ASSUME CInv, NEW g \in Guards, NEW a \in Attrs,
         \/ OpenPlain(g, a) \/ OpenAsGroupLeader(g, a)
         \/ \E h \in Guards : OpenAsChild(h, g, a)
  PROVE  Keeps /\ \A f \in OpenFiles : file'[f] = file[f]
<1> USE DEF CInv, CTypeOK, GuardInv, TypeOK
<1>1. UNCHANGED vars \/ \E e \in Events : Appears(e)
  BY ConstructAppears, CallerFacts
     DEF OpenPlain, OpenAsGroupLeader, OpenAsChild, Open, OpenChild
<1>2. PICK flags \in {attr[a], attr'[a]}, heads \in BOOLEAN : Adopt(a, flags, heads)
  BY DEF OpenPlain, OpenAsGroupLeader, OpenAsChild
<1>3. CASE UNCHANGED vars
  BY <1>2, <1>3 DEF Keeps, Adopt, vars
<1>4. ASSUME NEW e \in Events, Appears(e)
      PROVE  Keeps /\ \A f \in OpenFiles : file'[f] = file[f]
  <2>1. e \notin used /\ used' \ used = {e}
    BY <1>4 DEF Appears
  <2>2. \A d \in used : leader'[d] = leader[d]
    BY <1>4, <2>1 DEF Appears
  <2>3. \A d \in used : d \in on' <=> d \in on
    BY <1>2, <2>1 DEF Adopt
  <2>4. UNCHANGED <<output, filter>>
    BY <1>2 DEF Adopt
  <2>5. \A f \in OpenFiles : file'[f] = file[f]
    BY <1>4 DEF Appears, OpenFiles
  <2> QED BY <2>2, <2>3, <2>4, <2>5 DEF Keeps
<1> QED BY <1>1, <1>3, <1>4 DEF vars

\* The cases of a step.
LEMMA CNextCases ==
  ASSUME CInv, [CNext]_cvars
  PROVE  \/ Keeps /\ \A f \in OpenFiles : file'[f] = file[f]
         \/ \E g \in Guards :
              \/ Close(g) \/ Enable(g) \/ Disable(g)
              \/ \E h \in Guards : SetOutput(g, h)
              \/ \E calls \in SUBSET Syscalls : SetSyscallFilter(g, calls)
         \/ Exec
<1>1. ASSUME UNCHANGED <<leader, file, on, output, filter>>
      PROVE  Keeps /\ \A f \in OpenFiles : file'[f] = file[f]
  BY <1>1 DEF Keeps
<1>2. ASSUME UNCHANGED cvars PROVE UNCHANGED <<leader, file, on, output, filter>>
  BY <1>2 DEF cvars, control, vars
<1>3. ASSUME NEW g \in Guards,
             (\E h \in Guards : Move(g, h)) \/ ControlFails(g)
      PROVE  UNCHANGED <<leader, file, on, output, filter>>
  BY <1>3 DEF Move, MoveConstruct, MoveAssign, ControlFails, control, cvars, vars
<1>4. ASSUME NEW a \in Attrs,
             \/ \E x \in Setters : SetFlag(a, x)
             \/ \E format \in Formats : SetReadFormat(a, format)
      PROVE  UNCHANGED <<leader, file, on, output, filter>>
  BY <1>4 DEF SetFlag, SetReadFormat, control, vars
<1> QED BY <1>1, <1>2, <1>3, <1>4, OpensKeep DEF CNext

\* A close that meets an event: all but that event and those it led stay put.
LEMMA CloseKeeps ==
  ASSUME CInv, NEW g \in Guards, Close(g), NEW e \in used, e # Holds(g)
  PROVE  /\ e \in on' <=> e \in on
         /\ output'[e] = output[e] /\ filter'[e] = filter[e]
         /\ leader'[e] = IF Holds(g) # NoEvent /\ leader[e] = Holds(g) THEN e ELSE leader[e]
<1> USE DEF CInv, CTypeOK, GuardInv, TypeOK
<1>1. /\ e \in on' <=> e \in on
      /\ output'[e] = output[e] /\ filter'[e] = filter[e]
  BY DEF Close
<1>2. leader'[e] = IF Holds(g) # NoEvent /\ leader[e] = Holds(g) THEN e ELSE leader[e]
  BY DestroyGoes DEF Close, Goes
<1> QED BY <1>1, <1>2

LEMMA ClosedIsGone ==
  ASSUME CInv, NEW g \in Guards, Close(g), Holds(g) # NoEvent
  PROVE  Holds(g) \in used /\ leader'[Holds(g)] = NoEvent
<1> USE DEF CInv, CTypeOK, GuardInv, TypeOK
<1> QED BY DestroyGoes, CallerFacts DEF Close, Goes

LEMMA CountingStarts ==
  ASSUME CInv, [CNext]_cvars, NEW e \in used, ~Counting(e), Counting(e)'
  PROVE  \/ leader[e] # e /\ leader'[e] = e
         \/ ExecEnables(e) \/ ExecEnables(leader[e])
         \/ on' # on /\ \E g \in live : Holds(g) \in Group(e) \cap on' \cap woken'
<1> USE DEF CInv, CTypeOK, GuardInv, TypeOK
<1>1. e \in on' /\ leader'[e] \in on' /\ (e \notin on \/ leader[e] \notin on)
  BY DEF Counting
<1>2. \A d \in on : d \in used /\ leader[d] \in used /\ IsOpen(d)
                  /\ leader[leader[d]] = leader[d]
  BY DEF OthersAreSilent, GroupInv
<1>3. CASE Keeps
  BY <1>1, <1>2, <1>3 DEF Keeps
<1>4. ASSUME NEW g \in Guards, Close(g)
      PROVE  leader[e] # e /\ leader'[e] = e
  <2>1. on' = on \ {Holds(g)}
    BY <1>4 DEF Close
  <2>2. e # Holds(g) /\ e \in on
    BY <1>1, <2>1
  <2> QED BY <1>1, <1>4, <2>1, <2>2, CloseKeeps
<1>5. ASSUME NEW g \in Guards, Enable(g)
      PROVE  on' # on /\ \E k \in live : Holds(k) \in Group(e) \cap on' \cap woken'
  <2>1. /\ g \in live /\ Holds(g) \in Events /\ IsOpen(Holds(g))
        /\ leader' = leader /\ Holds(g) \in woken'
    BY <1>5, HeldIsOpen DEF Enable, vars
  <2>2. PICK es \in Reached(Holds(g)) : on' = on \cup es
    BY <1>5 DEF Enable
  <2>3. Holds(g) \in es /\ \A d \in es : leader[d] = leader[Holds(g)]
    BY <2>1, <2>2, ReachedFacts
  <2>4. leader[e] = leader[Holds(g)]
    BY <1>1, <1>2, <2>1, <2>2, <2>3
  <2> QED BY <1>1, <2>1, <2>2, <2>3, <2>4 DEF Group
<1>6. ASSUME NEW g \in Guards,
             \/ Disable(g)
             \/ \E h \in Guards : SetOutput(g, h)
             \/ \E calls \in SUBSET Syscalls : SetSyscallFilter(g, calls)
      PROVE  FALSE
  <2>1. on' \subseteq on /\ leader' = leader
    BY <1>6 DEF Disable, SetOutput, SetSyscallFilter, vars
  <2> QED BY <1>1, <2>1
<1>7. CASE Exec
  BY <1>1, <1>7 DEF Exec, ExecEnables, vars
<1> QED BY <1>3, <1>4, <1>5, <1>6, <1>7, CNextCases

LEMMA LostStay ==
  ASSUME CInv, [CNext]_cvars, NEW f \in lost
  PROVE  /\ file'[f] = file[f]
         /\ (\A g \in live : Holds(g) \notin Group(file[f])) => Untouched(file[f])
<1> USE DEF CInv, CTypeOK, GuardInv, TypeOK
<1>1. f \in OpenFiles /\ file[f] \in used /\ file[f] \in Group(file[f])
  BY DEF DescriptorsAccountedFor, FilesAreEvents, Group
<1>2. CASE Keeps /\ \A x \in OpenFiles : file'[x] = file[x]
  BY <1>1, <1>2 DEF Keeps, Untouched
<1>3. ASSUME NEW g \in Guards, Close(g) PROVE file'[f] = file[f] /\ Untouched(file[f])
  <2>1. g \in live /\ Destroy(g)
    BY <1>3 DEF Close, Destroy
  <2>2. Holds(g) # file[f]
    <3>1. CASE fd[g] = NoFd
      BY <1>1, <3>1 DEF Holds, OpenFiles
    <3>2. CASE fd[g] # NoFd
      <4>1. fd[g] \in Owned /\ fd[g] \in OpenFiles /\ Holds(g) = file[fd[g]]
        BY <2>1, <3>2, CallerFacts DEF Owned, Holds
      <4>2. fd[g] # f
        BY <4>1 DEF DescriptorsAccountedFor
      <4> QED BY <1>1, <4>1, <4>2 DEF FilesAreEvents
    <3> QED BY <3>1, <3>2
  <2>3. file'[f] = file[f]
    BY <2>1, DestroyGoes DEF Goes
  <2> QED BY <1>1, <1>3, <2>2, <2>3, CloseKeeps DEF Untouched
<1>4. ASSUME NEW g \in Guards, Enable(g) \/ Disable(g),
             \A k \in live : Holds(k) \notin Group(file[f])
      PROVE  Untouched(file[f])
  <2>1. /\ g \in live /\ Holds(g) \in Events /\ IsOpen(Holds(g))
        /\ UNCHANGED <<output, filter>>
    BY <1>4, HeldIsOpen DEF Enable, Disable
  <2>2. PICK es \in Reached(Holds(g)) : on' = on \cup es \/ on' = on \ es
    BY <1>4 DEF Enable, Disable
  <2>3. file[f] \notin es
    BY <1>4, <2>1, <2>2, ReachedFacts DEF Group
  <2> QED BY <2>1, <2>2, <2>3 DEF Untouched
<1>5. ASSUME NEW g \in Guards,
             \/ \E h \in Guards : SetOutput(g, h)
             \/ \E calls \in SUBSET Syscalls : SetSyscallFilter(g, calls),
             \A k \in live : Holds(k) \notin Group(file[f])
      PROVE  Untouched(file[f])
  <2>1. g \in live /\ Holds(g) # file[f] /\ on' = on
    BY <1>1, <1>5 DEF SetOutput, SetSyscallFilter
  <2>2. /\ filter' = filter \/ \E c : filter' = [filter EXCEPT ![Holds(g)] = c]
        /\ output' = output \/ \E d : output' = [output EXCEPT ![Holds(g)] = d]
    BY <1>5 DEF SetOutput, SetSyscallFilter
  <2>3. output'[file[f]] = output[file[f]] /\ filter'[file[f]] = filter[file[f]]
    BY <1>1, <2>1, <2>2
  <2> QED BY <2>1, <2>3 DEF Untouched
<1>6. ASSUME NEW g \in Guards,
             \/ Enable(g) \/ Disable(g)
             \/ \E h \in Guards : SetOutput(g, h)
             \/ \E calls \in SUBSET Syscalls : SetSyscallFilter(g, calls)
      PROVE  file'[f] = file[f]
  BY <1>6 DEF Enable, Disable, SetOutput, SetSyscallFilter, vars
<1>7. CASE Exec
  BY <1>1, <1>7 DEF Exec, ExecEnables, Untouched, vars
<1> QED BY <1>2, <1>3, <1>4, <1>5, <1>6, <1>7, CNextCases

LEMMA SettingsStay ==
  ASSUME CInv, [CNext]_cvars, NEW e \in Events,
         leader[e] # NoEvent, leader'[e] # NoEvent
  PROVE  /\ filter[e] # {} => filter'[e] # {}
         /\ output[e] # NoEvent /\ output'[e] = NoEvent => \E h \in live : fd[h] = NoFd
<1> USE DEF CInv, CTypeOK, GuardInv, TypeOK
<1>1. e \in used
  BY DEF GroupInv, IsOpen
<1>2. CASE Keeps
  BY <1>1, <1>2 DEF Keeps
<1>3. ASSUME NEW g \in Guards, Close(g)
      PROVE  output'[e] = output[e] /\ filter'[e] = filter[e]
  <2>1. e # Holds(g)
    BY <1>3, ClosedIsGone, GuardAssumption
  <2> QED BY <1>1, <1>3, <2>1, CloseKeeps
<1>4. ASSUME NEW g \in Guards,
             \/ Enable(g) \/ Disable(g)
             \/ \E calls \in SUBSET Syscalls : SetSyscallFilter(g, calls)
      PROVE  output'[e] = output[e] /\ (filter[e] # {} => filter'[e] # {})
  BY <1>4 DEF Enable, Disable, SetSyscallFilter
<1>5. ASSUME NEW g \in Guards, NEW h \in Guards, SetOutput(g, h)
      PROVE  /\ filter'[e] = filter[e]
             /\ output[e] # NoEvent /\ output'[e] = NoEvent => fd[h] = NoFd /\ h \in live
  <2>1. fd[h] # NoFd => Buffer(Holds(h)) # NoEvent
    BY HeldIsOpen, GuardAssumption DEF Buffer
  <2> QED BY <1>5, <2>1 DEF SetOutput
<1>6. CASE Exec
  BY <1>6 DEF Exec
<1> QED BY <1>2, <1>3, <1>4, <1>5, <1>6, CNextCases

-----------------------------------------------------------------------------
(* The theorems *)

(* Every variable of EventControl keeps its type. *)
THEOREM ControlTypeCorrect == CSpec => []CTypeOK
<1>1. CInv => CTypeOK
  BY DEF CInv
<1> QED BY <1>1, InitCInv, CNextKeepsInv, PTL DEF CSpec

(* Whoever keeps an EventAttr apart from leaders reads single values with it. *)
THEOREM PlainReadsAreSingle == CSpec => []PlainReadsAreValues
<1>1. CInv => PlainReadsAreValues
  <2> SUFFICES ASSUME CInv, NEW g \in live, Holds(g) \in plain
               PROVE  Read(g, 1) = Outcome("value", {Holds(g)}, 0)
    BY DEF PlainReadsAreValues
  <2>1. Holds(g) \in Events /\ "FORMAT_GROUP" \notin made[Holds(g)]
    BY DEF CInv, CTypeOK, PlainAreNotFormatted
  <2>2. fd[g] # NoFd
    BY <2>1, GuardAssumption DEF Holds
  <2> QED BY <2>1, <2>2 DEF Read
<1> QED BY <1>1, InitCInv, CNextKeepsInv, PTL DEF CSpec

(* Whatever ioctl reads in place of the argument it is not given, an event that   *)
(* was opened disabled is enabled from within its own group only, or by the exec   *)
(* that set_enable_on_exec asked for.                                             *)
THEOREM WakingStaysInGroup == CSpec => []WakingIsWithinGroup
<1>1. CInv => WakingIsWithinGroup
  BY DEF CInv
<1> QED BY <1>1, InitCInv, CNextKeepsInv, PTL DEF CSpec

(* An event starts to count because a guard of its group was enabled, because an  *)
(* exec enabled it or its leader, or because its leader was closed.               *)
THEOREM CountingHasReasons == CSpec => CountingStartsForAReason
<1>1. CInv /\ [CNext]_cvars =>
        [\A e \in used : ~Counting(e) /\ Counting(e)' =>
           \/ leader[e] # e /\ leader'[e] = e
           \/ ExecEnables(e) \/ ExecEnables(leader[e])
           \/ on' # on /\ \E g \in live : Holds(g) \in Group(e) \cap on' \cap woken']_cvars
  BY CountingStarts
<1> QED BY <1>1, InitCInv, CNextKeepsInv, PTL DEF CSpec, CountingStartsForAReason

(* An event that a throwing constructor left open is out of everybody's reach.    *)
THEOREM LostEventsCannotBeReached == CSpec => LostEventsAreOutOfReach
<1>1. CInv /\ [CNext]_cvars =>
        [\A f \in lost :
           /\ file'[f] = file[f]
           /\ (\A g \in live : Holds(g) \notin Group(file[f])) => Untouched(file[f])]_cvars
  BY LostStay
<1> QED BY <1>1, InitCInv, CNextKeepsInv, PTL DEF CSpec, LostEventsAreOutOfReach

(* Output and filter of an event last as long as the event, but for set_output     *)
(* with a guard that has been moved from.                                         *)
THEOREM SettingsDoLast == CSpec => SettingsLast
<1>1. CInv /\ [CNext]_cvars =>
        [\A e \in Events : leader[e] # NoEvent /\ leader'[e] # NoEvent =>
           /\ filter[e] # {} => filter'[e] # {}
           /\ output[e] # NoEvent /\ output'[e] = NoEvent =>
                \E h \in live : fd[h] = NoFd]_cvars
  BY SettingsStay
<1> QED BY <1>1, InitCInv, CNextKeepsInv, PTL DEF CSpec, SettingsLast

(* Whatever is set, switched, redirected, filtered or read, the guards remain what  *)
(* EventGuard shows them to be: owners of events by HandleOwnership, no two of one   *)
(* descriptor, leaks with one cause, children in the groups of their callers.       *)
THEOREM ControlKeepsOwnership ==
  CSpec => /\ ImplementsOwnership
           /\ [](ExclusiveOwnership /\ DescriptorsAccountedFor /\ GroupFollowsCaller)
<1>1. CInit => Init
  BY DEF CInit
<1>2. CSpec => Spec
  BY <1>1, StepsAreGuards, PTL DEF CSpec, Spec
<1> QED BY <1>2, GuardsImplementOwnership, GuardsOwnExclusively, NothingElseLeaks,
           GroupsFollowCallers, PTL
=============================================================================
