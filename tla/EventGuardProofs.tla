--------------------------- MODULE EventGuardProofs ---------------------------
(***************************************************************************)
(* Theorems about EventGuard, for any number of guards, descriptors and      *)
(* events.  GuardInv is the inductive invariant: what the properties say of   *)
(* live guards only stays true because a dead guard holds no descriptor, an   *)
(* event sits behind one descriptor only, and an open event is never fresh.   *)
(***************************************************************************)
EXTENDS EventGuard, TLAPS

DeadGuardsAreEmpty == \A g \in Guards \ live : fd[g] = NoFd

\* An open event was created, and is behind one descriptor.
FilesAreEvents ==
  /\ \A f \in OpenFiles : file[f] \in used
  /\ \A f1, f2 \in OpenFiles : file[f1] = file[f2] => f1 = f2

CallersAreOlder == \A e \in Events : caller[e] = NoEvent \/ caller[e] \in used \ {e}

GuardInv ==
  /\ TypeOK
  /\ DeadGuardsAreEmpty
  /\ ExclusiveOwnership
  /\ DescriptorsAccountedFor
  /\ FilesAreEvents
  /\ CallersAreOlder
  /\ GroupFollowsCaller

-----------------------------------------------------------------------------
LEMMA InitGuardInv == Init => GuardInv
  BY GuardAssumption
  DEF Init, GuardInv, TypeOK, DeadGuardsAreEmpty, ExclusiveOwnership,
      DescriptorsAccountedFor, FilesAreEvents, CallersAreOlder,
      GroupFollowsCaller, OpenFiles, Owned, Holds, NoFd

\* What the constructor is given by open and by open_child.
LEMMA CallerFacts ==
  ASSUME GuardInv, NEW h \in Guards
  PROVE  /\ fd[h] \in Fds \cup {NoFd}
         /\ Holds(h) \in used \cup {NoEvent}
         /\ Holds(h) \in Events \cup {NoEvent}
         /\ Holds(h) = NoEvent <=> fd[h] = NoFd
         /\ fd[h] # NoFd => h \in live /\ fd[h] \in OpenFiles
<1> USE DEF GuardInv, TypeOK
<1>1. fd[h] \in Fds \cup {NoFd}
  OBVIOUS
<1>2. CASE fd[h] = NoFd
  BY <1>2 DEF Holds
<1>3. CASE fd[h] # NoFd
  <2>1. h \in live /\ fd[h] \in Owned
    BY <1>3 DEF DeadGuardsAreEmpty, Owned
  <2>2. fd[h] \in OpenFiles
    BY <2>1 DEF DescriptorsAccountedFor
  <2>3. file[fd[h]] \in used /\ file[fd[h]] # NoEvent /\ file[fd[h]] \in Events
    BY <2>2 DEF FilesAreEvents, OpenFiles
  <2> QED BY <1>1, <1>3, <2>1, <2>2, <2>3 DEF Holds
<1> QED BY <1>2, <1>3

\* What a successful perf_event_open comes to in a state that satisfies GuardInv:
\* descriptor and event are new, and the group descriptor, if any, is open.
Created(f, e, gfd) ==
  /\ f \notin Owned /\ f \notin lost /\ file[f] = NoEvent
  /\ e \notin used /\ e # NoEvent
  /\ file' \in [Fds -> Events \cup {NoEvent}]
  /\ file' = [file EXCEPT ![f] = e]
  /\ OpenFiles' = OpenFiles \cup {f}
  /\ used' = used \cup {e} /\ used' \subseteq Events
  /\ leader' \in [Events -> Events \cup {NoEvent}]
  /\ leader' = [leader EXCEPT ![e] = IF gfd = NoFd THEN e ELSE file[gfd]]
  /\ gfd # NoFd => gfd \in OpenFiles

LEMMA CreateFacts ==
  ASSUME GuardInv, NEW gfd \in Fds \cup {NoFd}, NEW f \in Fds, NEW e \in Events,
         CreateEvent(f, e, gfd)
  PROVE  Created(f, e, gfd)
<1> USE DEF GuardInv, TypeOK, CreateEvent, OpenFiles
<1>1. gfd # NoFd => gfd \in Fds /\ file[gfd] \in Events
  BY DEF GroupAccepted
<1>2. f \notin Owned /\ f \notin lost /\ file[f] = NoEvent
  BY DEF DescriptorsAccountedFor
<1>3. e # NoEvent
  BY GuardAssumption
<1>4. /\ file' \in [Fds -> Events \cup {NoEvent}]
      /\ OpenFiles' = OpenFiles \cup {f}
      /\ used' \subseteq Events
  BY <1>3
<1>5. (IF gfd = NoFd THEN e ELSE file[gfd]) \in Events \cup {NoEvent}
  BY <1>1
<1>6. leader' \in [Events -> Events \cup {NoEvent}]
  BY <1>5
<1>7. gfd # NoFd => gfd \in OpenFiles
  BY <1>1 DEF GroupAccepted
<1> QED BY <1>2, <1>3, <1>4, <1>6, <1>7 DEF Created

\* The guards that keep their descriptor keep their event and its group.
LEMMA CreateKeepsGroups ==
  ASSUME GuardInv, NEW gfd \in Fds \cup {NoFd}, NEW f \in Fds, NEW e \in Events,
         Created(f, e, gfd), NEW k \in live, Holds(k) # NoEvent
  PROVE  LET d == Holds(k)
             c == caller[d]
         IN  /\ file'[fd[k]] = d
             /\ d # e /\ d \in used
             /\ leader'[d] = IF c # NoEvent /\ \E x \in Fds : file'[x] = c THEN c ELSE d
<1> USE DEF GuardInv, TypeOK
<1>1. Holds(k) \in used /\ Holds(k) # e /\ file'[fd[k]] = Holds(k)
  BY CallerFacts DEF Created, Holds, Owned
<1>2. leader'[Holds(k)] = leader[Holds(k)]
  BY <1>1 DEF Created
<1>3. caller[Holds(k)] # NoEvent => caller[Holds(k)] # e
  BY <1>1 DEF CallersAreOlder, Created
<1>4. caller[Holds(k)] # NoEvent =>
        ((\E x \in Fds : file'[x] = caller[Holds(k)])
           <=> \E x \in Fds : file[x] = caller[Holds(k)])
  BY <1>3 DEF Created
<1> QED BY <1>1, <1>2, <1>4 DEF GroupFollowsCaller

-----------------------------------------------------------------------------
(* The steps *)

LEMMA StrandsKeepsInv ==
  ASSUME GuardInv, NEW g \in Guards, NEW gfd \in Fds \cup {NoFd},
         ConstructStrands(g, gfd)
  PROVE  GuardInv'
<1>1. PICK f \in Fds, e \in Events : CreateEvent(f, e, gfd) /\ lost' = lost \cup {f}
  BY DEF ConstructStrands
<1>2. live' = live /\ fd' = fd /\ caller' = caller
  BY DEF ConstructStrands
<1>3. Created(f, e, gfd)
  BY <1>1, CreateFacts
<1>4. TypeOK'
  BY <1>1, <1>2, <1>3 DEF Created, GuardInv, TypeOK
<1>5. DeadGuardsAreEmpty' /\ ExclusiveOwnership'
  BY <1>2 DEF GuardInv, DeadGuardsAreEmpty, ExclusiveOwnership
<1>6. DescriptorsAccountedFor'
  BY <1>1, <1>2, <1>3 DEF Created, GuardInv, DescriptorsAccountedFor, Owned
<1>7. FilesAreEvents'
  BY <1>3 DEF Created, GuardInv, TypeOK, FilesAreEvents, OpenFiles
<1>8. CallersAreOlder'
  BY <1>2, <1>3 DEF Created, GuardInv, CallersAreOlder
<1>9. GroupFollowsCaller'
  <2>1. ASSUME NEW k \in live PROVE Holds(k)' = Holds(k)
    BY <1>2, <1>3, <2>1 DEF Created, GuardInv, TypeOK, Holds, Owned
  <2> QED BY <1>2, <1>3, <2>1, CreateKeepsGroups DEF GroupFollowsCaller
<1> QED BY <1>4, <1>5, <1>6, <1>7, <1>8, <1>9 DEF GuardInv

LEMMA SucceedsKeepsInv ==
  ASSUME GuardInv, NEW g \in Guards, NEW gfd \in Fds \cup {NoFd},
         NEW via \in used \cup {NoEvent},
         gfd = NoFd <=> via = NoEvent, gfd # NoFd => file[gfd] = via,
         ConstructSucceeds(g, gfd, via)
  PROVE  GuardInv'
<1>1. PICK f \in Fds, e \in Events :
        /\ CreateEvent(f, e, gfd)
        /\ fd' = [fd EXCEPT ![g] = f]
        /\ caller' = [caller EXCEPT ![e] = via]
  BY DEF ConstructSucceeds
<1>2. g \notin live /\ live' = live \cup {g} /\ lost' = lost
  BY DEF ConstructSucceeds
<1>3. Created(f, e, gfd)
  BY <1>1, CreateFacts
<1>4. TypeOK'
  BY <1>1, <1>2, <1>3 DEF Created, GuardInv, TypeOK
<1>5. DeadGuardsAreEmpty'
  BY <1>1, <1>2 DEF GuardInv, TypeOK, DeadGuardsAreEmpty
<1>6. \A k \in live : fd'[k] = fd[k]
  BY <1>1, <1>2 DEF GuardInv, TypeOK
<1>7. fd'[g] = f /\ f # NoFd
  BY <1>1, GuardAssumption DEF GuardInv, TypeOK, NoFd
<1>8. Owned' = Owned \cup {f}
  BY <1>2, <1>6, <1>7 DEF Owned, NoFd
<1>9. ExclusiveOwnership'
  BY <1>2, <1>3, <1>6, <1>7 DEF Created, GuardInv, ExclusiveOwnership, Owned, NoFd
<1>10. DescriptorsAccountedFor'
  BY <1>2, <1>3, <1>8 DEF Created, GuardInv, DescriptorsAccountedFor
<1>11. FilesAreEvents'
  BY <1>3 DEF Created, GuardInv, TypeOK, FilesAreEvents, OpenFiles
<1>12. CallersAreOlder'
  BY <1>1, <1>3 DEF Created, GuardInv, TypeOK, CallersAreOlder
<1>13. GroupFollowsCaller'
  <2>1. ASSUME NEW k \in live PROVE Holds(k)' = Holds(k)
    BY <1>3, <1>6, <2>1 DEF Created, GuardInv, TypeOK, Holds, Owned, NoFd
  <2>2. Holds(g)' = e /\ caller'[e] = via
    BY <1>1, <1>3, <1>7 DEF Created, GuardInv, TypeOK, Holds, NoFd
  <2>3. \A k \in live : Holds(k) # NoEvent => caller'[Holds(k)] = caller[Holds(k)]
    BY <1>1, <1>3, CreateKeepsGroups DEF GuardInv, TypeOK
  <2>4. leader'[e] = IF via # NoEvent /\ \E x \in Fds : file'[x] = via THEN via ELSE e
    <3>1. CASE gfd = NoFd
      BY <1>3, <3>1 DEF Created, GuardInv, TypeOK
    <3>2. CASE gfd # NoFd
      <4>1. gfd \in Fds /\ gfd # f /\ file'[gfd] = via
        BY <1>3, <3>2 DEF Created, GuardInv, TypeOK, OpenFiles
      <4> QED BY <1>3, <3>2, <4>1 DEF Created, GuardInv, TypeOK
    <3> QED BY <3>1, <3>2
  <2> QED BY <1>2, <1>3, <2>1, <2>2, <2>3, <2>4, CreateKeepsGroups
       DEF GroupFollowsCaller
<1> QED BY <1>4, <1>5, <1>9, <1>10, <1>11, <1>12, <1>13 DEF GuardInv

\* Neither move closes or opens anything: the descriptors change places.
LEMMA MovesKeepInv ==
  ASSUME GuardInv, NEW g \in Guards, NEW h \in Guards,
         MoveConstruct(g, h) \/ MoveAssign(g, h)
  PROVE  GuardInv'
<1> USE DEF GuardInv, TypeOK
<1>1. UNCHANGED <<file, used, leader, caller, lost>>
  BY DEF MoveConstruct, MoveAssign
<1>2. fd' = [fd EXCEPT ![g] = fd[h], ![h] = fd[g]]
  BY DEF MoveConstruct, MoveAssign, DeadGuardsAreEmpty
<1>3. h \in live /\ live' = live \cup {g}
  BY DEF MoveConstruct, MoveAssign
<1>4. TypeOK'
  BY <1>1, <1>2, <1>3
<1>5. DeadGuardsAreEmpty'
  BY <1>2, <1>3 DEF DeadGuardsAreEmpty
<1>6. ExclusiveOwnership'
  BY <1>2, <1>3 DEF ExclusiveOwnership, DeadGuardsAreEmpty
<1>7. Owned' = Owned
  <2>1. Owned' \subseteq Owned
    BY <1>2, <1>3 DEF Owned, DeadGuardsAreEmpty
  <2>2. Owned \subseteq Owned'
    <3> SUFFICES ASSUME NEW k \in live, fd[k] # NoFd PROVE \E x \in live' : fd'[x] = fd[k]
      BY DEF Owned
    <3>1. CASE k = g
      BY <1>2, <1>3, <3>1
    <3>2. CASE k = h
      BY <1>2, <1>3, <3>2
    <3>3. CASE k # g /\ k # h
      BY <1>2, <1>3, <3>3
    <3> QED BY <3>1, <3>2, <3>3
  <2> QED BY <2>1, <2>2
<1>8. DescriptorsAccountedFor' /\ FilesAreEvents' /\ CallersAreOlder'
  BY <1>1, <1>7 DEF DescriptorsAccountedFor, FilesAreEvents, CallersAreOlder, OpenFiles
<1>9. GroupFollowsCaller'
  <2> SUFFICES ASSUME NEW k \in live', Holds(k)' # NoEvent
               PROVE  \E x \in live : Holds(x) = Holds(k)'
    BY <1>1 DEF GroupFollowsCaller
  <2>1. CASE k = g
    BY <1>1, <1>2, <1>3, <2>1 DEF Holds
  <2>2. CASE k = h /\ k # g
    BY <1>1, <1>2, <1>3, <2>2 DEF Holds, DeadGuardsAreEmpty
  <2>3. CASE k # g /\ k # h
    BY <1>1, <1>2, <1>3, <2>3 DEF Holds
  <2> QED BY <2>1, <2>2, <2>3
<1> QED BY <1>4, <1>5, <1>6, <1>8, <1>9

\* The closed event leaves; the guards that remain held other events.
LEMMA DestroyKeepsInv ==
  ASSUME GuardInv, NEW g \in Guards, Destroy(g)
  PROVE  GuardInv'
<1> USE DEF GuardInv, TypeOK
<1>1. /\ g \in live /\ live' = live \ {g}
      /\ fd' = [fd EXCEPT ![g] = NoFd]
      /\ UNCHANGED <<used, caller, lost>>
  BY DEF Destroy
<1>2. /\ TypeOK'
      /\ DeadGuardsAreEmpty'
      /\ ExclusiveOwnership'
      /\ CallersAreOlder'
  <2>1. file' \in [Fds -> Events \cup {NoEvent}]
    BY DEF Destroy, CloseFile
  <2>2. leader' \in [Events -> Events \cup {NoEvent}]
    BY DEF Destroy, CloseFile
  <2> QED BY <1>1, <2>1, <2>2 DEF DeadGuardsAreEmpty, ExclusiveOwnership, CallersAreOlder
<1>3. Owned' = Owned \ {fd[g]}
  BY <1>1 DEF Owned, ExclusiveOwnership
<1>4. CASE fd[g] = NoFd
  <2>1. UNCHANGED <<file, leader>>
    BY <1>4 DEF Destroy
  <2>2. Owned' = Owned
    BY <1>3, <1>4 DEF Owned
  <2>3. DescriptorsAccountedFor' /\ FilesAreEvents'
    BY <1>1, <2>1, <2>2 DEF DescriptorsAccountedFor, FilesAreEvents, OpenFiles
  <2>4. GroupFollowsCaller'
    BY <1>1, <2>1 DEF GroupFollowsCaller, Holds
  <2> QED BY <1>2, <2>3, <2>4
<1>5. CASE fd[g] # NoFd
  <2>1. CloseFile(fd[g]) /\ fd[g] \in Fds /\ fd[g] \in Owned /\ fd[g] \notin lost
    BY <1>1, <1>5 DEF Destroy, Owned, DescriptorsAccountedFor
  <2>2. OpenFiles' = OpenFiles \ {fd[g]} /\ file[fd[g]] # NoEvent
    BY <2>1 DEF OpenFiles, CloseFile, DescriptorsAccountedFor
  <2>3. DescriptorsAccountedFor'
    BY <1>1, <1>3, <2>1, <2>2 DEF DescriptorsAccountedFor
  <2>4. FilesAreEvents'
    BY <1>1, <2>1, <2>2 DEF FilesAreEvents, CloseFile, OpenFiles
  <2>5. GroupFollowsCaller'
    <3> SUFFICES ASSUME NEW k \in live', Holds(k)' # NoEvent
        PROVE  LET d == Holds(k)'
                   c == caller[d]
               IN  leader'[d] = IF c # NoEvent /\ \E x \in Fds : file'[x] = c THEN c ELSE d
      BY <1>1 DEF GroupFollowsCaller
    <3>1. k \in live /\ fd[k] # fd[g] /\ fd[k] # NoFd /\ Holds(k)' = Holds(k)
      BY <1>1, <1>5, <2>1 DEF Holds, ExclusiveOwnership, CloseFile
    <3>2. Holds(k) # file[fd[g]] /\ Holds(k) \in Events
      BY <3>1, <2>1 DEF Holds, FilesAreEvents, OpenFiles
    <3>3. leader[Holds(k)] = IF /\ caller[Holds(k)] # NoEvent
                                /\ \E x \in Fds : file[x] = caller[Holds(k)]
                             THEN caller[Holds(k)] ELSE Holds(k)
      BY <3>1 DEF GroupFollowsCaller
    <3>4. caller[Holds(k)] # NoEvent =>
            ((\E x \in Fds : file'[x] = caller[Holds(k)])
               <=> /\ caller[Holds(k)] # file[fd[g]]
                   /\ \E x \in Fds : file[x] = caller[Holds(k)])
      BY <2>1 DEF CloseFile, FilesAreEvents, OpenFiles
    <3>5. leader'[Holds(k)] = IF leader[Holds(k)] = file[fd[g]] THEN Holds(k)
                              ELSE leader[Holds(k)]
      BY <2>1, <3>2 DEF CloseFile
    <3>6. (\E x \in Fds : file[x] = file[fd[g]])
      BY <2>1
    <3> QED BY <3>1, <3>2, <3>3, <3>4, <3>5, <3>6
  <2> QED BY <1>2, <2>3, <2>4, <2>5
<1> QED BY <1>4, <1>5

LEMMA NextKeepsInv == GuardInv /\ [Next]_vars => GuardInv'
<1> SUFFICES ASSUME GuardInv, [Next]_vars PROVE GuardInv'
  OBVIOUS
<1>1. ASSUME NEW g \in Guards, NEW gfd \in Fds \cup {NoFd},
             NEW via \in used \cup {NoEvent},
             gfd = NoFd <=> via = NoEvent, gfd # NoFd => file[gfd] = via,
             Construct(g, gfd, via)
      PROVE  GuardInv'
  <2>1. CASE ConstructRefused(g, gfd)
    BY <2>1 DEF ConstructRefused, vars, GuardInv, TypeOK, DeadGuardsAreEmpty,
         ExclusiveOwnership, DescriptorsAccountedFor, FilesAreEvents,
         CallersAreOlder, GroupFollowsCaller, OpenFiles, Owned, Holds
  <2> QED BY <1>1, <2>1, StrandsKeepsInv, SucceedsKeepsInv DEF Construct
<1>2. ASSUME NEW g \in Guards, Open(g) PROVE GuardInv'
  BY <1>1, <1>2 DEF Open
<1>3. ASSUME NEW g \in Guards, NEW h \in Guards, OpenChild(h, g) PROVE GuardInv'
  BY <1>1, <1>3, CallerFacts DEF OpenChild, Holds
<1>4. CASE UNCHANGED vars
  BY <1>4 DEF vars, GuardInv, TypeOK, DeadGuardsAreEmpty,
       ExclusiveOwnership, DescriptorsAccountedFor, FilesAreEvents,
       CallersAreOlder, GroupFollowsCaller, OpenFiles, Owned, Holds
<1> QED BY <1>2, <1>3, <1>4, MovesKeepInv, DestroyKeepsInv DEF Next

-----------------------------------------------------------------------------
(* The theorems *)

(* Every variable of EventGuard keeps its type. *)
THEOREM TypeCorrect == Spec => []TypeOK
<1>1. GuardInv => TypeOK
  BY DEF GuardInv
<1> QED BY <1>1, InitGuardInv, NextKeepsInv, PTL DEF Spec

(* No sequence of opens, moves and destructions lets two live guards own one *)
(* descriptor, so that no event is closed under the guard that uses it.      *)
THEOREM GuardsOwnExclusively == Spec => []ExclusiveOwnership
<1>1. GuardInv => ExclusiveOwnership
  BY DEF GuardInv
<1> QED BY <1>1, InitGuardInv, NextKeepsInv, PTL DEF Spec

(* The open descriptors are those of the live guards and those a throwing    *)
(* constructor stranded: nothing else leaks and nothing dangles.             *)
THEOREM NothingElseLeaks == Spec => []DescriptorsAccountedFor
<1>1. GuardInv => DescriptorsAccountedFor
  BY DEF GuardInv
<1> QED BY <1>1, InitGuardInv, NextKeepsInv, PTL DEF Spec

(* An event opened by open_child stays in the group of the event it was      *)
(* opened through for as long as that one is open.                           *)
THEOREM GroupsFollowCallers == Spec => []GroupFollowsCaller
<1>1. GuardInv => GroupFollowsCaller
  BY DEF GuardInv
<1> QED BY <1>1, InitGuardInv, NextKeepsInv, PTL DEF Spec

-----------------------------------------------------------------------------
(* The refinement of HandleOwnership *)

LEMMA InitRefines == Init => Ownership!HInit
  BY GuardAssumption DEF Init, Ownership!HInit, Holds, StatusOf, NoFd

LEMMA StrandsRefines ==
  ASSUME GuardInv, NEW g \in Guards, NEW gfd \in Fds \cup {NoFd},
         ConstructStrands(g, gfd)
  PROVE  Ownership!HNext
<1> USE DEF GuardInv, TypeOK
<1>1. PICK f \in Fds, e \in Events : CreateEvent(f, e, gfd) /\ lost' = lost \cup {f}
  BY DEF ConstructStrands
<1>2. live' = live /\ fd' = fd
  BY DEF ConstructStrands
<1>3. Created(f, e, gfd)
  BY <1>1, CreateFacts
<1>4. \A k \in Guards : Holds(k)' = Holds(k) /\ Holds(k) # e
  BY <1>2, <1>3, CallerFacts DEF Created, Holds, OpenFiles
<1>5. StatusOf(e) = "fresh" /\ StatusOf(e)' = "stranded"
  BY <1>1, <1>3 DEF Created, StatusOf
<1>6. ASSUME NEW d \in Events, d # e PROVE StatusOf(d)' = StatusOf(d)
  <2>1. (\E x \in lost' : file'[x] = d) <=> (\E x \in lost : file[x] = d)
    BY <1>1, <1>3, <1>6 DEF Created
  <2>2. d \in used' <=> d \in used
    BY <1>3, <1>6 DEF Created
  <2>3. (\E k \in live' : Holds(k)' = d) <=> (\E k \in live : Holds(k) = d)
    BY <1>2, <1>4
  <2> QED BY <2>1, <2>2, <2>3 DEF StatusOf
<1>7. Ownership!Strand(e)
  BY <1>2, <1>4, <1>5, <1>6 DEF Ownership!Strand
<1> QED BY <1>7 DEF Ownership!HNext

LEMMA SucceedsRefines ==
  ASSUME GuardInv, NEW g \in Guards, NEW gfd \in Fds \cup {NoFd},
         NEW via, ConstructSucceeds(g, gfd, via)
  PROVE  Ownership!HNext
<1> USE DEF GuardInv, TypeOK
<1>1. PICK f \in Fds, e \in Events :
        /\ CreateEvent(f, e, gfd)
        /\ fd' = [fd EXCEPT ![g] = f]
  BY DEF ConstructSucceeds
<1>2. g \notin live /\ live' = live \cup {g} /\ lost' = lost
  BY DEF ConstructSucceeds
<1>3. Created(f, e, gfd) /\ f # NoFd
  BY <1>1, CreateFacts, GuardAssumption DEF NoFd
<1>4. \A k \in Guards : Holds(k)' = (IF k = g THEN e ELSE Holds(k))
  BY <1>1, <1>2, <1>3, CallerFacts DEF Created, Holds, OpenFiles
<1>5. \A k \in Guards : Holds(k) # e
  BY <1>3, CallerFacts DEF Created
<1>6. StatusOf(e) = "fresh" /\ StatusOf(e)' = "held"
  <2>1. ~ \E x \in lost' : file'[x] = e
    BY <1>2, <1>3 DEF Created, FilesAreEvents, DescriptorsAccountedFor
  <2> QED BY <1>2, <1>3, <1>4, <2>1 DEF Created, StatusOf
<1>7. ASSUME NEW d \in Events, d # e PROVE StatusOf(d)' = StatusOf(d)
  <2>1. (\E x \in lost' : file'[x] = d) <=> (\E x \in lost : file[x] = d)
    BY <1>2, <1>3, <1>7 DEF Created
  <2>2. d \in used' <=> d \in used
    BY <1>3, <1>7 DEF Created
  <2>3. (\E k \in live' : Holds(k)' = d) <=> (\E k \in live : Holds(k) = d)
    BY <1>2, <1>4, <1>7
  <2> QED BY <2>1, <2>2, <2>3 DEF StatusOf
<1>8. Ownership!Acquire(g, e)
  BY <1>2, <1>4, <1>5, <1>6, <1>7 DEF Ownership!Acquire
<1> QED BY <1>8 DEF Ownership!HNext

LEMMA MovesRefine ==
  ASSUME GuardInv, NEW g \in Guards, NEW h \in Guards,
         MoveConstruct(g, h) \/ MoveAssign(g, h)
  PROVE  Ownership!Transfer(g, h) \/ Ownership!Exchange(g, h)
<1> USE DEF GuardInv, TypeOK
<1>1. UNCHANGED <<file, used, lost>>
  BY DEF MoveConstruct, MoveAssign
<1>2. fd' = [fd EXCEPT ![g] = fd[h], ![h] = fd[g]]
  BY DEF MoveConstruct, MoveAssign, DeadGuardsAreEmpty
<1>3. h \in live /\ live' = live \cup {g}
  BY DEF MoveConstruct, MoveAssign
<1>4. \A k \in Guards : Holds(k)' = (IF k = h THEN Holds(g)
                                     ELSE IF k = g THEN Holds(h) ELSE Holds(k))
  BY <1>1, <1>2 DEF Holds
<1>5. ASSUME NEW d \in Events PROVE StatusOf(d)' = StatusOf(d)
  <2>1. d # NoEvent
    BY GuardAssumption
  <2>2. g \notin live => Holds(g) = NoEvent
    BY DEF Holds, DeadGuardsAreEmpty
  <2>3. (\E k \in live' : Holds(k)' = d) <=> (\E k \in live : Holds(k) = d)
    BY <1>3, <1>4, <2>1, <2>2
  <2> QED BY <1>1, <2>3 DEF StatusOf
<1>6. CASE MoveConstruct(g, h)
  <2>1. g \notin live /\ Holds(g) = NoEvent /\ g # h
    BY <1>6 DEF MoveConstruct, Holds, DeadGuardsAreEmpty
  <2> QED BY <1>3, <1>4, <1>5, <2>1 DEF Ownership!Transfer
<1>7. CASE MoveAssign(g, h)
  <2>1. {g, h} \subseteq live /\ live' = live
    BY <1>7 DEF MoveAssign
  <2> QED BY <1>4, <1>5, <2>1 DEF Ownership!Exchange
<1> QED BY <1>6, <1>7

LEMMA DestroyRefines ==
  ASSUME GuardInv, NEW g \in Guards, Destroy(g)
  PROVE  Ownership!Release(g)
<1> USE DEF GuardInv, TypeOK
<1>1. /\ g \in live /\ live' = live \ {g}
      /\ fd' = [fd EXCEPT ![g] = NoFd]
      /\ UNCHANGED <<used, lost>>
  BY DEF Destroy
<1>2. file' = [f \in Fds |-> IF f = fd[g] THEN NoEvent ELSE file[f]]
  <2>1. CASE fd[g] = NoFd
    BY <2>1, GuardAssumption DEF Destroy, NoFd
  <2>2. CASE fd[g] # NoFd
    BY <2>2 DEF Destroy, CloseFile
  <2> QED BY <2>1, <2>2
<1>3. \A k \in live \ {g} : fd[k] # NoFd => fd[k] # fd[g]
  BY <1>1 DEF ExclusiveOwnership
<1>4. \A k \in Guards : Holds(k)' = (IF k = g THEN NoEvent ELSE Holds(k))
  <2>1. \A k \in live \ {g} : Holds(k)' = Holds(k)
    BY <1>1, <1>2, <1>3 DEF Holds
  <2>2. \A k \in Guards \ live : Holds(k) = NoEvent /\ Holds(k)' = NoEvent
    BY <1>1 DEF Holds, DeadGuardsAreEmpty
  <2>3. Holds(g)' = NoEvent
    BY <1>1 DEF Holds
  <2> QED BY <2>1, <2>2, <2>3
<1>5. \A x \in lost : file'[x] = file[x]
  <2>1. fd[g] \notin lost
    BY <1>1, GuardAssumption DEF DescriptorsAccountedFor, Owned, NoFd
  <2> QED BY <1>2, <2>1
<1>6. ASSUME NEW d \in Events
      PROVE  StatusOf(d)' = IF d = Holds(g) THEN "released" ELSE StatusOf(d)
  <2>1. d # NoEvent
    BY GuardAssumption
  <2>2. (\E x \in lost' : file'[x] = d) <=> (\E x \in lost : file[x] = d)
    BY <1>1, <1>5
  <2>3. CASE d = Holds(g)
    <3>1. fd[g] \in Owned /\ fd[g] \in OpenFiles /\ file[fd[g]] = d /\ d \in used
      BY <1>1, <2>1, <2>3, CallerFacts DEF Holds, Owned
    <3>2. ~ \E x \in lost : file[x] = d
      BY <3>1 DEF DescriptorsAccountedFor, FilesAreEvents
    <3>3. ~ \E k \in live' : Holds(k)' = d
      <4> SUFFICES ASSUME NEW k \in live \ {g}, Holds(k) = d PROVE FALSE
        BY <1>1, <1>4
      <4>1. fd[k] \in OpenFiles /\ file[fd[k]] = d /\ fd[k] # fd[g]
        BY <1>3, <2>1, CallerFacts DEF Holds
      <4> QED BY <3>1, <4>1 DEF FilesAreEvents
    <3> QED BY <1>1, <2>2, <2>3, <3>1, <3>2, <3>3 DEF StatusOf
  <2>4. CASE d # Holds(g)
    <3>1. (\E k \in live' : Holds(k)' = d) <=> (\E k \in live : Holds(k) = d)
      BY <1>1, <1>4, <2>4
    <3> QED BY <1>1, <2>2, <2>4, <3>1 DEF StatusOf
  <2> QED BY <2>3, <2>4
<1> QED BY <1>1, <1>4, <1>6 DEF Ownership!Release

LEMMA StutterRefines ==
  ASSUME UNCHANGED vars PROVE UNCHANGED Ownership!hvars
  BY DEF vars, Ownership!hvars, Holds, StatusOf

LEMMA NextRefines == GuardInv /\ [Next]_vars => [Ownership!HNext]_(Ownership!hvars)
<1> SUFFICES ASSUME GuardInv, [Next]_vars
             PROVE  Ownership!HNext \/ UNCHANGED Ownership!hvars
  OBVIOUS
<1>1. ASSUME NEW g \in Guards, NEW gfd \in Fds \cup {NoFd}, NEW via,
             Construct(g, gfd, via)
      PROVE  Ownership!HNext \/ UNCHANGED Ownership!hvars
  BY <1>1, StrandsRefines, SucceedsRefines, StutterRefines
     DEF Construct, ConstructRefused
<1>2. ASSUME NEW g \in Guards, NEW h \in Guards, Open(g) \/ OpenChild(h, g)
      PROVE  Ownership!HNext \/ UNCHANGED Ownership!hvars
  BY <1>1, <1>2, CallerFacts DEF Open, OpenChild
<1>3. ASSUME NEW g \in Guards, NEW h \in Guards, MoveConstruct(g, h) \/ MoveAssign(g, h)
      PROVE  Ownership!HNext
  BY <1>3, MovesRefine DEF Ownership!HNext
<1>4. ASSUME NEW g \in Guards, Destroy(g) PROVE Ownership!HNext
  BY <1>4, DestroyRefines DEF Ownership!HNext
<1> QED BY <1>2, <1>3, <1>4, StutterRefines DEF Next

(* EventGuard implements HandleOwnership: although the kernel reuses          *)
(* descriptor numbers, the guards behave as owners of the events themselves.  *)
THEOREM GuardsImplementOwnership == Spec => ImplementsOwnership
<1> QED BY InitGuardInv, NextKeepsInv, InitRefines, NextRefines, PTL
        DEF Spec, ImplementsOwnership, Ownership!HSpec
=============================================================================
