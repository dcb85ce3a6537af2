------------------------------ MODULE EventGuard ------------------------------
(***************************************************************************)
(* perf_cpp::EventGuard: the object that owns one perf_event descriptor.     *)
(* It is built by EventAttr::open and EventGuard::open_child, moved by the    *)
(* move constructor and the move assignment, and closes its descriptor when   *)
(* it is destroyed.  The kernel's half is modelled from the system calls the  *)
(* library makes: a table of descriptors whose numbers are reused, and the    *)
(* event groups.                                                             *)
(***************************************************************************)
EXTENDS Integers, FiniteSets

CONSTANTS Guards,     \* places an EventGuard object can be built in
          Fds,        \* descriptors the process can have open (RLIMIT_NOFILE)
          Events,     \* identities of kernel events: bounds the number of opens
          NoEvent     \* not an event

ASSUME GuardAssumption ==
  /\ Fds \subseteq Nat
  /\ NoEvent \notin Events

VARIABLES
  live,     \* the EventGuard objects that exist
  fd,       \* fd[g] : the member fd_ of g
  file,     \* file[f] : the event descriptor f refers to in the kernel
  used,     \* the events created so far
  leader,   \* leader[e] : the group leader of e, NoEvent when e is not open
  caller,   \* history: the event in the guard e was opened through
  lost      \* history: descriptors a throwing constructor left open

vars == <<live, fd, file, used, leader, caller, lost>>

\* The value of fd_ in a guard that owns nothing.
NoFd == -1

OpenFiles == {f \in Fds : file[f] # NoEvent}

\* The event a guard refers to, through whatever its descriptor now means.
Holds(g) == IF fd[g] = NoFd THEN NoEvent ELSE file[fd[g]]

TypeOK ==
  /\ live \subseteq Guards
  /\ fd \in [Guards -> Fds \cup {NoFd}]
  /\ file \in [Fds -> Events \cup {NoEvent}]
  /\ used \subseteq Events
  /\ leader \in [Events -> Events \cup {NoEvent}]
  /\ caller \in [Events -> Events \cup {NoEvent}]
  /\ lost \subseteq Fds

Init ==
  /\ live = {}
  /\ fd = [g \in Guards |-> NoFd]
  /\ file = [f \in Fds |-> NoEvent]
  /\ used = {}
  /\ leader = [e \in Events |-> NoEvent]
  /\ caller = [e \in Events |-> NoEvent]
  /\ lost = {}

-----------------------------------------------------------------------------
(* The kernel *)

\* perf_event_open refuses a group descriptor that is no group leader; -1
\* asks for an event in a group of its own.
GroupAccepted(gfd) ==
  gfd # NoFd => file[gfd] # NoEvent /\ leader[file[gfd]] = file[gfd]

\* perf_event_open succeeds: event e appears behind the free descriptor f.
CreateEvent(f, e, gfd) ==
  /\ f \notin OpenFiles /\ e \notin used
  /\ GroupAccepted(gfd)
  /\ file' = [file EXCEPT ![f] = e]
  /\ used' = used \cup {e}
  /\ leader' = [leader EXCEPT ![e] = IF gfd = NoFd THEN e ELSE file[gfd]]

\* close(f): the event goes, and if it led a group its siblings are now
\* leaders of themselves.
CloseFile(f) ==
  /\ file' = [file EXCEPT ![f] = NoEvent]
  /\ leader' = [e \in Events |->
                  IF e = file[f] THEN NoEvent
                  ELSE IF leader[e] = file[f] THEN e
                  ELSE leader[e]]

-----------------------------------------------------------------------------
(* The constructor *)

\* perf_event_open returned -1: throw_errno, and no object.
ConstructRefused(g, gfd) ==
  /\ g \notin live
  /\ UNCHANGED vars

\* fcntl(O_NONBLOCK) failed: throw_errno out of the constructor, so the
\* destructor does not run and the descriptor stays open.
ConstructStrands(g, gfd) ==
  /\ g \notin live
  /\ \E f \in Fds, e \in Events : CreateEvent(f, e, gfd) /\ lost' = lost \cup {f}
  /\ UNCHANGED <<live, fd, caller>>

ConstructSucceeds(g, gfd, via) ==
  /\ g \notin live
  /\ \E f \in Fds, e \in Events :
       /\ CreateEvent(f, e, gfd)
       /\ fd' = [fd EXCEPT ![g] = f]
       /\ caller' = [caller EXCEPT ![e] = via]
  /\ live' = live \cup {g}
  /\ UNCHANGED lost

Construct(g, gfd, via) ==
  \/ ConstructRefused(g, gfd)
  \/ ConstructStrands(g, gfd)
  \/ ConstructSucceeds(g, gfd, via)

-----------------------------------------------------------------------------
(* The operations *)

\* EventAttr::open and open_as_group_leader: no group descriptor.
Open(g) == Construct(g, NoFd, NoEvent)

\* Mutant: the child is opened in a group of its own.
OpenChildForgetsGroup(h, g) == h \in live /\ Construct(g, NoFd, Holds(h))

\* EventGuard::open_child: the calling guard's descriptor names the group.
OpenChild(h, g) == h \in live /\ Construct(g, fd[h], Holds(h))

\* Mutant: the descriptor is copied, not taken.
MoveCopies(g, h) ==
  /\ g \notin live /\ h \in live
  /\ live' = live \cup {g}
  /\ fd' = [fd EXCEPT ![g] = fd[h]]
  /\ UNCHANGED <<file, used, leader, caller, lost>>

\* Mutant: the other guard is left with descriptor 0.
MoveLeavesZero(g, h) ==
  /\ g \notin live /\ h \in live
  /\ live' = live \cup {g}
  /\ fd' = [fd EXCEPT ![g] = fd[h], ![h] = 0]
  /\ UNCHANGED <<file, used, leader, caller, lost>>

\* The move constructor: fd_ starts at -1 and is swapped with the other's.
MoveConstruct(g, h) ==
  /\ g \notin live /\ h \in live
  /\ live' = live \cup {g}
  /\ fd' = [fd EXCEPT ![g] = fd[h], ![h] = NoFd]
  /\ UNCHANGED <<file, used, leader, caller, lost>>

\* Mutant: the descriptor that was held is forgotten.
AssignOverwrites(g, h) ==
  /\ {g, h} \subseteq live
  /\ fd' = IF g = h THEN fd ELSE [fd EXCEPT ![g] = fd[h], ![h] = NoFd]
  /\ UNCHANGED <<live, file, used, leader, caller, lost>>

\* The move assignment swaps, and so closes nothing; g = h is allowed.
MoveAssign(g, h) ==
  /\ {g, h} \subseteq live
  /\ fd' = [fd EXCEPT ![g] = fd[h], ![h] = fd[g]]
  /\ UNCHANGED <<live, file, used, leader, caller, lost>>

\* The destructor closes the descriptor unless it is -1.
Destroy(g) ==
  /\ g \in live
  /\ live' = live \ {g}
  /\ fd' = [fd EXCEPT ![g] = NoFd]
  /\ IF fd[g] = NoFd THEN UNCHANGED <<file, leader>> ELSE CloseFile(fd[g])
  /\ UNCHANGED <<used, caller, lost>>

Next ==
  \E g \in Guards :
    \/ Open(g)
    \/ \E h \in Guards : OpenChild(h, g)
    \/ \E h \in Guards : MoveConstruct(g, h)
    \/ \E h \in Guards : MoveAssign(g, h)
    \/ Destroy(g)

Spec == Init /\ [][Next]_vars

-----------------------------------------------------------------------------
(* Properties *)

\* The descriptors of the live guards.
Owned == {fd[g] : g \in live} \ {NoFd}

(* No two live guards ever own the same descriptor, whatever sequence of    *)
(* moves and destructions produced them: the closing of one never closes    *)
(* the event of another (move operations and destructor of EventGuard).     *)
ExclusiveOwnership ==
  \A g, h \in live : fd[g] = fd[h] /\ fd[g] # NoFd => g = h

(* Descriptors are accounted for: the open ones are those the live guards    *)
(* own plus those a constructor left behind when fcntl failed after          *)
(* perf_event_open had succeeded, and nothing is in both.  So no guard       *)
(* dangles, and a leak has that one cause.                                   *)
DescriptorsAccountedFor ==
  /\ OpenFiles = Owned \cup lost
  /\ Owned \cap lost = {}

(* An event opened by open_child counts in the group of the event in the     *)
(* calling guard for as long as that one is open, through every move of      *)
(* either guard, and leads a group of its own once it is closed.  Opened     *)
(* through a guard that owns nothing it is silently its own leader.          *)
GroupFollowsCaller ==
  \A g \in live : Holds(g) # NoEvent =>
    LET e == Holds(g)
        c == caller[e]
    IN  leader[e] = IF c # NoEvent /\ \E f \in Fds : file[f] = c THEN c ELSE e

-----------------------------------------------------------------------------
(* Implementation of HandleOwnership *)

StatusOf(e) ==
  IF e \notin used THEN "fresh"
  ELSE IF \E f \in lost : file[f] = e THEN "stranded"
  ELSE IF \E g \in live : Holds(g) = e THEN "held"
  ELSE "released"

Ownership == INSTANCE HandleOwnership
               WITH alive  <- live,
                    holds  <- [g \in Guards |-> Holds(g)],
                    status <- [e \in Events |-> StatusOf(e)]

(* Descriptor numbers are reused by the kernel, yet to their callers the     *)
(* guards behave as owners of the events themselves: see HandleOwnership.    *)
ImplementsOwnership == Ownership!HSpec
=============================================================================
