--------------------------- MODULE HandleOwnership ---------------------------
(***************************************************************************)
(* What a set of EventGuard objects promises, with no descriptor in sight:  *)
(* a kernel event is acquired once, is held by one handle at a time, changes *)
(* hands only by a move, is released once and is never heard of again.       *)
(* EventGuard.tla implements this with integer descriptors that the kernel   *)
(* reuses; the implementation is checked and proved there.                   *)
(***************************************************************************)
CONSTANTS Guards,     \* places an EventGuard object can be built in
          Events,     \* identities of kernel events
          NoEvent     \* what an empty handle holds

VARIABLES alive,      \* the handles that exist
          holds,      \* holds[g] : the event in handle g, or NoEvent
          status      \* status[e] : how far event e has come in its life

hvars == <<alive, holds, status>>

Status == {"fresh", "held", "released", "stranded"}

HInit ==
  /\ alive = {}
  /\ holds = [g \in Guards |-> NoEvent]
  /\ status = [e \in Events |-> "fresh"]

\* A new handle takes a fresh event.
Acquire(g, e) ==
  /\ g \notin alive
  /\ status[e] = "fresh"
  /\ alive' = alive \cup {g}
  /\ holds' = [holds EXCEPT ![g] = e]
  /\ status' = [status EXCEPT ![e] = "held"]

\* An event comes into being and no handle takes it.
Strand(e) ==
  /\ status[e] = "fresh"
  /\ status' = [status EXCEPT ![e] = "stranded"]
  /\ UNCHANGED <<alive, holds>>

\* A new handle takes over what another one holds, if anything.
Transfer(g, h) ==
  /\ g \notin alive /\ h \in alive
  /\ alive' = alive \cup {g}
  /\ holds' = [holds EXCEPT ![g] = holds[h], ![h] = NoEvent]
  /\ UNCHANGED status

\* Two handles exchange what they hold.
Exchange(g, h) ==
  /\ {g, h} \subseteq alive
  /\ holds' = [holds EXCEPT ![g] = holds[h], ![h] = holds[g]]
  /\ UNCHANGED <<alive, status>>

\* A handle dies, and its event with it.
Release(g) ==
  /\ g \in alive
  /\ alive' = alive \ {g}
  /\ holds' = [holds EXCEPT ![g] = NoEvent]
  /\ status' = [e \in Events |-> IF e = holds[g] THEN "released" ELSE status[e]]

HNext ==
  \/ \E g \in Guards, e \in Events : Acquire(g, e)
  \/ \E e \in Events : Strand(e)
  \/ \E g, h \in Guards : Transfer(g, h) \/ Exchange(g, h)
  \/ \E g \in Guards : Release(g)

HSpec == HInit /\ [][HNext]_hvars
=============================================================================
