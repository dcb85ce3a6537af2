---------------------------- MODULE MCEventControl ----------------------------
(* EventControl for TLC.  Guards and events are interchangeable.  What an event  *)
(* is set to does not depend on what others are, nor on its flags, so that it is   *)
(* enough to have one event at a time redirected or filtered, and while no flag    *)
(* is set.                                                                       *)
EXTENDS EventControl, TLC

CONSTANT a1

Symmetry == Permutations(Guards) \cup Permutations(Events)

FewSettings ==
  LET set == {e \in Events : output[e] # NoEvent \/ filter[e] # {}}
  IN  /\ Cardinality(set) <= 1
      /\ set # {} => (attr[a1] \cup UNION {made[e] : e \in Events}) \cap Setters = {}

\* Of an EventAttr other than a1 nothing is asked.  enable_on_exec comes on top of
\* disabled: to an event that is opened enabled it does nothing.
FewFlags ==
  /\ \A a \in Attrs \ {a1} : attr[a] = {}
  /\ "enable_on_exec" \in attr[a1] => "disabled" \in attr[a1]

\* The kernel hands out the lowest descriptor that is free.
LowestFree ==
  \A f \in Fds : file[f] = NoEvent /\ file'[f] # NoEvent =>
    \A d \in Fds : d < f => file[d] # NoEvent

NoFormats == {{}}
=============================================================================
