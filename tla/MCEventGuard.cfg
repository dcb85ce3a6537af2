\* Three places for guards and as many descriptors; four events, so that every
\* descriptor number can be reused.
CONSTANTS
  Guards = {g1, g2, g3}
  Fds = {3, 4, 5}
  Events = {e1, e2, e3, e4}
  NoEvent = NoEvent
SPECIFICATION Spec
INVARIANTS
  TypeOK
  ExclusiveOwnership
  DescriptorsAccountedFor
  GroupFollowsCaller
PROPERTY ImplementsOwnership
