CONSTANTS
  Guards = {g1, g2}
  Fds = {3, 4, 5}
  Events = {e1, e2, e3}
  NoEvent = NoEvent
  a1 = a1
  Attrs = {a1}
  Setters = {"disabled"}
  Formats <- NoFormats
  Syscalls = {s1}
SYMMETRY Symmetry
CONSTRAINT FewSettings
ACTION_CONSTRAINT LowestFree
SPECIFICATION CSpec
INVARIANT DisabledUntilEnabled
