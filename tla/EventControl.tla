----------------------------- MODULE EventControl -----------------------------
(***************************************************************************)
(* What EventAttr and EventGuard objects do together.  The setters and        *)
(* open_as_group_leader leave flags in an EventAttr, which every later open    *)
(* hands to the kernel; the guards switch their events on and off, redirect    *)
(* their records, filter them and read them.  EventGuard is extended by the    *)
(* state this needs: whatever is done here, the descriptors behave as there.   *)
(***************************************************************************)
EXTENDS EventGuard

CONSTANTS Attrs,     \* EventAttr objects
          Setters,   \* flags the set_... methods of EventAttr set for good
          Formats,   \* what set_read_format is called with: the format of a
                     \* group or not; those that lengthen a value are left out
          Syscalls   \* numbers a system call filter can name

ASSUME ControlAssumption ==
  /\ IsFiniteSet(Guards) /\ IsFiniteSet(Events)
  /\ Formats \subseteq SUBSET {"FORMAT_GROUP"}
  /\ "FORMAT_GROUP" \notin Setters

VARIABLES
  attr,      \* attr[a] : the flags set in attr_ of the EventAttr a
  made,      \* made[e] : the flags the open event e has
  on,        \* the open events that are enabled
  armed,     \* the open events that the kernel enables on the next exec
  output,    \* output[e] : the event whose buffer e's records go to, if any
  filter,    \* filter[e] : the system calls e is filtered for, if any
  grouped,   \* history: the EventAttrs that were given the format of a group
  plain,     \* history: the open events of EventAttrs that had not been, till then
  joined,    \* history: the leader e was opened under
  headed,    \* history: the open events that open_as_group_leader opened
  woken      \* history: the events whose own guard was enabled

control == <<made, on, armed, output, filter, plain, joined, headed, woken>>
cvars == <<vars, attr, grouped, control>>

\* What open_as_group_leader sets in read_format and sample_type.
LeaderFlags == {"FORMAT_GROUP", "SAMPLE_READ"}

\* The flags a user can ask for.
Askable == Setters \cup UNION Formats

Flags == LeaderFlags \cup Askable

CTypeOK ==
  /\ TypeOK
  /\ attr \in [Attrs -> SUBSET Flags]
  /\ grouped \subseteq Attrs
  /\ made \in [Events -> SUBSET Flags]
  /\ joined \in [Events -> Events \cup {NoEvent}]
  /\ output \in [Events -> Events \cup {NoEvent}]
  /\ filter \in [Events -> SUBSET Syscalls]
  /\ {on, armed, plain, headed, woken} \subseteq SUBSET Events

CInit ==
  /\ Init
  /\ attr = [a \in Attrs |-> {}]
  /\ grouped = {}
  /\ made = [e \in Events |-> {}]
  /\ joined = [e \in Events |-> NoEvent]
  /\ output = [e \in Events |-> NoEvent]
  /\ filter = [e \in Events |-> {}]
  /\ on = {} /\ armed = {} /\ plain = {} /\ headed = {} /\ woken = {}

-----------------------------------------------------------------------------
(* The attributes *)

\* set_disabled, set_enable_on_exec, set_comm and the like, and set_sample_type:
\* none of them can be taken back.
SetFlag(a, x) ==
  /\ attr' = [attr EXCEPT ![a] = @ \cup {x}]
  /\ UNCHANGED <<vars, grouped, control>>

\* set_read_format replaces the whole of read_format.
SetReadFormat(a, format) ==
  /\ attr' = [attr EXCEPT ![a] = (@ \ {"FORMAT_GROUP"}) \cup format]
  /\ grouped' = IF format = {} THEN grouped ELSE grouped \cup {a}
  /\ UNCHANGED <<vars, control>>

-----------------------------------------------------------------------------
(* Opening *)

\* What else is known of the events that appear.
Records(a, new, heads) ==
  /\ plain' = IF a \in grouped' THEN plain ELSE plain \cup new
  /\ joined' = [e \in Events |-> IF e \in new THEN leader'[e] ELSE joined[e]]
  /\ headed' = IF heads THEN headed \cup new ELSE headed

\* Mutant: every event starts counting at once.
AdoptEnabled(a, flags, heads) ==
  LET new == used' \ used
  IN  /\ made' = [e \in Events |-> IF e \in new THEN flags ELSE made[e]]
      /\ on' = on \cup new
      /\ armed' = IF "enable_on_exec" \in flags THEN armed \cup new ELSE armed
      /\ Records(a, new, heads)
      /\ UNCHANGED <<output, filter, woken>>

\* The event that appears, if one does, takes the flags as they are: it counts
\* from now on unless it is opened disabled, and if it is to be enabled on exec,
\* it waits for that.
Adopt(a, flags, heads) ==
  LET new == used' \ used
  IN  /\ made' = [e \in Events |-> IF e \in new THEN flags ELSE made[e]]
      /\ on' = IF "disabled" \in flags THEN on ELSE on \cup new
      /\ armed' = IF "enable_on_exec" \in flags THEN armed \cup new ELSE armed
      /\ Records(a, new, heads)
      /\ UNCHANGED <<output, filter, woken>>

OpenPlain(g, a) ==
  /\ Open(g)
  /\ UNCHANGED <<attr, grouped>>
  /\ Adopt(a, attr[a], FALSE)

\* Mutant: the flags are set once the event is open.
FormatsTooLate(g, a) ==
  /\ attr' = [attr EXCEPT ![a] = @ \cup LeaderFlags]
  /\ grouped' = grouped \cup {a}
  /\ Open(g)
  /\ Adopt(a, attr[a], TRUE)

\* EventAttr::open_as_group_leader: the flags stay in the EventAttr, also when
\* the open fails.
OpenAsGroupLeader(g, a) ==
  /\ attr' = [attr EXCEPT ![a] = @ \cup LeaderFlags]
  /\ grouped' = grouped \cup {a}
  /\ Open(g)
  /\ Adopt(a, attr'[a], TRUE)

\* Mutant: the child reads in the format of its leader.
ChildLikeItsLeader(h, g, a) ==
  /\ OpenChild(h, g)
  /\ UNCHANGED <<attr, grouped>>
  /\ Adopt(a, attr[a] \cup (IF fd[h] = NoFd THEN {} ELSE made[Holds(h)]), FALSE)

OpenAsChild(h, g, a) ==
  /\ OpenChild(h, g)
  /\ UNCHANGED <<attr, grouped>>
  /\ Adopt(a, attr[a], FALSE)

-----------------------------------------------------------------------------
(* Moving and closing *)

Move(g, h) ==
  /\ MoveConstruct(g, h) \/ MoveAssign(g, h)
  /\ UNCHANGED <<attr, grouped, control>>

\* What is known of a closed event goes with it.  A buffer stays with the events
\* that write to it.
Close(g) ==
  LET kept(fn, nothing) == [e \in Events |-> IF e = Holds(g) THEN nothing ELSE fn[e]]
  IN  /\ Destroy(g)
      /\ on' = on \ {Holds(g)} /\ armed' = armed \ {Holds(g)}
      /\ plain' = plain \ {Holds(g)} /\ headed' = headed \ {Holds(g)}
      /\ made' = kept(made, {})
      /\ output' = kept(output, NoEvent) /\ filter' = kept(filter, {})
      /\ UNCHANGED <<attr, grouped, joined, woken>>

-----------------------------------------------------------------------------
(* Control *)

Group(e) == {d \in Events : leader[d] = leader[e]}

\* The events that PERF_EVENT_IOC_ENABLE and _DISABLE reach.  The kernel takes
\* the third argument of ioctl for a word of flags, and for one that says the
\* whole group; the library passes no third argument, so the word is undefined.
Reached(e) == {{e}, Group(e)}

\* Mutant: every event there is is switched.
EnableEverything(g) ==
  /\ g \in live /\ fd[g] # NoFd
  /\ on' = {e \in Events : leader[e] # NoEvent}
  /\ woken' = woken \cup {Holds(g)}
  /\ UNCHANGED <<vars, attr, grouped, made, armed, output, filter, plain, joined, headed>>

Enable(g) ==
  /\ g \in live /\ fd[g] # NoFd
  /\ \E es \in Reached(Holds(g)) : on' = on \cup es
  /\ woken' = woken \cup {Holds(g)}
  /\ UNCHANGED <<vars, attr, grouped, made, armed, output, filter, plain, joined, headed>>

\* Mutant: the request is that of enable.
DisableEnables(g) ==
  /\ g \in live /\ fd[g] # NoFd
  /\ \E es \in Reached(Holds(g)) : on' = on \cup es
  /\ UNCHANGED <<vars, attr, grouped, made, armed, output, filter, plain, joined, headed, woken>>

Disable(g) ==
  /\ g \in live /\ fd[g] # NoFd
  /\ \E es \in Reached(Holds(g)) : on' = on \ es
  /\ UNCHANGED <<vars, attr, grouped, made, armed, output, filter, plain, joined, headed, woken>>

\* The event whose buffer takes the records of e.
Buffer(e) == IF output[e] = NoEvent THEN e ELSE output[e]

\* PERF_EVENT_IOC_SET_OUTPUT: -1 detaches.  An event with a buffer of its own
\* keeps it, and events on different CPUs share none: the kernel may refuse.
SetOutput(g, h) ==
  /\ {g, h} \subseteq live /\ fd[g] # NoFd
  /\ \/ UNCHANGED output
     \/ fd[h] = NoFd /\ output' = [output EXCEPT ![Holds(g)] = NoEvent]
     \/ /\ fd[h] # NoFd /\ Buffer(Holds(h)) # Holds(g)
        /\ \A e \in Events : output[e] # Holds(g)
        /\ output' = [output EXCEPT ![Holds(g)] = Buffer(Holds(h))]
  /\ UNCHANGED <<vars, attr, grouped, made, on, armed, filter, plain, joined, headed, woken>>

\* Mutant: an empty list takes the filter away.
FilterCleared(g, calls) ==
  /\ g \in live /\ fd[g] # NoFd
  /\ filter' = [filter EXCEPT ![Holds(g)] = calls]
  /\ UNCHANGED <<vars, attr, grouped, made, on, armed, output, plain, joined, headed, woken>>

\* set_syscall_filter: nothing is done for an empty list; otherwise the kernel
\* may refuse, as it does for an event that is no tracepoint.
SetSyscallFilter(g, calls) ==
  /\ g \in live /\ (calls # {} => fd[g] # NoFd)
  /\ \/ UNCHANGED filter
     \/ calls # {} /\ filter' = [filter EXCEPT ![Holds(g)] = calls]
  /\ UNCHANGED <<vars, attr, grouped, made, on, armed, output, plain, joined, headed, woken>>

\* A guard that has been moved from: EBADF, and throw_errno.
ControlFails(g) ==
  /\ g \in live /\ fd[g] = NoFd
  /\ UNCHANGED cvars

\* A recorded process calls exec: of the events that were opened on it, the kernel
\* enables those that asked for this, and no others of their groups, once.
Exec ==
  /\ \E es \in (SUBSET armed) \ {{}} : on' = on \cup es /\ armed' = armed \ es
  /\ UNCHANGED <<vars, attr, grouped, made, output, filter, plain, joined, headed, woken>>

CNext ==
  \/ \E a \in Attrs :
       \/ \E x \in Setters : SetFlag(a, x)
       \/ \E format \in Formats : SetReadFormat(a, format)
       \/ \E g \in Guards :
            \/ OpenPlain(g, a)
            \/ OpenAsGroupLeader(g, a)
            \/ \E h \in Guards : OpenAsChild(h, g, a)
  \/ \E g \in Guards :
       \/ \E h \in Guards : Move(g, h) \/ SetOutput(g, h)
       \/ Close(g)
       \/ Enable(g) \/ Disable(g)
       \/ \E calls \in SUBSET Syscalls : SetSyscallFilter(g, calls)
       \/ ControlFails(g)
  \/ Exec

CSpec == CInit /\ [][CNext]_cvars

-----------------------------------------------------------------------------
(* EventGuard::read<T>, which changes nothing *)

Outcome(how, values, unset) == [how |-> how, values |-> values, unset |-> unset]

\* A read into a T of so many words.  In the format of a group the kernel gives
\* the number of events and a value of each, otherwise one value; it refuses a
\* T that is too small, and read<T> does not notice that one is too large.
Read(g, words) ==
  IF fd[g] = NoFd THEN Outcome("EBADF", {}, 0)
  ELSE LET e       == Holds(g)
           asGroup == "FORMAT_GROUP" \in made[e]
           values  == IF asGroup THEN Group(e) ELSE {e}
           needed  == IF asGroup THEN 1 + Cardinality(values) ELSE 1
       IN  IF words < needed THEN Outcome("ENOSPC", {}, 0)
           ELSE Outcome(IF asGroup THEN "group" ELSE "value", values, words - needed)

-----------------------------------------------------------------------------
(* Properties *)

(* The guards of a group: those that hold event e or one opened through it. *)
GuardsOfGroup(e) ==
  {h \in live : Holds(h) # NoEvent /\ (Holds(h) = e \/ caller[Holds(h)] = e)}

(* A T with a word for the count and one for each guard of the group is what a   *)
(* leader's guard reads without a word too few or too many, the values being     *)
(* those of the guards' events, whatever was moved, closed or done to the         *)
(* EventAttr since.  Only a child that a throwing constructor left open gets in   *)
(* between: it counts in the group without a guard, and the read fails            *)
(* (open_as_group_leader, open_child, read<T>).                                   *)
ReadsMatchGuards ==
  \A g \in live : Holds(g) \in headed =>
    LET e    == Holds(g)
        mine == GuardsOfGroup(e)
        got  == Read(g, 1 + Cardinality(mine))
    IN  got = IF \E f \in lost : leader[file[f]] = e
              THEN Outcome("ENOSPC", {}, 0)
              ELSE Outcome("group", {Holds(h) : h \in mine}, 0)

(* An event of an EventAttr that was never given the format of a group reads as   *)
(* one value and fits one word: also as the child of a leader that reads as a      *)
(* group, and whatever is opened, moved or closed later.  Any other may not, be    *)
(* it opened plainly: open_as_group_leader leaves the format in its EventAttr      *)
(* (open, open_child, read<T>).                                                   *)
PlainReadsAreValues ==
  \A g \in live : Holds(g) \in plain => Read(g, 1) = Outcome("value", {Holds(g)}, 0)

\* Two events are or were in one group.
Mates(d, e) == joined[d] = e \/ joined[e] = d \/ joined[d] = joined[e]

(* An event that was opened disabled is enabled only by the exec it was opened     *)
(* for, or after enable() on its own guard or on that of an event that was in a    *)
(* group with it: however the missing argument of ioctl is read, no other group    *)
(* is ever started (set_disabled, set_enable_on_exec, enable).                    *)
WakingIsWithinGroup ==
  \A e \in on : "disabled" \in made[e] =>
    \/ "enable_on_exec" \in made[e] /\ e \notin armed
    \/ \E d \in woken : Mates(d, e)

\* The kernel counts an event while it and its leader are enabled.
Counting(e) == e \in on /\ leader[e] \in on

\* An exec has just enabled event e.
ExecEnables(e) == e \in (armed \ armed') \cap (on' \ on)

(* An open event that did not count begins to for three reasons only: something    *)
(* in its group is enabled through a guard of the group, it or its leader is       *)
(* enabled by an exec, or it loses its leader.  The destruction of a disabled      *)
(* leader's guard so starts its enabled children, and an exec those that wait      *)
(* under a leader for which it was meant (enable, set_enable_on_exec, the          *)
(* destructor).                                                                   *)
CountingStartsForAReason ==
  [][\A e \in used : ~Counting(e) /\ Counting(e)' =>
       \/ leader[e] # e /\ leader'[e] = e
       \/ ExecEnables(e) \/ ExecEnables(leader[e])
       \/ on' # on /\ \E g \in live : Holds(g) \in Group(e) \cap on' \cap woken']_cvars

\* Nothing an ioctl can set in event e is different afterwards.
Untouched(e) ==
  /\ e \in on => e \in on'
  /\ e \in on' => e \in on \/ ExecEnables(e)
  /\ output'[e] = output[e] /\ filter'[e] = filter[e]

(* An event that a throwing constructor left open stays open, and unless a guard   *)
(* holds an event of its group nobody can stop it, redirect it or filter it ever   *)
(* again; it may still start on exec (EventGuard::EventGuard after a failing       *)
(* fcntl).                                                                        *)
LostEventsAreOutOfReach ==
  [][\A f \in lost :
       /\ file'[f] = file[f]
       /\ (\A g \in live : Holds(g) \notin Group(file[f])) => Untouched(file[f])]_cvars

(* What set_output and set_syscall_filter have set lasts as long as the event.    *)
(* A filter is replaced by a filter only, never taken away; records are cut off   *)
(* only through a guard that has been moved from, which set_output takes for -1.   *)
SettingsLast ==
  [][\A e \in Events : leader[e] # NoEvent /\ leader'[e] # NoEvent =>
       /\ filter[e] # {} => filter'[e] # {}
       /\ output[e] # NoEvent /\ output'[e] = NoEvent => \E h \in live : fd[h] = NoFd]_cvars

-----------------------------------------------------------------------------
(* What the comments say *)

(* set_disabled: the event is opened disabled and can be enabled later with the   *)
(* ioctl, that is with enable() of its guard.                                     *)
DisabledUntilEnabled ==
  \A e \in on : "disabled" \in made[e] /\ "enable_on_exec" \notin made[e] => e \in woken
=============================================================================
