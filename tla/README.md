# perf-cpp in TLA+

perf-cpp wraps the Linux system call perf_event_open: an `EventAttr` says what to
count, an `EventGuard` owns an opened counter, an `EventResolver` finds events by
name, a `Topology` knows the CPUs. This directory has TLA+ modules that model the
library, TLC configurations that check them on small instances, and theorems about
them that TLAPS has checked for every instance. PROJECT.json lists the runs, the
lines each definition models, the hazards, the mutants that show that each property
can fail, and the theorems.

## The system

| Component | State | Operations | Uses |
|---|---|---|---|
| EventGuard (event_attr.hpp, event_attr.cpp) | `fd_` | constructor, open_child, moves, destructor; enable, disable, read, set_output | kernel |
| EventAttr (event_attr.*) | `attr_`, `cpus_`, `availability_` | open, open_as_group_leader, event_is_openable, is_available_in, setters | EventGuard, Topology |
| SysfsEventAttr (event_attr.cpp) | as EventAttr | constructor, event_attr_update | sysfs, EventAttr |
| EventResolver (event_resolver.*) | `event_map_` | get_event_by_name, has_event, get_predefined_events, get_pmu_events | constructs EventAttrs |
| Topology (topology.*) | CPU, core and package sets and maps | read_proc, look-ups | sysfs |
| util.cpp | none | parse_list, perf_event_open, perf_event_paranoid | kernel |
| types, error, printing | none | | |
| tracepoint/, event_provider.cpp, perf_event_instance.cpp | | not built: headers they include are missing | |

All calls are synchronous and the library starts no thread and takes no lock. What is
concurrent is the other side: between any two system calls or file reads the kernel
may refuse what it accepted, a CPU may go offline, a PMU's driver may be unloaded. The
two singletons (EventResolver, Topology) keep for good what they saw at one moment.
Hard are therefore

- ownership: moves that swap, destructors that close numbers the kernel reuses,
  a constructor that can fail after it has acquired (EventGuard);
- control of groups through guards that are moved and closed in any order: an ioctl
  that is not given its argument, a read whose right length depends on all that was
  opened and closed before, settings that survive or get lost, flags that stay in an
  EventAttr (event control);
- verdicts put together from several system calls, with a fallback that changes the
  attributes in between (availability probing);
- caches of failures as well as of successes (EventResolver);
- objects built from several files that change while they are read
  (SysfsEventAttr, Topology);
- exceptions of the wrong type that pass the handlers (EventResolver, SysfsEventAttr);
- bit arithmetic at the width of the word (apply_mask, parse_bitmask).

## The modules

| Module | Models | State against code |
|---|---|---|
| HandleOwnership | nothing in the code: what guards promise | events are fresh, held, released or stranded; handles hold one or none |
| EventGuard | EventGuard and its kernel descriptors and groups | `fd` is `fd_`; `file`, `leader` are the kernel's; an action per constructor outcome, move, destruction |
| EventControl, which extends EventGuard | the setters of flags, open_as_group_leader, enable, disable, set_output, set_syscall_filter, read; the exec of a recorded process | `attr` is `attr_`; `made` is what the kernel was given of it; `on`, `armed`, `output`, `filter` are the kernel's; an action per method |
| EventProbe | get_cpu_set_for, event_is_openable, update_availability | `cpus`, `availability`, `excl`, `config` are the members; `pc`, `todo`, `attempt`, `proc` are the place in the code and its locals; `allowed` is what the kernel would accept now |
| SysfsEvent | the constructor of SysfsEventAttr, event_attr_update, parse_bitmask | `config`, `config1`, `cpus`, `scale` are the members; `pos` is the term the loop is at; `registered` says whether the PMU's files are there |
| SysfsProbe, which composes the two | the whole constructor of SysfsEventAttr, and event_is_openable later | the variables of both, with one `pc` |
| Construction | nothing in the code: what constructing an event promises | an outcome, given once, and whether the event is available |
| Words, BitMask | apply_mask: what it computes, and the loop | `mask_bit`, `value_bit`, `res` are the locals |
| EventLookup | nothing in the code: what look-ups promise | a name is unknown or settled |
| EventResolver | EventResolver | `event_map[n]` is absent, an empty optional ("null") or an event ("attr"); `todo` is what the loops have before them; `world` is what constructing an event or reading a directory comes to now |
| Topology | Topology | the sets and maps; `online` is the machine's |

`X`Proofs has the theorems about `X`, `MCX` with MCX*.cfg instantiates it for TLC.
Definitions that a plausible bug would turn into another one have that one beside them
marked Mutant (MoveCopies beside MoveConstruct). These occur in no specification; they
show that the property they break says something.

How they fit together: EventControl adds to each action of EventGuard what it does to
attributes and settings; that such a step is one of EventGuard or leaves the
descriptors alone is how the actions are written, and no claim of its own. What it
carries over is: whatever is controlled, set or read, ownership is as in HandleOwnership. Its opens succeed or
fail as EventGuard's do and hand over the flags the EventAttr has at that moment.

EventProbe takes one call of EventAttr::open to be one answer of the kernel, since the
guard it builds is destroyed in the same statement block (EventGuard shows that such a
guard leaves nothing behind unless fcntl fails). For a sysfs event it takes what the
constructor reads from files to be anything (ReadLists, ParseTerms); SysfsEvent models
those reads and takes the scan for CPUs to find anything (Scan), and the probing to be
none of its business. SysfsProbe puts the real steps in the place of each of these: it
implements SysfsEvent with `pc` mapped to "probe" once the probing has begun and `cpus`
to the empty set until the scan is over, and EventProbe with the reads of files mapped
to its places "lists" and "terms". It adds the one thing neither half can say
(UsableEventIsWhole): the configuration is the described one, the CPUs are the PMU's,
and the verdict is the kernel's on that configuration, all of the same object.

EventResolver takes a whole construction to be one step with the outcome "ok",
"invalid" (InvalidEvent) or "other" (any other exception). Construction is that step
seen from outside: EventProbe implements it for predefined and raw events with InvalidEvent
as the only failure, SysfsProbe for sysfs events with both, which is what
EventResolver!Outcomes says. That the outcome is a matter of the system's present state
(EventResolver!world) is OutcomeIsPredictable: for a scanned event everything about the
object follows from the kernel's answers, but for one read through begin() of an empty
set. SysfsEvent uses the operator Deposit for a call of apply_mask, which
BitMask proves it to be.

Modelling choices a reader should know of:

- A word is the set of its bits. A value that stol rejects as too large is one with
  the top bit set.
- Files of sysfs are modelled by what the code distinguishes: there or not, a list, a
  format with a colon or without. Ranges in a format ascend and CPU lists are well
  formed, as the kernel writes them.
- Uninitialised memory is nondeterministic: the ids of a CPU whose files are gone
  (Topology!Answers) and the CPU number read through the begin() of an empty set
  (EventProbe!Target).
- The kernel's rules on group descriptors (GroupAccepted, CloseFile) are those of
  perf_event_open(2): a group descriptor names a leader, and siblings whose leader is
  closed become leaders of themselves.
- The kernel reads the third argument of the requests ENABLE and DISABLE as a word of
  flags. The library passes none, so the word is whatever the register holds: an enable
  or disable reaches the event or its whole group (EventControl!Reached).
- PERF_EVENT_IOC_SET_OUTPUT and _SET_FILTER may be refused for reasons outside the model,
  so that both have an outcome that changes nothing. A filter is the set of the system
  calls it names.
- Of read_format only the format of a group is modelled; the flags that add times and
  ids lengthen what a read gives in the same way for guard and kernel and are left out.
- An exec of a recorded process (EventControl!Exec) enables events that were opened with
  set_enable_on_exec, each once, and nobody else in their groups. Which process an event
  records is not modelled, so an exec concerns any of the events that wait for one.
- Variables called history in the modules (caller, lost, grouped, plain, joined, headed,
  woken, steady, calm, quiet, told) are in no guard; only properties read them.
- get_pmu_events visits a directory or a file in each step: /sys/bus/event_source/devices,
  its PMUs in any order, and after each PMU its event files in any order, as the directory
  iterators do. A directory can be read, be none ("invalid": the PMU has no events) or
  make the iterator or is_directory throw ("other"); no file is there without its
  directory. is_directory and the iterator behind it are one step, as a directory that
  goes between them is one that throws. Entries that appear once their directory has
  been entered are not visited. A PMU whose driver goes takes its files with it.

## The runs

| Run | Instance | What it shows |
|---|---|---|
| guard | 3 guards, 3 descriptors, 4 events | ownership is exclusive, leaks have one cause, groups follow their callers, EventGuard implements HandleOwnership |
| control | 2 guards, 3 descriptors, 3 events, 2 EventAttrs, the flags disabled and enable_on_exec, a system call | reads fit the guards of a group, the format of a group reaches no other EventAttr's events, switching stays in the group, counting starts for three reasons, lost events are out of reach, settings last |
| control_disabled | same with 1 EventAttr and the flag disabled | violation: a child opened disabled is enabled through its leader |
| probe | 2 CPUs, any answers, any changes | verdicts, CPU lists, fallbacks and rejections are right while the kernel is steady; every check ends |
| probe_answers | same | violation: is_available_in has its branches swapped |
| probe_sysfs_note | same | violation: the header's note on new sysfs events is out of date |
| resolver | a predefined, a raw and a sysfs name; 2 PMUs, 1 event file | answers never change, the map agrees with them, listings are all or nothing, loops end, EventLookup is implemented |
| resolver_throws | a sysfs and a malformed name; 1 PMU, 1 file | violation: get_event_by_name throws more than its comment says |
| topology | 4 CPUs on 2 packages that number their cores alike | maps agree under hotplug and unread ids; exact when nothing changes |
| bitmask | words of 6 bits, every value and mask | apply_mask computes the deposit, which can be read back, and ends |
| sysfs | words of 4 bits, descriptions of 1 or 2 of 9 terms, 2 CPUs | configured whole or not at all; masks are the bits of their ranges, the whole word too; the first error decides; the PMU's CPUs are used |
| sysfs_bits | same with a format that is a single bit | violation: parse_bitmask gives it an empty mask |

Why the bounds are enough. Two guards make every aliasing and a third makes it possible
that one closes, reopens and meets the stale number; four events for three
descriptors force reuse. For control, two guards hold a leader
and a child, two leaders, or one event and nothing after a move; the third event and
the third descriptor are for one that was lost or that comes after one was closed. Two
EventAttrs let a child be opened with one under a leader opened with the other. Guards
and events are interchangeable (SYMMETRY, and no property is a liveness property). Three
cuts keep it small: the kernel gives out the lowest free descriptor, as Linux does
(LowestFree); one event at a time is redirected or filtered, as no property relates the
settings of two, and none is while a flag is set (FewSettings); and one EventAttr is asked
for no flags and enable_on_exec comes only with disabled (FewFlags). The proofs do without
them. Two CPUs give an empty, a partial and a full scan, and a least
CPU that differs from another. Each look-up concerns one name, so a name of each sort
shows all cases; two PMUs let a file of one be listed before the other throws, is gone
or comes back. Two packages of
two cores collide on both core ids. A description of two terms has a term before and
after each error and overlapping contributions. Deadlock is checked except where the
system ends: sysfs (a constructor) and bitmask (a function).

The five violations are real disagreements of the code with what it or its comments
say; PROJECT.json quotes them. The other properties hold, several of them only under a
condition that says what the code does not guarantee: after the kernel has changed,
availability_ and cpus_ are history; a rejected event was never tried with
exclude_kernel on a CPU its scan had refused; a predefined event missed at startup is
missed for good.

Fairness. Only the calling thread is fair: WF on the steps of the probing, the
constructor or the loops it is running (EventProbe!Step, SysfsEvent!Step,
EventResolver!Loop, BitMask!Next). The thread is inside a call and nothing but its own
next step is needed to go on. No fairness is assumed of the kernel, of PMUs coming
back or of users calling.

## The proofs

For each module there is a lemma that Init establishes an invariant, one that
every step preserves it, and the theorems follow from it. The properties alone are not
inductive. What the invariants add:

- EventGuard: dead guards hold -1, no event is behind two descriptors, an open event
  counts as used, and the event a child was opened through is older than the child.
  Without these, closing a number could close somebody else's event, or a new event
  could be taken for an old group. The refinement maps a descriptor to the event behind
  it; each action is shown to be a step of HandleOwnership or a stutter.
- EventControl: an event is in a group exactly while it is behind a descriptor, and the
  leader of a group is in it (GroupInv); only open events are enabled (OthersAreSilent);
  an event stays under the leader it was opened under until it leads itself
  (JoinedTheirLeaders), by which waking can be traced to a mate; a leader has the format
  of a group and was opened through no other event (LeadersAreFormatted); an EventAttr
  that was never given that format has not got it, nor have the events opened with it
  (PlainAreNotFormatted); and only events that asked for it wait for an exec
  (ArmedAskedForIt). Every step is one of
  EventGuard or leaves the descriptors alone, which carries EventGuard's invariant over.
  ReadsMatchGuards then compares two finite sets, the group and the events of its
  guards: one is a subset of the other, and they are equal unless an event is lost.
- EventProbe: what each probe of a running attempt has answered, while nothing has
  changed since, is still the kernel's answer (`proc`, the scanned CPUs, and in the
  second attempt the refusals of the first).
- EventResolver: told and map agree name by name, and during a listing in a calm system
  the collected events are the good ones among what the listing came across and has
  not left to visit, none of which throws (ListedSoFar, Left: the files of a PMU that is
  still to be entered are left to visit, too).
- Topology: CPUs are visited in increasing order, so that the first emplace of a core
  comes from the least of its CPUs, which is also the one the look-ups find.
- BitMask: value_bit is the rank of mask_bit in the mask, and below mask_bit the result
  is the deposit.
- SysfsEvent: what holds of a parsed description holds of its terms before `pos`, and
  the way the CPU lists were empty is remembered until the scan.
- SysfsProbe: each half needs little of the other (Handover): that a scan finds CPUs of
  the topology, and that nothing is listed or to be tried before the lists are read.
  For UsableEventIsWhole the two words are those of the terms before `pos`
  (Configured), a list is passed over only for being empty while the driver stays
  (Listed), and the last answers stand while the kernel does (Answered). For
  FailureIsDeserved the terms before `pos` are in order and a failed one is at `pos`
  (Passed), and what led to the second attempt still holds in it (Refused).

Beyond the properties of the runs, the theorems say:

- Ownership through all layers (ControlKeepsOwnership): EventControl implements
  HandleOwnership, and the invariants of EventGuard hold of it, since each of its steps
  is one of EventGuard or leaves the descriptors alone.
- What a construction comes to (OutcomesArePredictable, FailuresAreDeserved): in a kernel
  that stands still a predefined or raw event excludes the kernel exactly if the thread and
  all CPUs refuse it otherwise, and its CPUs and claims are those of the kernel; a sysfs
  event fails for the first error in its description or for refusals of the
  configuration it was described with. The first contains SupportedCpusAreOpenable,
  FallbackIsLastResort and RejectionIsJustified for scanned events, as an equivalence. It
  needs that an attempt only ends without a mode when the kernel is already excluded
  (Claimed).
- Constructing as a service (ScannedEventsConstruct, SysfsEventsConstruct): the
  refinements of Construction. They rest on the fact that nothing is available before the
  constructor returns (Underway).
- What a configuration says (TermsDoStandApart, DepositReadsBack, DepositTellsApart): a
  term whose format has its bits for itself has exactly its deposit in the word, and from
  a deposit the low bits of the value can be read back, as many as the format has room
  for: settings that fit are told apart. DepositReadsBack is an induction over the bits of
  the word. As such a proof cannot be had from the library's induction rules here, it takes
  the least number with a property instead, which exists as < is well-founded on the
  naturals (LeastNumber).
- Bounds (ChecksAreBounded, ConstructionsAreBounded, LoopsAreBounded): the steps that are
  left, as a natural number (StepsLeft, TurnsLeft), go down with every step of the thread,
  never up with one of the kernel or of sysfs, and are zero only at the end. For the
  checks it is also proved that a step that needs a CPU finds one (CanGoOn). What is left
  to fairness in CheckEnds, ConstructionEnds and LoopsEnd is that the thread goes on. As
  SysfsProbe implements both of its halves and each of its steps is a step of one of them,
  the whole constructor has the sum of their bounds.

Assumptions are those named in the modules: GuardAssumption (descriptors are not
negative, NoEvent is no event), ControlAssumption (guards and events are finitely many,
read formats are the group's or none and no set_... method gives the group's),
ProbeAssumption (CPUs are finitely many numbers: a std::set), ResolverAssumption (the
sorts of names, files and directories are disjoint, each file is in one PMU's directory;
the predefined names, a table, the PMUs and the event files are finitely many),
TopologyAssumption, WidthAssumption and SysfsAssumption. TLC evaluates all of them in
the runs.

Only model-checked: the liveness properties CheckEnds, LoopsEnd, LoopEnds and
ConstructionEnds, as TLAPS has no support for fairness and ENABLED (their bounds are
proved, see above); MasksAreTheirRanges, whose proof is an induction over the exponents of
two; and of course the violations. Only proved, with no
run of its own: SysfsProbe. It is the product of two modules that are each checked: one
term on two CPUs already gives seven million states, on which UsableEventIsWhole,
FailureIsDeserved and ImplementsConstruction hold, and its theorems need no bound.

## Not modelled

The setters that store a value (set_clockid, sample_period, sample_freq, set_watermark,
set_precise_ip) and the comparisons of whole attributes: plain assignments, whose edges
are listed as hazards; get_id, get_fd and is_valid, which change nothing; printing;
identifiers; get_tracepoint_event_names and perf_event_paranoid, which read one file
and keep nothing; libpfm and NEC devices, whose libraries are not here; the code that
is not built: the tracepoint headers, event_provider.cpp and perf_event_instance.cpp.
Threads of the user are not modelled: the library has no synchronisation and promises
none. Locations and cgroups of events are left out of EventGuard and EventControl,
which keep no state of them.

## Plan

1. Done: EventGuard with HandleOwnership, EventProbe, EventResolver with EventLookup,
   Topology, BitMask, SysfsEvent, and their proofs.
2. Done: EventControl over EventGuard; SysfsProbe and its refinements
   of SysfsEvent and EventProbe.
3. Done: Construction as a service, implemented by EventProbe and SysfsProbe, and the
   theorems beyond the runs.
4. Done: get_pmu_events over PMUs that come and go; the exec that enables events.
   Left of it: constructions in the listing that are not one step.
5. parse_bitmask as a loop over the matches, with reversed ranges and what a negative
   shift does in the builds.
