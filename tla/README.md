# nazar in TLA+

A verification project for [nazar](../src/README.md), an eBPF telemetry and
detection agent: kernel programs put events into a ring buffer, a userspace
agent keeps a process table from them and evaluates detection rules. The
project models all parts that keep or change state, from the kernel programs on their CPUs to the
rule engine, in modules of one component each and in compositions of them. TLC
checks small instances; TLAPS proves all of the safety properties they check for
every instance.

All paths to code are relative to `src/`.

## The system

| part | state it keeps | operations | what makes it correct |
|---|---|---|---|
| process table, `nazar-agent/src/proc_table.rs` | `nodes`: records keyed (tgid, start_time) with parent, children, exe, comm, argv, exited_at; `by_tgid`: newest record per tgid | seed, on_fork, on_exec, on_proc_exec, on_exit, resolve, ancestry, reap | the links form a forest, ancestry never names a stranger and reaches init, tombstones stay while needed and go in the end |
| tracepoint probes, `nazar-ebpf/src/main.rs` 107-364 | none (the ring is shared) | emit one event per fork, execve, successful exec, exit | an event names the process it is about; a failed reservation or read loses one event and nothing else |
| event loop, `nazar-agent/src/main.rs` 146-310 | the ring's consumer side | one arm per event kind; every 10 s expire and reap; stop on ctrl-c or SIGTERM | events are applied once and in order; the timer and the signals get their turn |
| detection engine, `nazar-agent/src/detect.rs` | `history`: per process a vector of hits | on_exec, on_write, on_connect (all `evaluate`), expire | the first rule that is met is reported, all that match are remembered, expiry is never noticed |
| rules, `nazar-agent/src/rules.rs` | the rule list, fixed at startup | load, matches, render | ids unique, correlation targets exist |
| open and connect probes, `nazar-ebpf/src/main.rs` 45-105, 366-425 | none | emit an event for a write-open or a connect | the agent's own and read-only opens are left out; the key is the process's |
| ring buffer and drop counter, `nazar-ebpf/src/main.rs` 29-44 | `EVENTS`; `STATS`, one u64 | reserve, submit, discard; bump, report at shutdown | no record is forgotten in the ring; the count is not zero when something was dropped |
| LSM exec guard, `nazar-ebpf/src/main.rs` 437-520 | `EXEC_DENYLIST`, 64 paths | allow or deny an exec | where it comes to look, denies exactly the listed paths when enforcing; keeps an earlier denial |
| loader, `nazar-agent/src/main.rs` 22-145 | the offsets, the deny list, the attachments | look up, fill, attach, read `/proc` if it can, load rules | all is in place before it is used; nothing that runs is missed |
| `/proc` snapshot, `nazar-agent/src/procfs.rs` | none | snapshot | no process is joined to a stranger |
| BTF parser, `nazar-agent/src/btf.rs` | the type section | field_offset | the offset of the right member, or an error |

The parts meet in three places. The probes run inside kernel steps, on any CPU,
and share the ring with the single-threaded agent, which is always behind: it
sees the past, in order, possibly with gaps. A process has no identity of its
own on the wire: the agent joins events by (tgid, start_time), where the start
time is that of the *task* that ran the probe, is unknown at fork time (0
stands for it), is read rounded from `/proc` and can fail to be read. And the
event loop calls the engine and the table in a fixed order for each event, with
the timer's expiry and reaping between any two rounds of events.

What is hard, then, is ordering and identity: children that outlive parents,
records that change their key when the first event with the real start time
arrives, pids that are given out again, threads that look like processes, losses.
`PROJECT.json` lists these as hazards, each at its line.

What each program does on its own is sequential and short; what several CPUs do
to the ring, the counter and the wake-up of the agent is not, and neither is
starting up beside a kernel that runs on.

## The modules

| module | models | lines of code it stands for |
|---|---|---|
| `ProcTable` | the process table, one operator per method, as actions on `nodes` and `by_tgid` | `proc_table.rs` |
| `Sensor` | kernel, probes, ring and event loop around `ProcTable` | `nazar-ebpf/src/main.rs`, `nazar-agent/src/main.rs` 146-243 |
| `RuleSet` | the loaded rules and what it means to match | `rules.rs` |
| `Correlation` | what the engine promises: a set of recent facts, no expiry | abstract |
| `Engine` | the engine: vectors of hits, find_prior, expire | `detect.rs` |
| `Detection` | `Sensor` and `Engine` composed, with the open and connect probes | `detect.rs` 112-157, 216-243, `nazar-agent/src/main.rs` 189-286, `nazar-ebpf/src/main.rs` 45-105, 366-425 |
| `Startup` | `Sensor` with programs attached one by one and `/proc` read process by process | `procfs.rs`, `nazar-agent/src/main.rs` 79-135 |
| `Btf` | the walk over the kernel's types | `btf.rs` |
| `Events` | ring, commits and drop counter on several CPUs | `nazar-ebpf/src/main.rs` 29-44 and the reservations |
| `ExecGuard` | the LSM program, over `Events` | `nazar-ebpf/src/main.rs` 437-520 |
| `EventLoop` | the select, the drain and the shutdown, over `Events` | `nazar-agent/src/main.rs` 146-342 |
| `Agent` | `Btf`, `ExecGuard` and `EventLoop` composed: the program from its start to its end | `nazar-agent/src/main.rs` |
| `ProcTableProofs`, `EngineProofs`, `AgentProofs`, `StartupProofs` | theorems about `ProcTable`, `Engine`, `Agent` and `Startup` | |
| `SensorProofs`, `LineageProofs` | theorems about `Sensor`: what holds in any case and without pid reuse; what holds where nothing is missed, and what holds with pid reuse | |
| `DetectionProofs` | theorems about `Detection`, from those about its parts | |
| `NaturalRecursion` | induction and recursion over the naturals, used by the others | |
| `MCSensor`, `MCEngine`, `MCDetection`, `MCStartup`, `MCAgent` | instances for TLC | |

There are two families. `Sensor`, `Detection` and `Startup` have the contents of
the events and take a program as one step. `Events`, `ExecGuard`, `EventLoop`
and `Agent` have the steps of the programs and leave the contents out. The ring
is where they touch: `Sensor` relies on the loop to take what was committed, in
the order of the reservations, and `NoLostWakeup`, `Stops` and `TimerServed` are
that.

### ProcTable

`nodes` and `by_tgid` are partial functions. `OnFork`, `OnExec`, `OnProcExec`,
`OnExit` and `Reap` are the methods of the same names, `SeededFrom` and
`IndexFrom` what `seed()` leaves of a snapshot;
`ensure()` is the pair `EnsuredNodes`, `EnsuredIndex`, the table and index it
leaves behind. `Ancestry` is the cursor of the loop in `ancestry()` after each
turn: a function on the naturals, because the loop has no bound.

Kept abstract: names are opaque; uid and argv are one field, since one method
writes both; `exited_at` is the time since the exit, in units of `Elapse`,
saturated just above the grace period. `pending_parent` is left out: no code
inserts into it. Time and reaping are separate actions, so a tombstone may wait
any number of timer ticks.

`TableSpec` allows any stream of calls. That is too much for the table to stay
a forest, and `DisciplinedSpec` says what is: no fork onto a placeholder that is
still in the table (`~Overwrites`) and no event that promotes a tombstone
(`~Resurrects`). Which kernels are disciplined is a question about the pipeline,
and `Sensor` answers it. `TableSpec` and `DisciplinedSpec` themselves are for the
theorems; what they say of the table is checked in `Sensor` and `Startup`.

### Sensor

The kernel half is the truth: `task` (live tasks, each with its process, its
start time and a pending execve), `group` (live processes with start and
image), `lineage` (who forked whom, dead ones included), and a cyclic pid
allocator. It is modelled from what the probes read: `sched_process_fork`
fires for threads too and names a thread id; `sys_enter_execve` fires for
attempts that then fail; an exec in a thread waits for its siblings and takes
over the leader's pid and start time; `sched_process_exit` fires per task, and
group_dead is set on the last, whichever it is.

Each kernel step emits its event in the same action, because a probe runs
inside the step. `Emit` is `reserve`: with `Lossy` a full ring drops the event
(and `EmitOrDiscard` may discard it after a failed read, `StartRead` may be 0).
Without `Lossy` the kernel makes no step while the ring is full, which is the
agent keeping up, as the README measures. `Take` is the head of the drain loop,
and each `Consume` action one arm of the match with every call it makes on the
table. The engine's calls in the same arms do not touch the table and are in
`Detection`. `attached` has the kinds of events whose programs are attached: all
of them in `Sensor` and `Detection`, which begin with `/proc` read and the table
seeded in an instant in which nothing happens.

`Threads`, `PidReuse`, `Lossy` and `Execers` switch the hard behaviours on one
at a time, so that each run says under which of them a property holds.

### RuleSet, Correlation, Engine

A rule is named by its place in the file, a condition is the set of events it
holds of. `Engine` has `history` and the last `alert`; the hits of one event are
one entry with a set of rules, since they are pushed together and differ in
nothing else. `find_prior` is `LastHit` (the last in a process's vector that
counts, from the back) and `LatestHit` (the latest of those over all processes;
where two have the same age, whichever the hash map yields). `Evaluate` reports
first and remembers after, as the code does, and makes an entry even when
nothing matched. `Expire` stands for both callers, the timer and the exit arm.

`Correlation` says the same without vectors or expiry: `recent` is a set of
facts, each younger than the longest window of any rule. `Engine` implements it
with `recent` mapped to the hits in `history` that are younger than that
(`Promise` and `KeepsPromise`): a hit that is too old but not yet expired is
invisible, and expiry is a stuttering step.

### Detection

`Detection` adds two kernel actions, `Connect` and `SysEnterOpenat`, to the kernel
of `Sensor`, and to each arm what it asks of the engine. `Told` is what
`evaluate()` reads of the table when the event is consumed: the actor, the chain,
the arguments, the path. The engine is an instance of `Engine` whose keys are the
table's. What was true when the event was emitted is kept beside the ring in
`truths`, and `wrong` is in what the two differ: the agent may be any number of
events behind, and `FactsTrue` says that it does not show. `Active`, `Written` and
`Dests` bound who opens and connects, to what.

The arm of proc_exec asks the engine before `on_proc_exec`, so the actor is the
image that called execve, and after the exec event of the same attempt, so the
arguments are its own. The arm of exit expires hits.

### Startup

The kernel of `Sensor` runs while `main()` attaches its programs in order
(`Attach`), opens `/proc` (`OpenProc`), reads each process in two steps
(`ReadStat`, `ReadNames`), seeds the table (`Seed`) and enters the loop. When `/proc` cannot be
opened, `main()` enters the loop with an empty table (`OpenProcFails`). `horizon`
is then the last start of which nothing tells the agent, since the program for
forks was not attached yet; no action of the code reads it. A kernel step whose program is not attached yet leaves no event. `Upcoming` is
what a listing of `/proc` gives: every process that was there from the open to
the end, in the order of the pids, and any of those that came meanwhile. A
process that has ended is gone from `/proc` at once (zombies are left out); one
that ends between the two reads gets empty names. /proc reports the real
parent, or init when it is gone.

### Btf

A section is a sequence of types, each with the length of its trailer as the
kernel wrote it; the walk has a byte offset. A member has its true place and
width; `RawOffset` is the word the kernel makes of them, as `btf.h` describes it,
and `BitOffset` what the parser makes of the word. `OffsetsTrue` compares with the
true place. Where the offset is not the start
of a type it may read any header. So a wrong length in `extra_len()` shows as an
answer that no type in the section gives, or as one by luck.

### Events, ExecGuard, EventLoop, Agent

A program is a sequence of steps on its CPU, in `call`: reserve, fill, commit, or
for a full ring the load and the store of `bump()`. A commit sets `wakeup` only if
its record is the one at the consumer's position, as the kernel does for
flags 0. `drops` counts the failed reservations, which the program cannot.

`ExecGuard` gives the LSM program its path, and reads the verdict of the program
before it (`prev`). A path is a value, and `Stem` the part of it that fits into 255
bytes; a key is the part and what stands behind its NUL. A verdict has its basis
(`Bases`): an earlier denial, the list, or nothing, because the path could not be
read or the ring was full. `GuardExact` is about the verdicts that rest on the
list, and says that those of a full ring were counted; what the documents say of
all of them is `ExactOneWay` ("The runs"). `Guarded` bounds the CPUs on which the
program runs.

`EventLoop` has the readiness of the descriptor: the driver turns a wake-up into
`ready` when there is data between the positions, `OnReadable` takes the guard,
`Drain` is one turn of the inner `while let`, and `ClearReady` clears the readiness
the guard saw, not one that came since (`renewed`), which is what tokio's
`clear_ready()` does. `Agent` puts the setup before the loop, where each `?` ends
the program and with it every attachment, and runs the kernel's CPUs beside it.

## The runs

All bounds are in the `.cfg` files. *Grace* 0 means a tombstone may go after
one unit of time.

| run | instance | shows |
|---|---|---|
| `lineage` | 4 pids, the second may exec, two images | `AncestryComplete`: the whole chain up to init, after any interleaving of fork, exec, exit, reap; `ExeTracksImage` and `DeathRecorded`; and `Forgotten`, under fairness |
| `lossy` | 3 pids, threads, a ring of 2 that overflows, reads that fail; the second pid may exec | `AncestryNeverWrong`, `SensorTypeOK`; the forest: `LinksAgree`, `IndexAgrees`, `Acyclic` and, step by step, `LineageKept`; and every step of this kernel on the table is a disciplined one (`DisciplinedSpec`), so the theorems apply to it |
| `threads_and_reuse` | 4 pids, 6 start times, threads, pids given out again; init and a child are seeded, and the child may die, unmarked, and leave its pid to another | `ResolveCurrent` |
| `engine` | two processes, six events, six rules (five of `rules.toml`, one with same_process off), windows 1 and 2, at most two entries a process | `KeepsPromise`, `OldestFirst`, `EngineTypeOK`; and `Forgets`, under fairness |
| `detection` | 3 pids, two of which exec; the third opens and connects; three rules; a ring of 2 | `FactsTrue`, `CorrelationMet` |
| `startup` | init and a child run already, 2 pids are free, the second execs; a ring of 3; `/proc` opens or does not | `EveryoneKnown`, `AncestryKin`, `Acyclic`, `TableTypeOK` |
| `agent` | 2 CPUs, one of them guarded; a ring of 2, 2 losses; 7 kernels; 4 lists around a limit of 1 path | `OffsetsTrue`, `GuardExact`, `CountHonest` |
| `event_loop` | 2 CPUs, a ring of 2, 1 loss, one kernel and no list | `NoLostWakeup`; and `Stops`, `TimerServed`, under fairness |

Why these sizes: a ring of two already lets the agent lag behind two kernel
steps, and every reordering of the table's updates against the kernel is a
reordering of two events. Three pids give a grandparent, a parent and a child; the
fourth is for a chain of two dead placeholders or for a thread beside a
process. A second start time for a pid needs one death and one more fork.
Windows 1 and 2 with ages 0 to 2 put a hit on both sides of both bounds, and
two entries in a vector are what "the last one" needs.

Two CPUs are enough for a lost increment and for commits out of order, and a
ring of two for a record behind one that is still being filled. The 64 paths of
the deny list are 1 here, the 1 MiB of the ring 2 records: the code compares with
the limit and does nothing else with it. In `guard_inexact` the ring has one slot. The seven kernels of `agent` have every
trailer length of the kinds before a type that is asked for, a struct whose
offsets carry widths, a bit field, a struct whose first namesake lacks the member, a kind of a
newer kernel, no struct at all, and one with the member at offset 0. The eight
programs are two: the last one is the guard, and all others do the same to the
ring. `startup` attaches all four of the kinds that matter to the table and the
two that do not.

`CorrelationMet` is checked with single-threaded processes. With threads it is
false: `current_start_time()` (`nazar-ebpf/src/main.rs` 344) reads the running
*task*, so a connect of a worker thread has another key than its process's exec
and the correlation misses, where README.md:90 speaks of "the same
`(tgid, start_time)`" of a process.

Four more runs end in a violation, each of what the documentation says.

| run | sentence | what happens |
|---|---|---|
| `endless_walk` | README.md:218, with start_time in the key no record is overwritten and no walk lands on the wrong parent | a process that never execs stays keyed (tgid, 0); when its pid comes back, `on_fork` overwrites it under its children. If a descendant forks it, the links form a cycle and `ancestry()` does not return |
| `seeded_exec` | README.md:34, every alert carries the full ancestry; KNOWN_GAPS.md:61 knows the mismatch but not this | a seeded process that execs gets a second record without a parent |
| `leader_first` | README.md:242, group_dead=1 marks the real death | the last thread is not the leader: its start time matches no record and nothing is marked |
| `guard_inexact` | README.md:118, the hook returns -EPERM when the path is in the list; README.md:163 and KNOWN_GAPS.md:104, the match is exact | the program asks for a slot of the ring before it looks: with the ring full a listed file is executed. A path of 256 bytes or more is looked up by its first 255: when those are listed, the file is denied though it is not |

The last run refutes two sentences with one state. `ExactOneWay` is the
disjunction of `ListedDenied` (the first) and `OnlyListedDenied` (the second), so
where it fails both do; one violation shows both, on two CPUs at once.
`ListedDenied` leaves out a path that cannot be read and, as README.md:105 does,
one of 256 bytes or more in the list.

The first three are also the reason for the switches above: `AncestryComplete` holds
of processes that were not seeded and then exec'd (in `lineage` only pid 2 execs,
which is not in the snapshot), `AncestryNeverWrong` holds without pid reuse, and
`DeathRecorded` without threads and of processes that were not seeded (in
`lineage` only init is, and it does not end; the exit of a seeded process marks
nothing, because `on_exit` falls back to the placeholder only). `ExeTracksImage`
is checked without threads too: when two threads of one process call execve, the
first exec event moves the process's record to that thread's start time and the
next one makes an orphan. It is also false right after startup, where a fork
event replayed over a snapshot gives the child its parent's image of the time of
the snapshot; `startup` checks who is known and whose child, not the image.

`PROJECT.json` names for every property a mutant of the code under which its
run fails: a child set not relinked, an index not cleared, an expiry that
keeps empty entries, and so on. The mutants stand in the modules, before the
definitions they replace.

### Fairness

`lineage` assumes weak fairness of `Consume` (the loop takes events while
there are any), `Expire` (a 10 s interval that is polled for ever) and `Tick`
(time passes); `engine` of `Expire` and `Elapse`. Nothing is assumed of
the kernel.

`event_loop` assumes weak fairness of what runs unless it waits: the steps of
the setup, of the drain and of the shutdown, the runtime's driver, and a kernel
program that was started. It assumes strong fairness of the branches of the
select, because `tokio::select!` without `biased` begins with a branch drawn at
random each time: a branch that is ready again and again is polled first at
some time. Weak fairness would not do, since a branch is not enabled while the
loop drains. Nothing is assumed of the interval, of the signals or of how often
programs run. A kernel that fills the ring faster than the agent empties it
keeps the loop in `while let` for ever, and the timer, SIGTERM and ctrl-c then
wait for ever: `Stops` and `TimerServed` have the premise `DrainsEnd`, that each
drain comes to an end (the README measures 104 events a second). What they show
is that this premise is enough.

### Deadlock

It is checked in all runs but three, and none of them can stop: `Elapse` and `Reap`
are always possible, if only without an effect. `agent`, `event_loop` and
`guard_inexact` have `CHECK_DEADLOCK FALSE`, because the program ends there.

## What is proved

The theorems hold for any constants that satisfy the named assumptions of the
modules. Those of the kernel's side are what the kernel guarantees: tgids and
start times are positive numbers, `/proc` at one instant is a tree in which
each process but init has an older parent (kernel threads left out), and gives start times rounded down to clock
ticks. Those of the rules are what `RuleSet::load` has checked, those of the
types what `btf.h` prescribes.

| theorem | of | under |
|---|---|---|
| `TypeCorrect` | `ProcTable.TableTypeOK` | any stream of calls |
| `ForestHolds` | `LinksAgree`, `IndexAgrees`, `Acyclic` | disciplined calls |
| `LineageIsKept` | `LineageKept` | disciplined calls |
| `AncestryReturns` | the loop of `ancestry()` reaches its end | disciplined calls |
| `PipelineTyped` | `Sensor.SensorTypeOK` | nothing |
| `PipelineUsesTheTable` | `Sensor` implements `TableSpec` | nothing |
| `PipelineIsDisciplined` | `Sensor` implements `DisciplinedSpec` | no pid reuse |
| `PipelineKeepsForest` | the three invariants and `LineageKept`, behind the ring | no pid reuse |
| `AncestryIsNeverWrong` | `AncestryNeverWrong` | no pid reuse |
| `TableFollowsKernel` | the table is the kernel of some events ago | `Watched` |
| `AncestryIsComplete` | `AncestryComplete` | `Watched` |
| `ExeIsTracked` | `ExeTracksImage` | `Watched` |
| `EveryDeathRecorded` | `DeathRecorded` | `Watched`, init alone read from `/proc` |
| `ResolveIsCurrent` | `ResolveCurrent` | no loss, `/proc` read |
| `StartupKeepsForest` | `TableTypeOK`, `LinksAgree`, `IndexAgrees`, `Acyclic` in `Startup` | no pid reuse |
| `EveryoneIsKnown` | `EveryoneKnown`, whether `/proc` opens or not | no pid reuse, no loss |
| `AncestryIsKin` | `AncestryKin` | no pid reuse |
| `HistoryTyped`, `HistoryInOrder` | `EngineTypeOK`, `OldestFirst` | nothing |
| `EngineKeepsPromise` | `KeepsPromise`: `Engine` implements `Correlation` | nothing |
| `FactsAreTrue` | `FactsTrue`, in `Detection` | `Watched` |
| `CorrelationIsMet` | `CorrelationMet`, in `Detection` | `Plain`: one thread a process, no pid reuse, no loss |
| `CountIsHonest`, `NoWakeupIsLost` | `CountHonest`, `NoLostWakeup` | nothing |
| `GuardIsExact` | `GuardExact` | nothing |
| `OffsetsAreTrue` | `OffsetsTrue` | nothing |

The runs `endless_walk`, `seeded_exec`, `leader_first` and the paragraph after them
say what happens without the conditions of `Sensor`'s theorems. With pids given
out again while `/proc` is read, one record may get the names of another
process, a case that is neither checked nor proved.

### The table

`ProcTableProofs`. The inductive invariant is `TableInv == TableTypeOK /\ Forest`.
None of the three parts of `Forest` is inductive alone. A fork attaches the child
to the record the index names, so it needs `IndexAgrees` for the parent to be
there. Promotion moves a record to another key and updates only the ends its own
record lists: without `LinksAgree` some other record would still name the old
key. Acyclicity is stated over sets of records ("no non-empty set is closed
under parent") and not over paths, which keeps induction over the length of a
path out of the proof: a step maps a closed set of the new table to a closed
set of the old one, by renaming the promoted key back or by dropping the new
leaf. The proofs have one lemma per operation (`ForkSound`, `PromotedSound`,
`ExitSound`, `ReapSound`, ...), stated over a table and an index as parameters,
because `on_exec` and `on_proc_exec` write into the table that `ensure()` left.

Without `~Overwrites` the fork lemma is false, and `endless_walk` is its
counterexample. `AncestryReturns` turns `Acyclic` into what it is for: the set of
records a walk visits would be closed under parent if the walk had no end.

### The pipeline

`SensorProofs`. `PipelineInv` adds to the types and the forest what makes calls
disciplined: no pid above the allocator's last is known to anyone
(`PidsGivenOut`), a fork in the ring is the first the table hears of the child
(`ForkIsFirst`: nothing is overwritten), no promoting event of a process follows
its last exit (`ExitIsLast`: nothing is resurrected), and the parent that a
record or a fork in the ring names is the process that forked it (`Kinship`).
Each relates the table, the ring and the kernel, and the kernel's steps are
summed up for them in one predicate (`KernelStep`), those of the agent in
another (`Touched`). That an ancestor is never a stranger follows from `Kinship`
by induction along the two walks, `Ancestry` over records and `Forebear` over
processes (`WalksAgree`), at any depth and though events are still in the ring.

`LineageProofs` assumes that nothing is missed (`Watched`): one thread a process,
pids given out once, no losses, `/proc` read, and no exec of a process that was
found there. Its core is `Mirror`: there is a sequence of views, from the table's
to the kernel's, in which each event of the ring leads from one to the next.
So what the table holds is what the kernel was as many events ago as the ring
has now. It is stated with an existential because the program keeps no such
sequence; a kernel step appends to it and the loop drops its first.
`EveryDeathRecorded` asks for init alone in `/proc`, because the exit of another
process read from there marks nothing ("The runs").

Its second part is the case with threads and with pids that are given out again, which rules out the forest (`endless_walk`) and with it all invariants above.
`Current` says of each running process: either the table knows it, its index
entry and every record that a key of it may find are live and its own, and what
the ring holds are its own events; or a fork in the ring announces it, and all
that comes before is of earlier users of the pid, older by start time.

### The start

`StartupProofs`. The table is seeded from readings of different instants, while
events of the same processes wait in the ring. That it is a forest then rests on age: whoever
forked, or adopted, is older (`Past`), and a process that is read has an older
parent or init. The invariant relates what was read to what waits: a fork in the
ring of a process that was read too overwrites nothing, because the reading put
it under its start time (`ForkIsFresh`); whatever is named as a parent is a
forebear (`KinTold`); and whoever is neither read nor in the ring is still to be
read (`AllCovered`). Where `/proc` cannot be opened, `AllCovered` is about those who
started under the program for forks, and is all that is left: the table is
empty, and every record comes from an event. `AncestryKin` speaks of forebears any number of forks up;
`KinIsForebear` finds that number, and `ClimbIsShort` bounds it by the number of
processes, since no process is its own forebear.

### The engine

`EngineProofs`. `EngineInv == EngineTypeOK /\ OldestFirst`; `find_prior` searches
from the back and stops at the first hit that counts, so it is right only
because the vectors are in order. The refinement maps `history` to the set of
hits that are younger than the longest window, and needs four lemmas: the
window has a bound whatever the rules are, expiry keeps what is younger
(`Retained`), aging and dropping come to the same, and the last hit that counts is
the youngest of those in the set (`FindPriorIsYoungest`).

### The program

`AgentProofs`, for any finite set of CPUs, any ring, any programs, lists and
limit, and any kernel types.

`CountHonest` alone is not inductive, because a CPU in `bump()` has seen a count
that others have since overtaken. `CountInv` adds that what it has seen is no
more than the losses of the others: when it stores, one loss leaves the set of
those being counted and the count grows past what was seen by one. All
that a step of a program can do to a count is one of `Enters`, `Loads`, `Stores`
and `Moves` (`KernelSteps`), and the agent's own steps do nothing to it
(`OthersCountNothing`).

`WakeInv` carries the wake-up around the loop: before it waits the same must hold
as while it does, and between the empty ring and `clear_ready()` it is the
readiness that came since the guard was taken which counts. Its core is that
only the commit of the first record can make something takeable, and that this
is the commit which wakes (`CommitWakes`).

`GuardInv` says that the list is complete whenever a program is attached or runs,
though the agent has ended meanwhile, and before that what is in the list and
what is still to be inserted make up what was asked for. Two paths have one key
exactly when the same of them fits (`LookedUp`), and a program makes only its own
call (`KernelExact`).

`BtfInv` says that the walk stands at the first byte of a type or at the end,
and what has been answered is true. `Formatted` is what `btf.h` says of the
length of each kind's trailer and that an offset beside a width fits into 24
bits; `ExtraLenIsTrailer` says that `extra_len()` computes the same length, and
`LowBits` that the low 24 bits of `RawOffset` are the member's true place.

### Induction

The library's induction theorems take an operator as a parameter, which none of
the provers can instantiate. `NaturalRecursion` states induction with a set
(0 is in it, with n also n + 1, so all of Nat is), from the library's theorem that
`<` on Nat is well-founded, and that a function defined by recursion over Nat exists
and satisfies its equation. With it the walks `Ancestry` and `Forebear` and the
offsets `Start` can be reasoned about at every depth.

### Detection as a whole

`DetectionProofs`. `StepOfPipeline` says what a step of `Detection` is to
`Sensor`: one of its steps or none, or an open or connect that is emitted
(`Reported`) or taken (`Passed`) and changes nothing else. With it the invariants
of `SensorProofs` and `LineageProofs` hold here too.

`CorrelationIsMet` needs of the engine only that the last hit that counts is
reported, but of the pipeline that all events of a process but forks carry one
key and no other process has it (`KeyedInv`), and that the history holds keys of
processes only (`AskedInv`). So whatever key the hit stands under, if its pid is
that of the connect, its key is too.

`FactsAreTrue` is about the time between an event and its arm, so its invariant
relates the kernel, the ring and the table at once. `Believed` says: there is a
sequence of beliefs, each the executable of every pid, dead ones included, and
the arguments of its last attempt to exec, in which each event of the ring leads
from one to the next. The records say what the first of them says, the kernel is
what the last says, and the truth noted at each event is what the belief before it
says of the process and of its line. It is `Mirror` with what a chain needs
beyond it: the dead and their images, which no index names. The line itself is
fixed at birth and does not change with later forks (`LineKept`), it ends
(`LineEnds`), and the chain that the engine is told has exactly its length
(`ChainIsTrue`, from `NoneMissing` and `WalksAgree`): the code walks records and
stops where there is none, the truth counts processes.

`DetectionAssumption` is what the proof needs of the constants: rules as
`RuleSet::load` accepts them (those of `RuleSet`), and `NoName` and `Nothing`
different from every name, path and alert.

The conditions are those of `LineageProofs`, for the same reasons ("The runs"); the
constants of the run `detection` satisfy them. A
seeded process that execs gets a second record without a parent, and from then
on its chain is cut; a lost event leaves the table behind for good; a thread's
connect carries a key of its own. The start of `Detection` is the quiet one of
`Sensor`: a fork replayed over the snapshot can give the child an image of later,
as said there.

### Not proved

Liveness (`Forgotten`, `Forgets`, `Stops`, `TimerServed`) is out of the prover's
reach under fairness and stays with TLC. All invariants and action properties of
the passing runs are theorems; the conditions in the table above are part of
them.

## Not modelled

Text: rendering, JSON, the string operators of conditions, the parsing of
durations and of the files of `/proc`, the placeholders of messages. The header
and the string section of BTF, and files that are cut short. The layout of the
wire structs, and records shorter than their kind, which no program submits. The
agent is not a task of the modelled kernel, so the filter for its own tgid has
nothing to filter; opens without a write flag and ports are left out. Zombies in
`/proc`. The pid space going round during one scan of `/proc`.

## Plan

Written: all modules above, and the theorems of all of them. Next are

1. `AncestryComplete`, `FactsTrue` and `CorrelationMet` with threads: `Watched`
   asks for one thread a process where it would do that only leaders exec and
   connect.
2. `FactsTrue` behind the start of `Startup`: what may be wrong about a process
   whose fork is replayed over the snapshot, and for how long.
3. `Startup` with pids given out again while `/proc` is read.
