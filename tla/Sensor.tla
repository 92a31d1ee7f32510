--------------------------------- MODULE Sensor ---------------------------------
(******************************************************************************)
(* The tracing pipeline of nazar: a kernel whose tasks fork, clone, exec and  *)
(* exit; the probes of src/nazar-ebpf/src/main.rs, which put one event per    *)
(* step into the ring buffer; and the event loop of src/nazar-agent/src/      *)
(* main.rs, which takes the events out in order and applies them to the       *)
(* process table (module ProcTable).                                          *)
(*                                                                            *)
(* The kernel is external: it is modelled from what the probes read of it.    *)
(* task, group, lineage, last_start and last_pid are the truth the table is   *)
(* compared with; the program sees only the events.  A probe runs inside the  *)
(* kernel step it is attached to, so each kernel action emits its event.      *)
(*                                                                            *)
(* Exit events of threads that are not the last of their process are emitted  *)
(* and consumed, although on_exit() ignores them.  The openat, connect and    *)
(* LSM events share the ring but never change the table; they are left out,   *)
(* the first two until module Detection.                                      *)
(******************************************************************************)
EXTENDS ProcTable, Sequences

CONSTANTS
  Boot,       \* the processes running when the agent starts, by pid
  Capacity,   \* the events the ring buffer has room for
  MaxStart,   \* bound: the last start_boottime the kernel gives out
  Execers,    \* bound: the pids whose processes call execve
  Runs,       \* bound: the executables they call it with
  Threads,    \* whether processes clone threads
  PidReuse,   \* whether the kernel gives a freed pid again
  Lossy       \* whether the ring can be full and a probe's reads can fail

\* The processes of Boot have pids, of which there is a highest.  If /proc has been
\* read, it reports the processes of Boot, with start times rounded down to clock
\* ticks: none is the exact one.
ASSUME SensorAssumption ==
  /\ Capacity \in Nat \ {0}
  /\ MaxStart \in Nat
  /\ 1 .. MaxStart \subseteq StartTimes
  /\ Runs \subseteq Names
  /\ {Threads, PidReuse, Lossy} \subseteq BOOLEAN
  /\ 1 \in DOMAIN Boot /\ DOMAIN Snapshot \in {{}, DOMAIN Boot}
  /\ DOMAIN Boot \subseteq Tgids
  /\ \E p \in DOMAIN Boot : \A t \in DOMAIN Boot : p >= t
  /\ \A t \in DOMAIN Boot : Boot[t].start \in 1 .. MaxStart /\ Boot[t].image \in Names
  /\ \A t \in DOMAIN Snapshot :
       /\ Boot[t].image = Snapshot[t].exe
       /\ Boot[t].ppid = Snapshot[t].ppid
       /\ Snapshot[t].start_time < Boot[t].start

VARIABLES
  task,        \* live tasks by pid: their process, start_boottime and pending execve
  group,       \* live processes (thread groups) by pid: start and image
  lineage,     \* the process that forked each process, dead ones included
  last_start,  \* the newest start_boottime
  last_pid,    \* where the cyclic pid allocator continues
  attached,    \* the kinds of events whose programs are attached
  ring         \* the EVENTS ring buffer, oldest event first

kernelVars == <<task, group, lineage, last_start, last_pid, attached>>
vars == <<tableVars, kernelVars, ring>>

\* In the order main() attaches their programs.
KindsInOrder == <<"exec", "proc_exec", "fork", "exit", "open", "connect">>
Kinds == {KindsInOrder[i] : i \in DOMAIN KindsInOrder}

Id(t, s) == [tgid |-> t, start_time |-> s]

Event ==
  [kind : {"fork"}, tgid : Tgids, start : StartTimes \cup {0}, child : Tgids]
    \cup [kind : {"exec"}, tgid : Tgids, start : StartTimes \cup {0}, comm : Names, args : Names]
    \cup [kind : {"proc_exec"}, tgid : Tgids, start : StartTimes \cup {0}, exe : Names]
    \cup [kind : {"exit"}, tgid : Tgids, start : StartTimes \cup {0}, group_dead : BOOLEAN]
    \cup [kind : {"open"}, tgid : Tgids, start : StartTimes \cup {0}, path : STRING]
    \cup [kind : {"connect"}, tgid : Tgids, start : StartTimes \cup {0}, dst : STRING]

SensorTypeOK ==
  /\ TableTypeOK
  /\ DOMAIN task \subseteq Tgids
  /\ task \in [DOMAIN task -> [tgid : Tgids, start : StartTimes, execing : Names \cup {NoName}]]
  /\ group \in [{task[t].tgid : t \in DOMAIN task} -> [start : StartTimes, image : Names]]
  /\ DOMAIN lineage \subseteq ProcKey
  /\ lineage \in [DOMAIN lineage -> ProcKey \cup {NoKey}]
  /\ last_start \in 0 .. MaxStart
  /\ last_pid \in Tgids
  /\ attached \subseteq Kinds
  /\ ring \in Seq(Event) /\ Len(ring) =< Capacity

BootId(t) == IF t \in DOMAIN Boot THEN Id(t, Boot[t].start) ELSE NoKey

\* The kernel with the processes of Boot.
KernelInit ==
  /\ task = [t \in DOMAIN Boot |-> [tgid |-> t, start |-> Boot[t].start, execing |-> NoName]]
  /\ group = [t \in DOMAIN Boot |-> [start |-> Boot[t].start, image |-> Boot[t].image]]
  /\ lineage = [k \in {BootId(t) : t \in DOMAIN Boot} |-> BootId(Boot[k.tgid].ppid)]
  /\ last_start = CHOOSE s \in {Boot[t].start : t \in DOMAIN Boot} :
                    \A t \in DOMAIN Boot : s >= Boot[t].start
  /\ last_pid = CHOOSE p \in DOMAIN Boot : \A t \in DOMAIN Boot : p >= t

\* The agent attaches and reads /proc in an instant in which nothing happens.
Init ==
  /\ TableInit
  /\ KernelInit
  /\ attached = Kinds
  /\ ring = <<>>

--------------------------------------------------------------------------------
(* The probes *)

\* Mutant: the reservation fails one event too late.
EmitOneTooMany(e) ==
  \/ e.kind \notin attached /\ UNCHANGED ring
  \/ /\ e.kind \in attached
     /\ Len(ring) =< Capacity
     /\ ring' = Append(ring, e)
  \/ /\ e.kind \in attached
     /\ Lossy
     /\ Len(ring) = Capacity
     /\ UNCHANGED ring

\* RingBuf::reserve and submit.  With Lossy an event that finds the ring full is
\* gone; without, the agent keeps up: no step happens while the ring is full.
Emit(e) ==
  \/ e.kind \notin attached /\ UNCHANGED ring
  \/ /\ e.kind \in attached
     /\ Len(ring) < Capacity
     /\ ring' = Append(ring, e)
  \/ /\ e.kind \in attached
     /\ Lossy
     /\ Len(ring) = Capacity
     /\ UNCHANGED ring

\* A probe that reads memory after it reserved: a failed read discards the entry.
EmitOrDiscard(e) ==
  \/ Emit(e)
  \/ Lossy /\ UNCHANGED ring

\* current_start_time(): the running task's own start_boottime, 0 if unreadable.
StartRead(t) == {task[t].start} \cup (IF Lossy THEN {0} ELSE {})

\* Mutants: the child's pid is read at the parent's offset; the event names the
\* forking thread, not its process.
EmitForkOfParent(t, child) ==
  \E s \in StartRead(t) :
    Emit([kind |-> "fork", tgid |-> task[t].tgid, start |-> s, child |-> t])

EmitForkOfThread(t, child) ==
  \E s \in StartRead(t) :
    Emit([kind |-> "fork", tgid |-> t, start |-> s, child |-> child])

EmitFork(t, child) ==
  \E s \in StartRead(t) :
    Emit([kind |-> "fork", tgid |-> task[t].tgid, start |-> s, child |-> child])

\* bpf_get_current_comm() at sys_enter_execve still returns the old image's name.
EmitExec(t, path) ==
  \E s \in StartRead(t) :
    EmitOrDiscard([kind |-> "exec", tgid |-> task[t].tgid, start |-> s,
                   comm |-> group[task[t].tgid].image, args |-> path])

EmitExit(t, group_dead) ==
  \E s \in StartRead(t) :
    EmitOrDiscard([kind |-> "exit", tgid |-> task[t].tgid, start |-> s,
                   group_dead |-> group_dead])

\* sched_process_exec runs in the leader: the caller has taken over its pid and
\* its start_boottime.
EmitProcExec(tgid, exe) ==
  \E s \in {group[tgid].start} \cup (IF Lossy THEN {0} ELSE {}) :
    EmitOrDiscard([kind |-> "proc_exec", tgid |-> tgid, start |-> s, exe |-> exe])

--------------------------------------------------------------------------------
(* The kernel *)

\* A leader that has exited keeps its pid until its last thread is gone.
FreePids == Tgids \ (DOMAIN task \cup DOMAIN group)

\* The allocator takes the next free pid above the last one, and after the
\* highest it starts again from the lowest.
NextPids ==
  LET above == {p \in FreePids : p > last_pid}
      pool == IF above # {} \/ ~PidReuse THEN above ELSE FreePids
  IN {p \in pool : \A q \in pool : p =< q}

Siblings(t) == {u \in DOMAIN task : task[u].tgid = task[t].tgid} \ {t}

NewTask(c, tgid) ==
  /\ last_start < MaxStart
  /\ task' = Insert(task, c, [tgid |-> tgid, start |-> last_start + 1, execing |-> NoName])
  /\ last_start' = last_start + 1
  /\ last_pid' = c

Fork(t) ==
  LET g == task[t].tgid IN
  /\ task[t].execing = NoName
  /\ \E c \in NextPids :
       /\ NewTask(c, c)
       /\ group' = Insert(group, c, [start |-> last_start + 1, image |-> group[g].image])
       /\ lineage' = Insert(lineage, Id(c, last_start + 1), Id(g, group[g].start))
       /\ EmitFork(t, c)
  /\ UNCHANGED tableVars

\* sched_process_fork fires for a new thread too; its child_pid is a thread id.
Clone(t) ==
  /\ Threads
  /\ task[t].execing = NoName
  /\ \E c \in NextPids : NewTask(c, task[t].tgid) /\ EmitFork(t, c)
  /\ UNCHANGED <<tableVars, group, lineage>>

SysEnterExecve(t, path) ==
  /\ task[t].tgid \in Execers
  /\ task[t].execing = NoName
  /\ task' = [task EXCEPT ![t].execing = path]
  /\ EmitExec(t, path)
  /\ UNCHANGED <<tableVars, group, lineage, last_start, last_pid>>

\* sys_enter_execve fires for every attempt, sched_process_exec for a success.
ExecFails(t) ==
  /\ task[t].execing # NoName
  /\ task' = [task EXCEPT ![t].execing = NoName]
  /\ UNCHANGED <<tableVars, group, lineage, last_start, last_pid, ring>>

\* The caller waits for its siblings to die and then becomes the leader.
ExecSucceeds(t) ==
  LET g == task[t].tgid IN
  /\ task[t].execing # NoName
  /\ Siblings(t) = {}
  /\ task' = Insert(Without(task, {t}), g,
                    [tgid |-> g, start |-> group[g].start, execing |-> NoName])
  /\ group' = [group EXCEPT ![g].image = task[t].execing]
  /\ EmitProcExec(g, task[t].execing)
  /\ UNCHANGED <<tableVars, lineage, last_start, last_pid>>

\* Any task but the init process may end, and sched_process_exit fires for each.
Exit(t) ==
  LET group_dead == Siblings(t) = {} IN
  /\ t # 1
  /\ task' = Without(task, {t})
  /\ group' = IF group_dead THEN Without(group, {task[t].tgid}) ELSE group
  /\ EmitExit(t, group_dead)
  /\ UNCHANGED <<tableVars, lineage, last_start, last_pid>>

Kernel ==
  /\ \E t \in DOMAIN task :
       \/ Fork(t)
       \/ Clone(t)
       \/ \E path \in Runs : SysEnterExecve(t, path)
       \/ ExecFails(t)
       \/ ExecSucceeds(t)
       \/ Exit(t)
  /\ UNCHANGED attached

--------------------------------------------------------------------------------
(* The event loop: one arm per kind, and the timer *)

Take(kind) ==
  /\ ring # <<>>
  /\ Head(ring).kind = kind
  /\ ring' = Tail(ring)
  /\ UNCHANGED kernelVars

EventKey == Id(Head(ring).tgid, Head(ring).start)

ConsumeFork == Take("fork") /\ OnFork(Head(ring).tgid, Head(ring).child)
ConsumeExec == Take("exec") /\ OnExec(EventKey, Head(ring).comm, Head(ring).args)
ConsumeProcExec == Take("proc_exec") /\ OnProcExec(EventKey, Head(ring).exe)
ConsumeExit == Take("exit") /\ OnExit(EventKey, Head(ring).group_dead)

Consume == ConsumeFork \/ ConsumeExec \/ ConsumeProcExec \/ ConsumeExit

Expire == Reap /\ UNCHANGED <<kernelVars, ring>>
Tick == Elapse /\ UNCHANGED <<kernelVars, ring>>

Next == Kernel \/ Consume \/ Expire \/ Tick

Spec == Init /\ [][Next]_vars

\* The loop takes events while there are any, its timer fires for ever, and time
\* passes.  Nothing is assumed of the kernel.
FairSpec == Spec /\ WF_vars(Consume) /\ WF_vars(Expire) /\ WF_vars(Tick)

--------------------------------------------------------------------------------
(* The truth the table is compared with *)

Identity(t) == Id(t, group[t].start)

\* The cursor of a walk from a process to init, i forks up.
Forebear(id) ==
  LET up[i \in Nat] ==
        LET k == IF i = 0 THEN id ELSE up[i - 1]
        IN IF k \in DOMAIN lineage THEN lineage[k] ELSE NoKey
  IN up

Generations == 0 .. Cardinality(DOMAIN lineage)

\* Every event has been applied.
CaughtUp == ring = <<>>

\* The records that can only be about process t: one whose start_time is not
\* known yet, the one read from /proc, or one no older than the process.
OwnRecord(k, t) ==
  /\ k.tgid = t
  /\ \/ k.start_time = 0
     \/ k.start_time >= group[t].start
     \/ t \in DOMAIN Snapshot /\ group[t].start = Boot[t].start /\ k = SeedKey(t)

--------------------------------------------------------------------------------
(* What the pipeline promises *)

\* Once the events are applied, every running process resolves to a record that
\* is about this process and not about an earlier user of its pid, and that is
\* not a tombstone (resolve()'s fallback to the newest record of a tgid).
ResolveCurrent ==
  CaughtUp =>
    \A t \in DOMAIN group :
      LET k == Resolve(Identity(t)) IN
      k # NoKey /\ OwnRecord(k, t) /\ nodes[k].exited_at = NotExited

\* Every ancestor an alert about a running process would name is the one that
\* many forks up: the chain may be cut short, but it never names a stranger
\* (README, "Process identity has to survive PID reuse").
AncestryNeverWrong ==
  CaughtUp =>
    \A t \in DOMAIN group, i \in Generations :
      LET told == Ancestry(Identity(t))[i]
          real == Forebear(Identity(t))[i]
      IN told \in DOMAIN nodes => real # NoKey /\ told.tgid = real.tgid

\* The chain also reaches init: no ancestor is missing, though it be long dead
\* ("Every alert carries the full ancestry back to PID 1").
AncestryComplete ==
  CaughtUp =>
    \A t \in DOMAIN group, i \in Generations :
      LET told == Ancestry(Identity(t))[i]
          real == Forebear(Identity(t))[i]
      IN real # NoKey => told \in DOMAIN nodes /\ told.tgid = real.tgid

\* The actor an alert names is the executable the process runs: on_fork copies
\* the parent's as it was at the fork, whatever the parent has run since.
ExeTracksImage ==
  CaughtUp =>
    \A t \in DOMAIN group :
      LET k == Resolve(Identity(t)) IN k # NoKey /\ nodes[k].exe = group[t].image

\* A process record without a tombstone is about a running process: the last
\* exit of a process marks its record, whichever thread is the last ("only
\* group_dead=1 marks the real death").
DeathRecorded ==
  CaughtUp =>
    \A k \in DOMAIN nodes :
      (nodes[k].exited_at = NotExited /\ \E id \in DOMAIN lineage : id.tgid = k.tgid)
        => k.tgid \in DOMAIN group

Extinct(t) ==
  /\ \E id \in DOMAIN lineage : id.tgid = t
  /\ t \notin DOMAIN group
  /\ \A u \in DOMAIN group, i \in Generations :
       Forebear(Identity(u))[i] # NoKey => Forebear(Identity(u))[i].tgid # t

\* A process that is gone with all its descendants leaves the table in the end:
\* tombstones are not kept for ever.
Forgotten ==
  \A t \in Tgids : Extinct(t) ~> \A k \in DOMAIN nodes : k.tgid # t

================================================================================
