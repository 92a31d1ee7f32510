------------------------------ MODULE SensorProofs ------------------------------
(******************************************************************************)
(* Proofs about the tracing pipeline, for every set of pids, every ring        *)
(* capacity, every set of processes running when the agent starts, and for     *)
(* threads and lost events alike.                                              *)
(******************************************************************************)
EXTENDS Sensor, ProcTableProofs, NaturalRecursion, FiniteSetTheorems

--------------------------------------------------------------------------------
(* The invariant *)

\* A pid in use as a thread and as a process belongs to the leader.
Leaders == \A t \in DOMAIN task : t \in DOMAIN group => task[t].tgid = t

\* The events by which a record moves to its real key, and the last of a process.
Promoting(e) == e.kind \in {"exec", "proc_exec"}
Ends(e) == e.kind = "exit" /\ e.group_dead

\* No pid beyond the allocator's last is known to anyone.
PidsGivenOut ==
  /\ \A t \in DOMAIN task : t =< last_pid /\ task[t].tgid =< last_pid
  /\ \A id \in DOMAIN lineage : id.tgid =< last_pid
  /\ \A k \in DOMAIN nodes : k.tgid =< last_pid
  /\ \A i \in 1 .. Len(ring) :
       /\ ring[i].tgid =< last_pid
       /\ ring[i].kind = "fork" => ring[i].child =< last_pid

\* A fork that waits in the ring is the first the table hears of the child.
ForkIsFirst ==
  \A i \in 1 .. Len(ring) : ring[i].kind = "fork" =>
    /\ \A k \in DOMAIN nodes : k.tgid # ring[i].child
    /\ \A j \in 1 .. i - 1 :
         /\ ring[j].tgid # ring[i].child
         /\ ring[j].kind = "fork" => ring[j].child # ring[i].child

\* Once the last exit of a process is in the ring or in the table, no event that
\* would promote a record of it comes any more.
ExitIsLast ==
  /\ \A k \in DOMAIN nodes : nodes[k].exited_at # NotExited =>
       /\ k.tgid \notin DOMAIN group
       /\ \A i \in 1 .. Len(ring) : Promoting(ring[i]) => ring[i].tgid # k.tgid
  /\ \A i \in 1 .. Len(ring) : Ends(ring[i]) =>
       /\ ring[i].tgid \notin DOMAIN group
       /\ \A j \in i + 1 .. Len(ring) : Promoting(ring[j]) => ring[j].tgid # ring[i].tgid

\* Every running process has a place in the lineage.
Descended == \A t \in DOMAIN group : Identity(t) \in DOMAIN lineage

\* The parent a record names, or a fork in the ring will give it, is the process
\* that forked it.
Kinship ==
  /\ \A k \in DOMAIN nodes, id \in DOMAIN lineage :
       k.tgid = id.tgid /\ nodes[k].parent # NoKey =>
         lineage[id] \in DOMAIN lineage /\ lineage[id].tgid = nodes[k].parent.tgid
  /\ \A i \in 1 .. Len(ring), id \in DOMAIN lineage :
       ring[i].kind = "fork" /\ ring[i].child = id.tgid =>
         lineage[id] \in DOMAIN lineage /\ lineage[id].tgid = ring[i].tgid

--------------------------------------------------------------------------------
(* Events and the ring *)

\* What an event of each kind carries.
LEMMA EventFields ==
  ASSUME NEW e \in Event
  PROVE  /\ e.kind \in {"fork", "exec", "proc_exec", "exit", "open", "connect"}
         /\ e.tgid \in Tgids /\ e.start \in StartTimes \cup {0}
         /\ e.kind = "fork" => e.child \in Tgids
         /\ e.kind = "exec" => e.comm \in Names /\ e.args \in Names
         /\ e.kind = "proc_exec" => e.exe \in Names
         /\ e.kind = "exit" => e.group_dead \in BOOLEAN
  BY DEF Event

\* The ring after a probe ran: as it was, or one event longer.
Grows(e) ==
  \/ ring' = ring
  \/ Len(ring) < Capacity /\ ring' = Append(ring, e)

\* Whatever becomes of the reservation, no event but e is added, and only in its
\* place.
LEMMA EmitGrows ==
  ASSUME NEW e, Emit(e) \/ EmitOrDiscard(e)
  PROVE  Grows(e)
  BY DEF Emit, EmitOrDiscard, Grows

LEMMA KindsAre == Kinds = {"fork", "exec", "proc_exec", "exit", "open", "connect"}
<1>1. DOMAIN KindsInOrder = 1 .. 6
  BY DEF KindsInOrder
<1>2. /\ KindsInOrder[1] = "exec" /\ KindsInOrder[2] = "proc_exec"
      /\ KindsInOrder[3] = "fork" /\ KindsInOrder[4] = "exit"
      /\ KindsInOrder[5] = "open" /\ KindsInOrder[6] = "connect"
  BY DEF KindsInOrder
<1> QED
  BY <1>1, <1>2 DEF Kinds

\* Without losses, a probe that is attached always delivers.
LEMMA EmitDelivers ==
  ASSUME ~Lossy, attached = Kinds, NEW e,
         e.kind \in {"fork", "exec", "proc_exec", "exit", "open", "connect"},
         Emit(e) \/ EmitOrDiscard(e)
  PROVE  ring' = Append(ring, e)
  BY KindsAre DEF Emit, EmitOrDiscard

\* Where the events are after one was added.
LEMMA Appended ==
  ASSUME NEW r \in Seq(Event), NEW e \in Event
  PROVE  /\ Append(r, e) \in Seq(Event) /\ Len(Append(r, e)) = Len(r) + 1
         /\ Append(r, e)[Len(r) + 1] = e
         /\ \A i \in 1 .. Len(r) : Append(r, e)[i] = r[i]
  OBVIOUS

\* Where the events are after the first was taken.
LEMMA Taken ==
  ASSUME NEW r \in Seq(Event), r # <<>>
  PROVE  /\ Tail(r) \in Seq(Event) /\ Len(Tail(r)) = Len(r) - 1 /\ Len(r) \in Nat \ {0}
         /\ Head(r) = r[1] /\ Head(r) \in Event
         /\ \A i \in 1 .. Len(Tail(r)) : Tail(r)[i] = r[i + 1]
  OBVIOUS

--------------------------------------------------------------------------------
(* Types *)

\* The kernel's part of the type invariant, and the part of the ring.
KernelTyped ==
  /\ DOMAIN task \subseteq Tgids
  /\ task \in [DOMAIN task -> [tgid : Tgids, start : StartTimes, execing : Names \cup {NoName}]]
  /\ DOMAIN group = {task[t].tgid : t \in DOMAIN task}
  /\ group \in [DOMAIN group -> [start : StartTimes, image : Names]]
  /\ DOMAIN lineage \subseteq ProcKey
  /\ lineage \in [DOMAIN lineage -> ProcKey \cup {NoKey}]
  /\ last_start \in 0 .. MaxStart
  /\ last_pid \in Tgids
  /\ attached \subseteq Kinds

RingTyped == ring \in Seq(Event) /\ Len(ring) =< Capacity

LEMMA TypeIsTyped ==
  SensorTypeOK <=> TableTypeOK /\ KernelTyped /\ RingTyped
<1>1. SensorTypeOK => KernelTyped
  BY DEF SensorTypeOK, KernelTyped
<1>2. KernelTyped => group \in [{task[t].tgid : t \in DOMAIN task} -> [start : StartTimes, image : Names]]
  BY DEF KernelTyped
<1> QED
  BY <1>1, <1>2 DEF SensorTypeOK, KernelTyped, RingTyped

LEMMA TaskTyped ==
  ASSUME KernelTyped, NEW t \in DOMAIN task
  PROVE  /\ t \in Tgids /\ task[t].tgid \in Tgids /\ task[t].start \in StartTimes
         /\ task[t].execing \in Names \cup {NoName}
         /\ task[t].tgid \in DOMAIN group
         /\ group[task[t].tgid].start \in StartTimes /\ group[task[t].tgid].image \in Names
  BY DEF KernelTyped

--------------------------------------------------------------------------------
(* One step of the kernel *)

\* A pid this step gives out.
New(p) ==
  /\ p = last_pid' /\ p \notin DOMAIN task \cup DOMAIN group
  /\ PidReuse \/ p > last_pid

\* What the pipeline depends on of a kernel step, whose event is e.
KernelStep(e) ==
  /\ Grows(e) /\ e.tgid \in DOMAIN group
  /\ last_pid' = last_pid \/ New(last_pid')
  /\ \A t \in DOMAIN task' : t \in DOMAIN task \cup DOMAIN group \/ New(t)
  /\ \A t \in DOMAIN group' : t \in DOMAIN group \/ New(t)
  /\ Ends(e) => e.tgid \notin DOMAIN group'
  /\ e.kind = "fork" => New(e.child)
  /\ DOMAIN lineage \subseteq DOMAIN lineage'
  /\ \A id \in DOMAIN lineage' :
       \/ id \in DOMAIN lineage /\ lineage'[id] = lineage[id]
       \/ /\ e.kind = "fork" /\ New(id.tgid)
          /\ lineage'[id] \in DOMAIN lineage /\ lineage'[id].tgid = e.tgid

KernelSound == KernelTyped /\ Leaders /\ Descended

LEMMA NextPidIsNew ==
  ASSUME NEW c \in NextPids, last_pid' = c
  PROVE  New(c) /\ c \in Tgids
  BY DEF NextPids, FreePids, New

LEMMA NewTaskTyped ==
  ASSUME KernelTyped, NEW c \in NextPids, NEW tgid \in Tgids, NewTask(c, tgid)
  PROVE  /\ New(c) /\ c \in Tgids /\ last_pid' = c
         /\ last_start + 1 \in StartTimes /\ last_start' \in 0 .. MaxStart
         /\ DOMAIN task' = DOMAIN task \cup {c} /\ c \notin DOMAIN task
         /\ task'[c] = [tgid |-> tgid, start |-> last_start + 1, execing |-> NoName]
         /\ \A t \in DOMAIN task : task'[t] = task[t]
         /\ task' \in [DOMAIN task' -> [tgid : Tgids, start : StartTimes, execing : Names \cup {NoName}]]
<1>1. last_pid' = c /\ New(c) /\ c \in Tgids /\ c \notin DOMAIN task
  BY NextPidIsNew DEF NewTask, New
<1>2. last_start' = last_start + 1 /\ last_start + 1 \in 1 .. MaxStart
  BY SensorAssumption DEF KernelTyped, NewTask
<1>3. last_start + 1 \in StartTimes /\ last_start' \in 0 .. MaxStart
  BY <1>2, SensorAssumption
<1>4. task' = Insert(task, c, [tgid |-> tgid, start |-> last_start + 1, execing |-> NoName])
  BY DEF NewTask
<1>5. /\ DOMAIN task' = DOMAIN task \cup {c}
      /\ task'[c] = [tgid |-> tgid, start |-> last_start + 1, execing |-> NoName]
      /\ \A t \in DOMAIN task : task'[t] = task[t]
      /\ task' = [t \in DOMAIN task' |-> task'[t]]
  BY <1>1, <1>4 DEF Insert
<1>6. \A t \in DOMAIN task' : task'[t] \in [tgid : Tgids, start : StartTimes, execing : Names \cup {NoName}]
  BY <1>3, <1>5 DEF KernelTyped
<1> QED
  BY <1>1, <1>3, <1>5, <1>6

LEMMA ForkStep ==
  ASSUME KernelSound, NEW t \in DOMAIN task, Fork(t), UNCHANGED attached
  PROVE  KernelSound' /\ \E e \in Event : KernelStep(e)
<1> DEFINE g == task[t].tgid
<1>1. PICK c \in NextPids :
        /\ NewTask(c, c)
        /\ group' = Insert(group, c, [start |-> last_start + 1, image |-> group[g].image])
        /\ lineage' = Insert(lineage, Id(c, last_start + 1), Id(g, group[g].start))
        /\ EmitFork(t, c)
  BY DEF Fork
<1>2. PICK s \in StartRead(t) :
        Emit([kind |-> "fork", tgid |-> g, start |-> s, child |-> c])
  BY <1>1 DEF EmitFork
<1> DEFINE e == [kind |-> "fork", tgid |-> g, start |-> s, child |-> c]
           id == Id(c, last_start + 1)
<1>3. /\ g \in Tgids /\ g \in DOMAIN group /\ group[g].start \in StartTimes
      /\ group[g].image \in Names /\ s \in StartTimes \cup {0}
  BY <1>2, TaskTyped DEF StartRead, KernelSound
<1>4. /\ New(c) /\ c \in Tgids /\ last_pid' = c
      /\ last_start + 1 \in StartTimes /\ last_start' \in 0 .. MaxStart
      /\ DOMAIN task' = DOMAIN task \cup {c} /\ c \notin DOMAIN task
      /\ task'[c] = [tgid |-> c, start |-> last_start + 1, execing |-> NoName]
      /\ \A u \in DOMAIN task : task'[u] = task[u]
      /\ task' \in [DOMAIN task' -> [tgid : Tgids, start : StartTimes, execing : Names \cup {NoName}]]
  <2>1. KernelTyped /\ c \in Tgids
    BY DEF KernelSound, NextPids, FreePids
  <2> QED
    BY <1>1, <2>1, NewTaskTyped
<1>5. e \in Event /\ Grows(e) /\ e.kind = "fork" /\ e.tgid = g /\ e.child = c /\ ~Ends(e)
  BY <1>2, <1>3, <1>4, EmitGrows DEF Event, Ends
<1>6. /\ DOMAIN group' = DOMAIN group \cup {c} /\ c \notin DOMAIN group
      /\ group'[c] = [start |-> last_start + 1, image |-> group[g].image]
      /\ \A u \in DOMAIN group : group'[u] = group[u]
      /\ group' = [u \in DOMAIN group' |-> group'[u]]
  BY <1>1, <1>4 DEF Insert, New
<1>7. id \in ProcKey /\ id.tgid = c /\ id.start_time = last_start + 1
  BY <1>4 DEF Id, ProcKey
<1>8. /\ Id(g, group[g].start) \in DOMAIN lineage /\ Id(g, group[g].start) \in ProcKey
      /\ Id(g, group[g].start).tgid = g
  BY <1>3 DEF KernelSound, KernelTyped, Descended, Identity, Id
<1>9. /\ DOMAIN lineage' = DOMAIN lineage \cup {id}
      /\ lineage'[id] = Id(g, group[g].start)
      /\ \A k \in DOMAIN lineage : k # id => lineage'[k] = lineage[k]
      /\ lineage' = [k \in DOMAIN lineage' |-> lineage'[k]]
  BY <1>1 DEF Insert
<1>10. KernelTyped'
  <2>1. DOMAIN group' = {task'[u].tgid : u \in DOMAIN task'}
    BY <1>4, <1>6 DEF KernelSound, KernelTyped
  <2>2. group' \in [DOMAIN group' -> [start : StartTimes, image : Names]]
    BY <1>3, <1>4, <1>6 DEF KernelSound, KernelTyped
  <2>3. lineage' \in [DOMAIN lineage' -> ProcKey \cup {NoKey}] /\ DOMAIN lineage' \subseteq ProcKey
    BY <1>7, <1>8, <1>9 DEF KernelSound, KernelTyped
  <2> QED
    BY <1>4, <2>1, <2>2, <2>3 DEF KernelSound, KernelTyped
<1>11. Leaders'
  BY <1>4, <1>6 DEF KernelSound, Leaders
<1>12. Descended'
  <2>1. \A u \in DOMAIN group' : Identity(u)' = Id(u, group'[u].start)
    BY DEF Identity
  <2>2. Identity(c)' = id
    BY <1>6, <2>1
  <2>3. \A u \in DOMAIN group : Identity(u)' = Identity(u)
    BY <1>6, <2>1 DEF Identity
  <2> QED
    BY <1>6, <1>9, <2>2, <2>3 DEF KernelSound, Descended
<1>13. KernelStep(e)
  <2>1. \A u \in DOMAIN task' : u \in DOMAIN task \cup DOMAIN group \/ New(u)
    BY <1>4
  <2>2. \A u \in DOMAIN group' : u \in DOMAIN group \/ New(u)
    BY <1>4, <1>6
  <2>3. \A k \in DOMAIN lineage' :
          \/ k \in DOMAIN lineage /\ lineage'[k] = lineage[k]
          \/ New(k.tgid) /\ lineage'[k] \in DOMAIN lineage /\ lineage'[k].tgid = g
    BY <1>4, <1>7, <1>8, <1>9
  <2> HIDE DEF e, id, g
  <2> QED
    BY <1>3, <1>4, <1>5, <1>9, <2>1, <2>2, <2>3 DEF KernelStep
<1> QED
  BY <1>5, <1>10, <1>11, <1>12, <1>13 DEF KernelSound

LEMMA CloneStep ==
  ASSUME KernelSound, NEW t \in DOMAIN task, Clone(t), UNCHANGED attached
  PROVE  KernelSound' /\ \E e \in Event : KernelStep(e)
<1> DEFINE g == task[t].tgid
<1>1. PICK c \in NextPids : NewTask(c, g) /\ EmitFork(t, c)
  BY DEF Clone
<1>2. PICK s \in StartRead(t) :
        Emit([kind |-> "fork", tgid |-> g, start |-> s, child |-> c])
  BY <1>1 DEF EmitFork
<1> DEFINE e == [kind |-> "fork", tgid |-> g, start |-> s, child |-> c]
<1>3. g \in Tgids /\ g \in DOMAIN group /\ s \in StartTimes \cup {0}
  BY <1>2, TaskTyped DEF StartRead, KernelSound
<1>4. /\ New(c) /\ c \in Tgids /\ last_pid' = c
      /\ last_start + 1 \in StartTimes /\ last_start' \in 0 .. MaxStart
      /\ DOMAIN task' = DOMAIN task \cup {c} /\ c \notin DOMAIN task
      /\ task'[c] = [tgid |-> g, start |-> last_start + 1, execing |-> NoName]
      /\ \A u \in DOMAIN task : task'[u] = task[u]
      /\ task' \in [DOMAIN task' -> [tgid : Tgids, start : StartTimes, execing : Names \cup {NoName}]]
  BY <1>1, <1>3, NewTaskTyped DEF KernelSound
<1>5. e \in Event /\ Grows(e) /\ e.kind = "fork" /\ e.tgid = g /\ e.child = c /\ ~Ends(e)
  BY <1>2, <1>3, <1>4, EmitGrows DEF Event, Ends
<1>6. group' = group /\ lineage' = lineage /\ c \notin DOMAIN group
  BY <1>4 DEF Clone, New
<1>7. KernelTyped'
  <2>1. DOMAIN group' = {task'[u].tgid : u \in DOMAIN task'}
    BY <1>3, <1>4, <1>6 DEF KernelSound, KernelTyped
  <2> QED
    BY <1>4, <1>6, <2>1 DEF KernelSound, KernelTyped
<1>8. Leaders' /\ Descended'
  BY <1>4, <1>6 DEF KernelSound, Leaders, Descended, Identity
<1>9. KernelStep(e)
  <2> HIDE DEF e, g
  <2> QED
    BY <1>3, <1>4, <1>5, <1>6 DEF KernelStep
<1> QED
  BY <1>5, <1>7, <1>8, <1>9 DEF KernelSound

LEMMA SysEnterExecveStep ==
  ASSUME KernelSound, NEW t \in DOMAIN task, NEW path \in Runs,
         SysEnterExecve(t, path), UNCHANGED attached
  PROVE  KernelSound' /\ \E e \in Event : KernelStep(e)
<1> DEFINE g == task[t].tgid
<1>1. PICK s \in StartRead(t) :
        EmitOrDiscard([kind |-> "exec", tgid |-> g, start |-> s,
                       comm |-> group[g].image, args |-> path])
  BY DEF SysEnterExecve, EmitExec
<1> DEFINE e == [kind |-> "exec", tgid |-> g, start |-> s, comm |-> group[g].image, args |-> path]
<1>2. /\ g \in Tgids /\ g \in DOMAIN group /\ s \in StartTimes \cup {0}
      /\ group[g].image \in Names /\ path \in Names
  BY <1>1, TaskTyped, SensorAssumption DEF StartRead, KernelSound
<1>3. e \in Event /\ Grows(e) /\ e.kind = "exec" /\ e.tgid = g /\ ~Ends(e)
  BY <1>1, <1>2, EmitGrows DEF Event, Ends
<1>4. /\ group' = group /\ lineage' = lineage /\ last_pid' = last_pid /\ last_start' = last_start
      /\ DOMAIN task' = DOMAIN task /\ \A u \in DOMAIN task : task'[u].tgid = task[u].tgid
      /\ task' \in [DOMAIN task' -> [tgid : Tgids, start : StartTimes, execing : Names \cup {NoName}]]
  BY <1>2 DEF SysEnterExecve, KernelSound, KernelTyped
<1>5. KernelTyped'
  BY <1>4 DEF KernelSound, KernelTyped
<1>6. Leaders' /\ Descended'
  BY <1>4 DEF KernelSound, Leaders, Descended, Identity
<1>7. KernelStep(e)
  <2> HIDE DEF e, g
  <2> QED
    BY <1>2, <1>3, <1>4 DEF KernelStep
<1> QED
  BY <1>3, <1>5, <1>6, <1>7 DEF KernelSound

LEMMA ExecFailsStep ==
  ASSUME KernelSound, NEW t \in DOMAIN task, ExecFails(t), UNCHANGED attached
  PROVE  KernelSound' /\ \E e \in Event : KernelStep(e)
<1> DEFINE g == task[t].tgid
           e == [kind |-> "exit", tgid |-> g, start |-> 0, group_dead |-> FALSE]
<1>1. g \in Tgids /\ g \in DOMAIN group
  BY TaskTyped DEF KernelSound
<1>2. e \in Event /\ Grows(e) /\ e.kind = "exit" /\ e.tgid = g /\ ~Ends(e)
  BY <1>1 DEF ExecFails, Event, Ends, Grows
<1>3. /\ group' = group /\ lineage' = lineage /\ last_pid' = last_pid /\ last_start' = last_start
      /\ DOMAIN task' = DOMAIN task /\ \A u \in DOMAIN task : task'[u].tgid = task[u].tgid
      /\ task' \in [DOMAIN task' -> [tgid : Tgids, start : StartTimes, execing : Names \cup {NoName}]]
  BY DEF ExecFails, KernelSound, KernelTyped
<1>4. KernelTyped'
  BY <1>3 DEF KernelSound, KernelTyped
<1>5. Leaders' /\ Descended'
  BY <1>3 DEF KernelSound, Leaders, Descended, Identity
<1>6. KernelStep(e)
  <2> HIDE DEF e, g
  <2> QED
    BY <1>1, <1>2, <1>3 DEF KernelStep
<1> QED
  BY <1>2, <1>4, <1>5, <1>6 DEF KernelSound

LEMMA ExecSucceedsStep ==
  ASSUME KernelSound, NEW t \in DOMAIN task, ExecSucceeds(t), UNCHANGED attached
  PROVE  KernelSound' /\ \E e \in Event : KernelStep(e)
<1> DEFINE g == task[t].tgid
           path == task[t].execing
<1>1. /\ g \in Tgids /\ g \in DOMAIN group /\ group[g].start \in StartTimes
      /\ path \in Names
  BY TaskTyped DEF KernelSound, ExecSucceeds
<1>2. PICK s \in {group[g].start} \cup (IF Lossy THEN {0} ELSE {}) :
        EmitOrDiscard([kind |-> "proc_exec", tgid |-> g, start |-> s, exe |-> path])
  BY DEF ExecSucceeds, EmitProcExec
<1> DEFINE e == [kind |-> "proc_exec", tgid |-> g, start |-> s, exe |-> path]
<1>3. e \in Event /\ Grows(e) /\ e.kind = "proc_exec" /\ e.tgid = g /\ ~Ends(e)
  BY <1>1, <1>2, EmitGrows DEF Event, Ends
<1>4. \A u \in DOMAIN task : task[u].tgid = g <=> u = t
  BY DEF ExecSucceeds, Siblings
<1>5. g = t \/ g \notin DOMAIN task
  BY <1>1, <1>4 DEF KernelSound, Leaders
<1>6. /\ DOMAIN task' = (DOMAIN task \ {t}) \cup {g}
      /\ task'[g] = [tgid |-> g, start |-> group[g].start, execing |-> NoName]
      /\ \A u \in DOMAIN task \ {t} : task'[u] = task[u]
      /\ task' = [u \in DOMAIN task' |-> task'[u]]
  BY <1>5 DEF ExecSucceeds, Insert, Without
<1>7. /\ group' = [group EXCEPT ![g].image = path] /\ lineage' = lineage
      /\ last_pid' = last_pid /\ last_start' = last_start
  BY DEF ExecSucceeds
<1>8. /\ DOMAIN group' = DOMAIN group /\ group' \in [DOMAIN group' -> [start : StartTimes, image : Names]]
      /\ \A u \in DOMAIN group : group'[u].start = group[u].start
  BY <1>1, <1>7 DEF KernelSound, KernelTyped
<1>9. KernelTyped'
  <2>1. task' \in [DOMAIN task' -> [tgid : Tgids, start : StartTimes, execing : Names \cup {NoName}]]
    BY <1>1, <1>6 DEF KernelSound, KernelTyped
  <2>2. {task'[u].tgid : u \in DOMAIN task'} = {task[u].tgid : u \in DOMAIN task}
    <3>1. \A u \in DOMAIN task' :
            \/ u = g /\ task'[u].tgid = g
            \/ u \in DOMAIN task \ {t} /\ task'[u].tgid = task[u].tgid
      BY <1>6
    <3>2. \A u \in DOMAIN task :
            \/ u = t
            \/ u \in DOMAIN task' /\ task'[u].tgid = task[u].tgid
      BY <1>6
    <3>3. g \in DOMAIN task' /\ task'[g].tgid = g
      BY <1>6
    <3> QED
      BY <3>1, <3>2, <3>3
  <2> QED
    BY <1>1, <1>6, <1>7, <1>8, <2>1, <2>2 DEF KernelSound, KernelTyped
<1>10. Leaders' /\ Descended'
  BY <1>6, <1>7, <1>8 DEF KernelSound, Leaders, Descended, Identity
<1>11. KernelStep(e)
  <2> HIDE DEF e, g
  <2> QED
    BY <1>1, <1>3, <1>6, <1>7, <1>8 DEF KernelStep
<1> QED
  BY <1>3, <1>9, <1>10, <1>11 DEF KernelSound

LEMMA ExitStep ==
  ASSUME KernelSound, NEW t \in DOMAIN task, Exit(t), UNCHANGED attached
  PROVE  KernelSound' /\ \E e \in Event : KernelStep(e)
<1> DEFINE g == task[t].tgid
           dead == Siblings(t) = {}
<1>1. PICK s \in StartRead(t) :
        EmitOrDiscard([kind |-> "exit", tgid |-> g, start |-> s, group_dead |-> dead])
  BY DEF Exit, EmitExit
<1> DEFINE e == [kind |-> "exit", tgid |-> g, start |-> s, group_dead |-> dead]
<1>2. g \in Tgids /\ g \in DOMAIN group /\ s \in StartTimes \cup {0} /\ dead \in BOOLEAN
  BY <1>1, TaskTyped DEF StartRead, KernelSound
<1>3. e \in Event /\ Grows(e) /\ e.kind = "exit" /\ e.tgid = g /\ e.group_dead = dead
  <2> HIDE DEF dead
  <2> QED
    BY <1>1, <1>2, EmitGrows DEF Event
<1>4. /\ DOMAIN task' = DOMAIN task \ {t} /\ \A u \in DOMAIN task \ {t} : task'[u] = task[u]
      /\ task' = [u \in DOMAIN task' |-> task'[u]]
      /\ lineage' = lineage /\ last_pid' = last_pid /\ last_start' = last_start
  BY DEF Exit, Without
<1>5. /\ DOMAIN group' = IF dead THEN DOMAIN group \ {g} ELSE DOMAIN group
      /\ \A u \in DOMAIN group' : group'[u] = group[u]
      /\ group' = [u \in DOMAIN group' |-> group'[u]]
  BY DEF Exit, Without, KernelSound, KernelTyped
<1>6. dead => \A u \in DOMAIN task \ {t} : task[u].tgid # g
  BY DEF Siblings
<1>7. ~dead => \E u \in DOMAIN task \ {t} : task[u].tgid = g
  BY DEF Siblings
<1> HIDE DEF dead
<1>8. KernelTyped'
  <2>1. task' \in [DOMAIN task' -> [tgid : Tgids, start : StartTimes, execing : Names \cup {NoName}]]
    BY <1>4 DEF KernelSound, KernelTyped
  <2>2. group' \in [DOMAIN group' -> [start : StartTimes, image : Names]]
    BY <1>5 DEF KernelSound, KernelTyped
  <2>3. DOMAIN group' = {task'[u].tgid : u \in DOMAIN task'}
    <3>1. DOMAIN group = {task[u].tgid : u \in DOMAIN task}
      BY DEF KernelSound, KernelTyped
    <3> QED
      BY <1>4, <1>5, <1>6, <1>7, <3>1
  <2> QED
    BY <1>4, <2>1, <2>2, <2>3 DEF KernelSound, KernelTyped
<1>9. Leaders' /\ Descended'
  BY <1>4, <1>5 DEF KernelSound, Leaders, Descended, Identity
<1>10. KernelStep(e)
  <2>1. Ends(e) => g \notin DOMAIN group'
    BY <1>3, <1>5 DEF Ends
  <2> HIDE DEF e, g
  <2> QED
    BY <1>2, <1>3, <1>4, <1>5, <2>1 DEF KernelStep
<1> QED
  BY <1>3, <1>8, <1>9, <1>10 DEF KernelSound

\* Every step of the kernel keeps it well-formed and adds at most one event.
LEMMA KernelSteps ==
  ASSUME KernelSound, Kernel
  PROVE  KernelSound' /\ (\E e \in Event : KernelStep(e)) /\ UNCHANGED tableVars
<1>1. UNCHANGED tableVars
  BY DEF Kernel, Fork, Clone, SysEnterExecve, ExecFails, ExecSucceeds, Exit
<1> QED
  BY <1>1, ForkStep, CloneStep, SysEnterExecveStep, ExecFailsStep, ExecSucceedsStep, ExitStep
     DEF Kernel

--------------------------------------------------------------------------------
(* The initial state *)

LEMMA BootIds ==
  ASSUME NEW t \in DOMAIN Boot
  PROVE  /\ BootId(t) = Id(t, Boot[t].start) /\ BootId(t) \in ProcKey
         /\ BootId(t).tgid = t /\ BootId(t) # NoKey
<1>1. t \in Tgids /\ Boot[t].start \in StartTimes
  BY SensorAssumption
<1> QED
  BY <1>1, ProcTableAssumption DEF BootId, Id, ProcKey

\* None of the processes that run at the start is younger than the newest.
LEMMA BootIsPast ==
  ASSUME KernelInit
  PROVE  /\ last_start \in 0 .. MaxStart
         /\ \A t \in DOMAIN Boot : Boot[t].start \in Nat /\ Boot[t].start =< last_start
<1> DEFINE starts == {Boot[t].start : t \in DOMAIN Boot}
<1>1. \A t \in DOMAIN Boot : Boot[t].start \in Nat /\ Boot[t].start =< MaxStart
  BY SensorAssumption
<1>2. starts \subseteq Nat /\ starts # {} /\ MaxStart \in Nat /\ \A s \in starts : s =< MaxStart
  BY <1>1, SensorAssumption
<1>3. \E s \in starts : \A r \in starts : r =< s
  <2> HIDE DEF starts
  <2> QED
    BY <1>2, GreatestNumber
<1>4. \E s \in starts : \A t \in DOMAIN Boot : s >= Boot[t].start
  BY <1>1, <1>3
<1>5. last_start = CHOOSE s \in starts : \A t \in DOMAIN Boot : s >= Boot[t].start
  BY DEF KernelInit
<1>6. last_start \in starts /\ \A t \in DOMAIN Boot : last_start >= Boot[t].start
  BY <1>4, <1>5
<1> QED
  BY <1>1, <1>2, <1>6

LEMMA KernelInitSound ==
  ASSUME KernelInit, attached \subseteq Kinds
  PROVE  /\ KernelSound
         /\ DOMAIN lineage = {BootId(t) : t \in DOMAIN Boot}
         /\ \A t \in DOMAIN Boot : t =< last_pid /\ lineage[BootId(t)] = BootId(Boot[t].ppid)
         /\ DOMAIN task = DOMAIN Boot /\ \A t \in DOMAIN task : task[t].tgid = t
<1>1. \A t \in DOMAIN Boot : /\ t \in Tgids /\ Boot[t].start \in 1 .. MaxStart
                             /\ Boot[t].start \in StartTimes /\ Boot[t].image \in Names
  BY SensorAssumption
<1>2. /\ DOMAIN task = DOMAIN Boot
      /\ \A t \in DOMAIN Boot :
           task[t] = [tgid |-> t, start |-> Boot[t].start, execing |-> NoName]
      /\ task \in [DOMAIN task -> [tgid : Tgids, start : StartTimes, execing : Names \cup {NoName}]]
  BY <1>1 DEF KernelInit
<1>3. /\ DOMAIN group = DOMAIN Boot
      /\ \A t \in DOMAIN Boot : group[t] = [start |-> Boot[t].start, image |-> Boot[t].image]
      /\ group \in [DOMAIN group -> [start : StartTimes, image : Names]]
  BY <1>1 DEF KernelInit
<1>4. /\ DOMAIN lineage = {BootId(t) : t \in DOMAIN Boot}
      /\ \A t \in DOMAIN Boot : lineage[BootId(t)] = BootId(Boot[t].ppid)
      /\ lineage = [k \in DOMAIN lineage |-> lineage[k]]
  BY BootIds DEF KernelInit
<1>5. /\ DOMAIN lineage \subseteq ProcKey
      /\ lineage \in [DOMAIN lineage -> ProcKey \cup {NoKey}]
  <2>1. ASSUME NEW t
        PROVE  BootId(t) \in ProcKey \cup {NoKey}
    <3>1. CASE t \in DOMAIN Boot
      BY <3>1, BootIds
    <3>2. CASE t \notin DOMAIN Boot
      BY <3>2 DEF BootId
    <3> QED
      BY <3>1, <3>2
  <2>2. \A k \in DOMAIN lineage : k \in ProcKey
    BY <1>4, BootIds
  <2> HIDE DEF BootId
  <2>3. \A k \in DOMAIN lineage : lineage[k] \in ProcKey \cup {NoKey}
    BY <1>4, <2>1
  <2> QED
    BY <1>4, <2>2, <2>3
<1>6. last_start \in 0 .. MaxStart
  BY BootIsPast
<1>7. last_pid \in DOMAIN Boot /\ \A t \in DOMAIN Boot : last_pid >= t
  <2>1. \E p \in DOMAIN Boot : \A t \in DOMAIN Boot : p >= t
    BY SensorAssumption
  <2>2. last_pid = CHOOSE p \in DOMAIN Boot : \A t \in DOMAIN Boot : p >= t
    BY DEF KernelInit
  <2> QED
    BY <2>1, <2>2
<1>8. KernelTyped
  <2>1. \A t \in DOMAIN task : task[t].tgid = t
    BY <1>2
  <2>2. DOMAIN task = DOMAIN group
    BY <1>2, <1>3
  <2>3. DOMAIN group = {task[t].tgid : t \in DOMAIN task}
    BY <2>1, <2>2
  <2> QED
    BY <1>1, <1>2, <1>3, <1>5, <1>6, <1>7, <2>3 DEF KernelTyped
<1>9. Leaders
  BY <1>2 DEF Leaders
<1>10. Descended
  BY <1>3, <1>4, BootIds DEF Descended, Identity
<1>11. \A t \in DOMAIN Boot : t =< last_pid
  BY <1>1, <1>7, ProcTableAssumption
<1> QED
  BY <1>2, <1>4, <1>8, <1>9, <1>10, <1>11 DEF KernelSound

\* The processes that run at the start are finitely many, and so are the ids.
LEMMA BootIsFinite ==
  ASSUME DOMAIN lineage = {BootId(t) : t \in DOMAIN Boot}
  PROVE  IsFiniteSet(DOMAIN lineage)
<1>1. PICK p \in DOMAIN Boot : \A t \in DOMAIN Boot : p >= t
  BY SensorAssumption
<1>2. DOMAIN Boot \subseteq Nat
  BY SensorAssumption, ProcTableAssumption
<1>3. IsFiniteSet(DOMAIN Boot)
  BY <1>1, <1>2, FS_BoundedSetOfNaturals
<1> DEFINE f == [t \in DOMAIN Boot |-> BootId(t)]
<1>4. f \in Surjection(DOMAIN Boot, DOMAIN lineage)
  BY DEF Surjection
<1> HIDE DEF f
<1> QED
  BY <1>3, <1>4, FS_Surjection

--------------------------------------------------------------------------------
(* One step of the pipeline *)

\* The key of an event.
LEMMA EventKeyType ==
  ASSUME RingTyped, ring # <<>>
  PROVE  /\ Head(ring) \in Event /\ EventKey \in ProcKey
         /\ EventKey.tgid = Head(ring).tgid /\ EventKey.start_time = Head(ring).start
<1>1. Head(ring) \in Event
  BY Taken DEF RingTyped
<1> QED
  BY <1>1, EventFields DEF EventKey, Id, ProcKey

\* The event loop calls the table's handlers and nothing else changes the table.
LEMMA HandlersOnly ==
  ASSUME RingTyped, Consume \/ Expire \/ Tick
  PROVE  [TableNext]_tableVars
<1>1. ASSUME Consume
      PROVE  TableNext
  <2>1. ring # <<>> /\ Head(ring) \in Event /\ EventKey \in ProcKey
    BY <1>1, EventKeyType DEF Consume, ConsumeFork, ConsumeExec, ConsumeProcExec, ConsumeExit, Take
  <2>2. ASSUME ConsumeFork
        PROVE  TableNext
    BY <2>1, <2>2, EventFields DEF ConsumeFork, Take, TableNext
  <2>3. ASSUME ConsumeExec
        PROVE  TableNext
    BY <2>1, <2>3, EventFields DEF ConsumeExec, Take, TableNext
  <2>4. ASSUME ConsumeProcExec
        PROVE  TableNext
    BY <2>1, <2>4, EventFields DEF ConsumeProcExec, Take, TableNext
  <2>5. ASSUME ConsumeExit
        PROVE  TableNext
    BY <2>1, <2>5, EventFields DEF ConsumeExit, Take, TableNext
  <2> QED
    BY <1>1, <2>2, <2>3, <2>4, <2>5 DEF Consume
<1>2. ASSUME Expire \/ Tick
      PROVE  TableNext
  BY <1>2 DEF Expire, Tick, TableNext
<1> QED
  BY <1>1, <1>2

\* A probe or the event loop leaves a well-typed ring.
LEMMA RingSteps ==
  ASSUME RingTyped,
         \/ \E e \in Event : Grows(e)
         \/ ring # <<>> /\ ring' = Tail(ring)
         \/ ring' = ring
  PROVE  RingTyped'
<1>1. ASSUME NEW e \in Event, Grows(e)
      PROVE  RingTyped'
  BY <1>1, Appended, SensorAssumption DEF RingTyped, Grows
<1>2. ASSUME ring # <<>>, ring' = Tail(ring)
      PROVE  RingTyped'
  BY <1>2, Taken, SensorAssumption DEF RingTyped
<1> QED
  BY <1>1, <1>2 DEF RingTyped

TypeInv == TableTypeOK /\ KernelSound /\ RingTyped

LEMMA TypeInvIsTyped == TypeInv => SensorTypeOK
  BY TypeIsTyped DEF TypeInv, KernelSound

\* Init and every step keep the pipeline's state well-typed, and every step of it
\* is a step of the table.
LEMMA TypeInvStarts == Init => TypeInv
<1> SUFFICES ASSUME Init
             PROVE  TypeInv
  OBVIOUS
<1>1. TableTypeOK
  BY SeededSound DEF Init, Sound, TableTypeOK, Typed, IndexTyped
<1>2. KernelSound
  BY KernelInitSound DEF Init
<1>3. RingTyped
  BY SensorAssumption DEF Init, RingTyped
<1> QED
  BY <1>1, <1>2, <1>3 DEF TypeInv

LEMMA TypeInvStep ==
  ASSUME TypeInv, [Next]_vars
  PROVE  TypeInv' /\ [TableNext]_tableVars
<1>1. TableTypeOK /\ KernelSound /\ RingTyped
  BY DEF TypeInv
<1>2. ASSUME [TableNext]_tableVars
      PROVE  TableTypeOK'
  <2>1. Typed(nodes) /\ IndexTyped(by_tgid)
    BY <1>1 DEF TableTypeOK, Typed, IndexTyped
  <2>2. Typed(nodes') /\ IndexTyped(by_tgid')
    BY <1>2, <2>1, StepType
  <2> QED
    BY <2>2 DEF TableTypeOK, Typed, IndexTyped
<1>3. ASSUME UNCHANGED kernelVars
      PROVE  KernelSound'
  BY <1>1, <1>3 DEF kernelVars, KernelSound, KernelTyped, Leaders, Descended, Identity
<1>4. CASE Kernel
  <2>1. KernelSound' /\ (\E e \in Event : Grows(e)) /\ UNCHANGED tableVars
    BY <1>1, <1>4, KernelSteps DEF KernelStep
  <2>2. RingTyped'
    BY <1>1, <2>1, RingSteps
  <2> QED
    BY <1>2, <2>1, <2>2 DEF TypeInv
<1>5. CASE Consume
  <2>1. UNCHANGED kernelVars /\ ring # <<>> /\ ring' = Tail(ring)
    BY <1>5 DEF Consume, ConsumeFork, ConsumeExec, ConsumeProcExec, ConsumeExit, Take
  <2>2. RingTyped' /\ [TableNext]_tableVars
    BY <1>1, <1>5, <2>1, RingSteps, HandlersOnly
  <2> QED
    BY <1>2, <1>3, <2>1, <2>2 DEF TypeInv
<1>6. CASE Expire \/ Tick
  <2>1. UNCHANGED kernelVars /\ ring' = ring
    BY <1>6 DEF Expire, Tick
  <2>2. RingTyped' /\ [TableNext]_tableVars
    BY <1>1, <1>6, <2>1, RingSteps, HandlersOnly
  <2> QED
    BY <1>2, <1>3, <2>1, <2>2 DEF TypeInv
<1>7. CASE UNCHANGED vars
  <2>1. UNCHANGED kernelVars /\ ring' = ring /\ UNCHANGED tableVars
    BY <1>7 DEF vars
  <2>2. RingTyped'
    BY <1>1, <2>1, RingSteps
  <2> QED
    BY <1>2, <1>3, <2>1, <2>2 DEF TypeInv
<1> QED
  BY <1>4, <1>5, <1>6, <1>7 DEF Next

\* The tasks, the events in the ring and the table are well-typed, with threads or
\* without, pids used again or not, events lost or not.
THEOREM PipelineTyped == Spec => []SensorTypeOK
<1>1. Init => TypeInv
  BY TypeInvStarts
<1>2. TypeInv /\ [Next]_vars => TypeInv'
  BY TypeInvStep
<1>3. TypeInv => SensorTypeOK
  BY TypeInvIsTyped
<1> QED
  BY <1>1, <1>2, <1>3, PTL DEF Spec

\* The pipeline uses the table as TableSpec says it may be used.
THEOREM PipelineUsesTheTable == Spec => TableSpec
<1>1. Init => TypeInv /\ TableInit
  BY TypeInvStarts DEF Init
<1>2. TypeInv /\ [Next]_vars => TypeInv' /\ [TableNext]_tableVars
  BY TypeInvStep
<1> QED
  BY <1>1, <1>2, PTL DEF Spec, TableSpec

--------------------------------------------------------------------------------
(* Without reuse of pids, the pipeline is disciplined *)

PipelineInv ==
  /\ TypeInv /\ Sound(nodes, by_tgid)
  /\ PidsGivenOut /\ ForkIsFirst /\ ExitIsLast /\ Kinship

\* What the events of the ring and the table's keys carry are pids, numbers.
LEMMA PidsAreNumbers ==
  ASSUME TypeInv
  PROVE  /\ last_pid \in Nat /\ Len(ring) \in Nat
         /\ \A t \in DOMAIN task : t \in Nat /\ task[t].tgid \in Nat
         /\ \A t \in DOMAIN group : t \in Nat
         /\ \A id \in DOMAIN lineage : id.tgid \in Nat
         /\ \A k \in DOMAIN nodes : k.tgid \in Nat
         /\ \A i \in 1 .. Len(ring) :
              /\ ring[i] \in Event /\ ring[i].tgid \in Nat
              /\ ring[i].kind = "fork" => ring[i].child \in Nat
<1>1. \A p \in Tgids : p \in Nat
  BY ProcTableAssumption
<1>2. \A k \in ProcKey : k.tgid \in Tgids
  BY DEF ProcKey
<1>3. last_pid \in Tgids /\ \A t \in DOMAIN task : t \in Tgids /\ task[t].tgid \in Tgids
  BY DEF TypeInv, KernelSound, KernelTyped
<1>4. \A t \in DOMAIN group : t \in Tgids
  BY <1>3 DEF TypeInv, KernelSound, KernelTyped
<1>5. (\A id \in DOMAIN lineage : id \in ProcKey) /\ (\A k \in DOMAIN nodes : k \in ProcKey)
  BY DEF TypeInv, KernelSound, KernelTyped, TableTypeOK
<1>6. Len(ring) \in Nat /\ \A i \in 1 .. Len(ring) : ring[i] \in Event
  BY DEF TypeInv, RingTyped
<1> QED
  BY <1>1, <1>2, <1>3, <1>4, <1>5, <1>6, EventFields

\* Without reuse, every process's pid is one given out, and a new one is above all.
LEMMA NewIsAbove ==
  ASSUME ~PidReuse, TypeInv, PidsGivenOut, TypeInv', NEW e, KernelStep(e)
  PROVE  /\ last_pid =< last_pid' /\ last_pid' \in Nat
         /\ \A p : New(p) => p \in Nat /\ last_pid < p /\ p =< last_pid'
         /\ \A t \in DOMAIN group : t =< last_pid
<1>1. last_pid \in Nat
  BY PidsAreNumbers
<1>2. last_pid' \in Nat
  BY ProcTableAssumption DEF TypeInv, KernelSound, KernelTyped
<1>3. \A p : New(p) => p \in Nat /\ last_pid < p /\ p =< last_pid'
  BY <1>1, <1>2 DEF New
<1>4. \A t \in DOMAIN group : t =< last_pid
  BY DEF PidsGivenOut, TypeInv, KernelSound, KernelTyped
<1> QED
  BY <1>1, <1>2, <1>3, <1>4 DEF KernelStep

\* An event of the ring after a kernel step is an old one, in its place, or the
\* new one, in the last.
LEMMA OldOrNew ==
  ASSUME TypeInv, NEW e \in Event, Grows(e)
  PROVE  /\ Len(ring) \in Nat /\ Len(ring') \in Nat
         /\ \A i \in 1 .. Len(ring') :
              \/ i \in 1 .. Len(ring) /\ ring'[i] = ring[i]
              \/ i = Len(ring) + 1 /\ ring'[i] = e
<1>1. ring \in Seq(Event) /\ Len(ring) \in Nat
  BY DEF TypeInv, RingTyped
<1>2. CASE ring' = ring
  BY <1>1, <1>2
<1>3. CASE ring' = Append(ring, e)
  <2>1. /\ Len(ring') = Len(ring) + 1 /\ ring'[Len(ring) + 1] = e
        /\ \A i \in 1 .. Len(ring) : ring'[i] = ring[i]
    BY <1>1, <1>3, Appended
  <2> QED
    BY <1>1, <2>1
<1> QED
  BY <1>2, <1>3 DEF Grows

LEMMA KernelKeepsPids ==
  ASSUME ~PidReuse, TypeInv, PidsGivenOut, TypeInv', UNCHANGED tableVars,
         NEW e \in Event, KernelStep(e)
  PROVE  PidsGivenOut'
<1>1. /\ last_pid =< last_pid' /\ last_pid \in Nat /\ last_pid' \in Nat
      /\ \A p : New(p) => p =< last_pid'
      /\ \A t \in DOMAIN group : t =< last_pid /\ t \in Nat
  BY NewIsAbove, PidsAreNumbers
<1>2. \A p \in Nat : p =< last_pid => p =< last_pid'
  BY <1>1
<1>3. \A t \in DOMAIN task' : t =< last_pid' /\ task'[t].tgid =< last_pid'
  <2> TAKE t \in DOMAIN task'
  <2>1. task'[t].tgid \in DOMAIN group'
    BY DEF TypeInv, KernelSound, KernelTyped
  <2>2. t \in DOMAIN task => t =< last_pid'
    BY <1>2, PidsAreNumbers DEF PidsGivenOut
  <2> QED
    BY <1>1, <1>2, <2>1, <2>2 DEF KernelStep
<1>4. \A id \in DOMAIN lineage' : id.tgid =< last_pid'
  BY <1>1, <1>2, PidsAreNumbers DEF KernelStep, PidsGivenOut
<1>5. \A k \in DOMAIN nodes' : k.tgid =< last_pid'
  BY <1>2, PidsAreNumbers DEF PidsGivenOut, tableVars
<1>6. e.tgid =< last_pid' /\ (e.kind = "fork" => e.child =< last_pid')
  BY <1>1, <1>2 DEF KernelStep
<1>7. \A i \in 1 .. Len(ring) :
        ring[i].tgid =< last_pid' /\ (ring[i].kind = "fork" => ring[i].child =< last_pid')
  BY <1>2, PidsAreNumbers DEF PidsGivenOut
<1>8. Grows(e)
  BY DEF KernelStep
<1>9. \A i \in 1 .. Len(ring') :
         ring'[i].tgid =< last_pid' /\ (ring'[i].kind = "fork" => ring'[i].child =< last_pid')
  BY <1>6, <1>7, <1>8, OldOrNew
<1> QED
  BY <1>3, <1>4, <1>5, <1>9 DEF PidsGivenOut

LEMMA KernelKeepsForkFirst ==
  ASSUME ~PidReuse, PipelineInv, TypeInv', UNCHANGED tableVars, NEW e \in Event, KernelStep(e)
  PROVE  ForkIsFirst'
<1>1. TypeInv /\ PidsGivenOut /\ ForkIsFirst /\ Grows(e) /\ nodes' = nodes
  BY DEF PipelineInv, KernelStep, tableVars
<1>2. /\ Len(ring) \in Nat /\ Len(ring') \in Nat
      /\ \A i \in 1 .. Len(ring') :
           \/ i \in 1 .. Len(ring) /\ ring'[i] = ring[i]
           \/ i = Len(ring) + 1 /\ ring'[i] = e
  BY <1>1, OldOrNew
<1>3. e.kind = "fork" => last_pid < e.child /\ last_pid \in Nat /\ e.child \in Nat
  BY <1>1, NewIsAbove, PidsAreNumbers DEF KernelStep
<1>4. ASSUME NEW i \in 1 .. Len(ring'), ring'[i].kind = "fork"
      PROVE  /\ \A k \in DOMAIN nodes' : k.tgid # ring'[i].child
             /\ \A j \in 1 .. i - 1 :
                  /\ ring'[j].tgid # ring'[i].child
                  /\ ring'[j].kind = "fork" => ring'[j].child # ring'[i].child
  <2>1. \A j \in 1 .. i - 1 : j \in 1 .. Len(ring) /\ j \in 1 .. Len(ring') /\ ring'[j] = ring[j]
    BY <1>2
  <2>2. CASE i \in 1 .. Len(ring) /\ ring'[i] = ring[i]
    BY <1>1, <1>4, <2>1, <2>2 DEF ForkIsFirst
  <2>3. CASE i = Len(ring) + 1 /\ ring'[i] = e
    <3>1. \A k \in DOMAIN nodes : k.tgid # e.child
      BY <1>1, <1>3, <1>4, <2>3, PidsAreNumbers DEF PidsGivenOut
    <3>2. \A j \in 1 .. Len(ring) :
            ring[j].tgid # e.child /\ (ring[j].kind = "fork" => ring[j].child # e.child)
      BY <1>1, <1>3, <1>4, <2>3, PidsAreNumbers DEF PidsGivenOut
    <3> QED
      BY <1>1, <2>1, <2>3, <3>1, <3>2
  <2> QED
    BY <1>2, <2>2, <2>3
<1> QED
  BY <1>4 DEF ForkIsFirst

LEMMA KernelKeepsExitLast ==
  ASSUME ~PidReuse, TypeInv, PidsGivenOut, ExitIsLast, TypeInv', UNCHANGED tableVars,
         NEW e \in Event, KernelStep(e)
  PROVE  ExitIsLast'
<1>1. TypeInv /\ PidsGivenOut /\ ExitIsLast /\ Grows(e) /\ nodes' = nodes /\ e.tgid \in DOMAIN group
  BY DEF KernelStep, tableVars
<1>2. /\ Len(ring) \in Nat /\ Len(ring') \in Nat
      /\ \A i \in 1 .. Len(ring') :
           \/ i \in 1 .. Len(ring) /\ ring'[i] = ring[i]
           \/ i = Len(ring) + 1 /\ ring'[i] = e
  BY <1>1, OldOrNew
<1>3. \A p \in Nat : p =< last_pid /\ p \notin DOMAIN group => p \notin DOMAIN group'
  BY <1>1, NewIsAbove, PidsAreNumbers DEF KernelStep
<1>4. ASSUME NEW k \in DOMAIN nodes', nodes'[k].exited_at # NotExited
      PROVE  /\ k.tgid \notin DOMAIN group'
             /\ \A i \in 1 .. Len(ring') : Promoting(ring'[i]) => ring'[i].tgid # k.tgid
  <2>1. k.tgid \notin DOMAIN group /\ k.tgid \in Nat /\ k.tgid =< last_pid
    BY <1>1, <1>4, PidsAreNumbers DEF ExitIsLast, PidsGivenOut
  <2>2. \A i \in 1 .. Len(ring) : Promoting(ring[i]) => ring[i].tgid # k.tgid
    BY <1>1, <1>4 DEF ExitIsLast
  <2> QED
    BY <1>1, <1>2, <1>3, <2>1, <2>2
<1>5. ASSUME NEW i \in 1 .. Len(ring'), Ends(ring'[i])
      PROVE  /\ ring'[i].tgid \notin DOMAIN group'
             /\ \A j \in i + 1 .. Len(ring') : Promoting(ring'[j]) => ring'[j].tgid # ring'[i].tgid
  <2>1. CASE i \in 1 .. Len(ring) /\ ring'[i] = ring[i]
    <3>1. /\ ring[i].tgid \notin DOMAIN group /\ ring[i].tgid \in Nat /\ ring[i].tgid =< last_pid
          /\ \A j \in i + 1 .. Len(ring) : Promoting(ring[j]) => ring[j].tgid # ring[i].tgid
      BY <1>1, <1>5, <2>1, PidsAreNumbers DEF ExitIsLast, PidsGivenOut
    <3>2. ASSUME NEW j \in i + 1 .. Len(ring'), Promoting(ring'[j])
          PROVE  ring'[j].tgid # ring'[i].tgid
      <4>1. j \in 1 .. Len(ring') /\ (j \in 1 .. Len(ring) => j \in i + 1 .. Len(ring))
        BY <1>2, <2>1
      <4> QED
        BY <1>1, <1>2, <2>1, <3>1, <3>2, <4>1
    <3> QED
      BY <1>3, <2>1, <3>1, <3>2
  <2>2. CASE i = Len(ring) + 1 /\ ring'[i] = e
    <3>1. e.tgid \notin DOMAIN group'
      BY <1>5, <2>2 DEF KernelStep
    <3>2. ~\E j \in i + 1 .. Len(ring') : TRUE
      BY <1>2, <2>2
    <3> QED
      BY <2>2, <3>1, <3>2
  <2> QED
    BY <1>2, <2>1, <2>2
<1> QED
  BY <1>4, <1>5 DEF ExitIsLast

LEMMA KernelKeepsKinship ==
  ASSUME ~PidReuse, PipelineInv, TypeInv', UNCHANGED tableVars, NEW e \in Event, KernelStep(e)
  PROVE  Kinship'
<1>1. TypeInv /\ PidsGivenOut /\ Kinship /\ Grows(e) /\ nodes' = nodes
  BY DEF PipelineInv, KernelStep, tableVars
<1>2. /\ Len(ring) \in Nat /\ Len(ring') \in Nat
      /\ \A i \in 1 .. Len(ring') :
           \/ i \in 1 .. Len(ring) /\ ring'[i] = ring[i]
           \/ i = Len(ring) + 1 /\ ring'[i] = e
  BY <1>1, OldOrNew
<1>3. \A p \in Nat : p =< last_pid => ~New(p)
  BY <1>1, NewIsAbove, PidsAreNumbers
<1>4. \A id \in DOMAIN lineage' : id.tgid \in Nat /\ id.tgid =< last_pid =>
        id \in DOMAIN lineage /\ lineage'[id] = lineage[id]
  BY <1>3 DEF KernelStep
<1>5. DOMAIN lineage \subseteq DOMAIN lineage'
  BY DEF KernelStep
<1>6. ASSUME NEW k \in DOMAIN nodes', NEW id \in DOMAIN lineage',
             k.tgid = id.tgid, nodes'[k].parent # NoKey
      PROVE  lineage'[id] \in DOMAIN lineage' /\ lineage'[id].tgid = nodes'[k].parent.tgid
  <2>1. id \in DOMAIN lineage /\ lineage'[id] = lineage[id]
    BY <1>1, <1>4, <1>6, PidsAreNumbers DEF PidsGivenOut
  <2> QED
    BY <1>1, <1>5, <1>6, <2>1 DEF Kinship
<1>7. ASSUME NEW i \in 1 .. Len(ring'), NEW id \in DOMAIN lineage',
             ring'[i].kind = "fork", ring'[i].child = id.tgid
      PROVE  lineage'[id] \in DOMAIN lineage' /\ lineage'[id].tgid = ring'[i].tgid
  <2>1. CASE i \in 1 .. Len(ring) /\ ring'[i] = ring[i]
    <3>1. id \in DOMAIN lineage /\ lineage'[id] = lineage[id]
      BY <1>1, <1>4, <1>7, <2>1, PidsAreNumbers DEF PidsGivenOut
    <3> QED
      BY <1>1, <1>5, <1>7, <2>1, <3>1 DEF Kinship
  <2>2. CASE ring'[i] = e
    <3>1. New(id.tgid)
      BY <1>7, <2>2 DEF KernelStep
    <3>2. ~(id \in DOMAIN lineage)
      BY <1>1, <1>3, <3>1, PidsAreNumbers DEF PidsGivenOut
    <3> QED
      BY <1>5, <2>2, <3>2 DEF KernelStep
  <2> QED
    BY <1>2, <2>1, <2>2
<1> QED
  BY <1>6, <1>7 DEF Kinship

--------------------------------------------------------------------------------
(* What a handler does to the table, told by tgid only *)

Touched(n, e) ==
  /\ \A k \in DOMAIN n :
       \/ k \in DOMAIN nodes
       \/ Promoting(e) /\ k.tgid = e.tgid
       \/ e.kind = "fork" /\ k.tgid = e.child
  /\ \A k \in DOMAIN n : n[k].exited_at # NotExited =>
       \/ \E m \in DOMAIN nodes : m.tgid = k.tgid /\ nodes[m].exited_at # NotExited
       \/ Ends(e) /\ k.tgid = e.tgid
  /\ \A k \in DOMAIN n : n[k].parent # NoKey =>
       \/ \E m \in DOMAIN nodes :
            /\ m.tgid = k.tgid /\ nodes[m].parent # NoKey
            /\ nodes[m].parent.tgid = n[k].parent.tgid
       \/ e.kind = "fork" /\ k.tgid = e.child /\ n[k].parent.tgid = e.tgid

\* A table whose records are the old ones, tombstones and parents unchanged.
LEMMA SameTouched ==
  ASSUME NEW n, NEW e, DOMAIN n \subseteq DOMAIN nodes,
         \A k \in DOMAIN n :
           n[k].parent = nodes[k].parent /\ n[k].exited_at = nodes[k].exited_at
  PROVE  Touched(n, e)
  BY DEF Touched

LEMMA EnsureTouched ==
  ASSUME Sound(nodes, by_tgid), NEW e, Promoting(e), NEW key \in ProcKey, key.tgid = e.tgid
  PROVE  Touched(EnsuredNodes(key), e)
<1>1. CASE key \in DOMAIN nodes
  BY <1>1, SameTouched DEF EnsuredNodes
<1>2. CASE Promotes(key)
  <2> DEFINE ph == Placeholder(key.tgid)
             n == Promoted(key)
  <2>1. EnsuredNodes(key) = n /\ key \notin DOMAIN nodes /\ ph \in DOMAIN nodes /\ ph.tgid = key.tgid
    BY <1>2 DEF Promotes, EnsuredNodes, Placeholder
  <2>2. DOMAIN n = (DOMAIN nodes \ {ph}) \cup {key} /\ n[key] = nodes[ph]
    BY <2>1 DEF Promoted
  <2>3. ASSUME NEW k \in DOMAIN nodes \ {ph}
        PROVE  /\ n[k].exited_at = nodes[k].exited_at
               /\ \/ n[k].parent = nodes[k].parent
                  \/ n[k].parent = key /\ nodes[k].parent = ph
    <3> DEFINE ch == IF k = nodes[ph].parent THEN (nodes[k].children \ {ph}) \cup {key}
                     ELSE nodes[k].children
               pa == IF k \in nodes[ph].children THEN key ELSE nodes[k].parent
    <3>1. n[k] = [nodes[k] EXCEPT !.children = ch, !.parent = pa]
      BY <2>1 DEF Promoted
    <3>2. nodes[k] \in ProcNode
      BY DEF Sound, Typed
    <3>3. pa = nodes[k].parent \/ (pa = key /\ nodes[k].parent = ph)
      BY <2>1 DEF Sound, Links
    <3> HIDE DEF ch, pa, ph, n
    <3> QED
      BY <3>1, <3>2, <3>3 DEF ProcNode
  <2>4. key # NoKey /\ ph # NoKey
    <3>1. ph \in ProcKey
      BY <2>1 DEF Sound, Typed
    <3> QED
      BY <3>1, ProcTableAssumption
  <2> HIDE DEF n, ph
  <2>5. ASSUME NEW k \in DOMAIN n
        PROVE  \E m \in DOMAIN nodes :
                 /\ m.tgid = k.tgid /\ nodes[m].exited_at = n[k].exited_at
                 /\ (nodes[m].parent = NoKey) <=> (n[k].parent = NoKey)
                 /\ n[k].parent # NoKey => nodes[m].parent.tgid = n[k].parent.tgid
    <3>1. CASE k = key
      BY <2>1, <2>2, <3>1
    <3>2. CASE k # key
      <4>1. k \in DOMAIN nodes \ {ph}
        BY <2>2, <3>2
      <4> QED
        BY <2>1, <2>3, <2>4, <4>1
    <3> QED
      BY <3>1, <3>2
  <2>6. \A k \in DOMAIN n : k \in DOMAIN nodes \/ k.tgid = e.tgid
    BY <2>2
  <2>7. Touched(n, e)
    BY <2>5, <2>6 DEF Touched
  <2> QED
    BY <2>1, <2>7
<1>3. CASE key \notin DOMAIN nodes /\ ~Promotes(key)
  BY <1>3 DEF EnsuredNodes, Insert, NewNode, Touched
<1> QED
  BY <1>1, <1>2, <1>3

\* The record a handler writes to after ensure() keeps its tombstone and parent.
LEMMA WrittenTouched ==
  ASSUME NEW n, NEW m, NEW e, Touched(m, e), DOMAIN n = DOMAIN m,
         \A k \in DOMAIN m : n[k].parent = m[k].parent /\ n[k].exited_at = m[k].exited_at
  PROVE  Touched(n, e)
  BY DEF Touched

LEMMA ForkTouched ==
  ASSUME Sound(nodes, by_tgid), NEW e \in Event, e.kind = "fork", OnFork(e.tgid, e.child)
  PROVE  Touched(nodes', e)
<1> DEFINE pk == Newest(e.tgid)
           ck == Placeholder(e.child)
           adopted == Adopt(pk, ck)
           v == ForkedNode(pk)
<1>1. nodes' = Insert(adopted, ck, v) /\ ck.tgid = e.child
  BY DEF OnFork, Placeholder
<1>2. \A k \in DOMAIN nodes : nodes[k] \in ProcNode
  BY DEF Sound, Typed
<1>3. /\ DOMAIN adopted = DOMAIN nodes
      /\ \A k \in DOMAIN nodes :
           adopted[k].parent = nodes[k].parent /\ adopted[k].exited_at = nodes[k].exited_at
  BY <1>2 DEF Adopt, ProcNode
<1>4. v.parent = pk /\ v.exited_at = NotExited
  BY DEF ForkedNode, NewNode
<1>5. pk # NoKey => pk.tgid = e.tgid
  BY DEF Newest, Sound, IndexTyped
<1> HIDE DEF adopted, v, ck, pk
<1>6. /\ DOMAIN nodes' = DOMAIN nodes \cup {ck} /\ nodes'[ck] = v
      /\ \A k \in DOMAIN nodes : k # ck => nodes'[k] = adopted[k]
  BY <1>1, <1>3 DEF Insert
<1>7. \A k \in DOMAIN nodes' :
        \/ k = ck
        \/ k \in DOMAIN nodes /\ nodes'[k] = adopted[k]
  BY <1>6
<1> QED
  BY <1>1, <1>3, <1>4, <1>5, <1>6, <1>7 DEF Touched

LEMMA ExitTouched ==
  ASSUME Sound(nodes, by_tgid), NEW e \in Event, e.kind = "exit",
         NEW key \in ProcKey, key.tgid = e.tgid, OnExit(key, e.group_dead)
  PROVE  Touched(nodes', e)
<1> DEFINE x == ExitTarget(key)
<1>1. x.tgid = e.tgid
  BY DEF ExitTarget, Placeholder
<1>2. \/ nodes' = nodes
      \/ Ends(e) /\ nodes' = [nodes EXCEPT ![x].exited_at = 0]
  BY DEF OnExit, Ends, tableVars
<1> HIDE DEF x
<1>3. \A k \in DOMAIN nodes : nodes[k] \in ProcNode
  BY DEF Sound, Typed
<1>4. CASE nodes' = nodes
  BY <1>4, SameTouched
<1>5. CASE Ends(e) /\ nodes' = [nodes EXCEPT ![x].exited_at = 0]
  <2>1. /\ DOMAIN nodes' = DOMAIN nodes
        /\ \A k \in DOMAIN nodes :
             /\ nodes'[k].parent = nodes[k].parent
             /\ nodes'[k].exited_at = nodes[k].exited_at \/ k = x
    BY <1>3, <1>5 DEF ProcNode
  <2> QED
    BY <1>1, <1>5, <2>1 DEF Touched
<1> QED
  BY <1>2, <1>4, <1>5

\* The handler of every kind of event.
LEMMA ConsumeTouched ==
  ASSUME Sound(nodes, by_tgid), RingTyped, Consume
  PROVE  /\ ring # <<>> /\ ring' = Tail(ring) /\ UNCHANGED kernelVars
         /\ Touched(nodes', Head(ring))
<1> DEFINE e == Head(ring)
<1>1. ring # <<>> /\ ring' = Tail(ring) /\ UNCHANGED kernelVars
  BY DEF Consume, ConsumeFork, ConsumeExec, ConsumeProcExec, ConsumeExit, Take
<1>2. e \in Event /\ EventKey \in ProcKey /\ EventKey.tgid = e.tgid
  BY <1>1, EventKeyType
<1>3. ASSUME ConsumeFork
      PROVE  Touched(nodes', e)
  BY <1>2, <1>3, ForkTouched DEF ConsumeFork, Take
<1>4. ASSUME ConsumeExec
      PROVE  Touched(nodes', e)
  <2> DEFINE m == EnsuredNodes(EventKey)
  <2>1. nodes' = [m EXCEPT ![EventKey].comm = e.comm, ![EventKey].args = e.args] /\ Promoting(e)
    BY <1>4 DEF ConsumeExec, Take, OnExec, Promoting
  <2>2. Touched(m, e)
    BY <1>2, <2>1, EnsureTouched
  <2>3. Typed(m)
    BY <1>2, EnsureType DEF Sound
  <2> HIDE DEF m, e
  <2>4. \A k \in DOMAIN m : m[k] \in ProcNode
    BY <2>3 DEF Typed
  <2>5. DOMAIN nodes' = DOMAIN m /\ \A k \in DOMAIN m :
          nodes'[k].parent = m[k].parent /\ nodes'[k].exited_at = m[k].exited_at
    BY <2>1, <2>4 DEF ProcNode
  <2> QED
    BY <2>2, <2>5, WrittenTouched
<1>5. ASSUME ConsumeProcExec
      PROVE  Touched(nodes', e)
  <2> DEFINE m == EnsuredNodes(EventKey)
  <2>1. nodes' = [m EXCEPT ![EventKey].exe = e.exe] /\ Promoting(e)
    BY <1>5 DEF ConsumeProcExec, Take, OnProcExec, Promoting
  <2>2. Touched(m, e)
    BY <1>2, <2>1, EnsureTouched
  <2>3. Typed(m)
    BY <1>2, EnsureType DEF Sound
  <2> HIDE DEF m, e
  <2>4. \A k \in DOMAIN m : m[k] \in ProcNode
    BY <2>3 DEF Typed
  <2>5. DOMAIN nodes' = DOMAIN m /\ \A k \in DOMAIN m :
          nodes'[k].parent = m[k].parent /\ nodes'[k].exited_at = m[k].exited_at
    BY <2>1, <2>4 DEF ProcNode
  <2> QED
    BY <2>2, <2>5, WrittenTouched
<1>6. ASSUME ConsumeExit
      PROVE  Touched(nodes', e)
  BY <1>2, <1>6, ExitTouched DEF ConsumeExit, Take
<1> QED
  BY <1>1, <1>3, <1>4, <1>5, <1>6 DEF Consume

LEMMA TimerTouched ==
  ASSUME Sound(nodes, by_tgid), Expire \/ Tick
  PROVE  /\ UNCHANGED <<kernelVars, ring>> /\ DOMAIN nodes' \subseteq DOMAIN nodes
         /\ \A k \in DOMAIN nodes' :
              /\ nodes'[k].parent = nodes[k].parent
              /\ nodes'[k].exited_at # NotExited => nodes[k].exited_at # NotExited
<1>1. \A k \in DOMAIN nodes : nodes[k] \in ProcNode
  BY DEF Sound, Typed
<1>2. ASSUME Reap
      PROVE  /\ DOMAIN nodes' \subseteq DOMAIN nodes
             /\ \A k \in DOMAIN nodes' :
                  nodes'[k].parent = nodes[k].parent /\ nodes'[k].exited_at = nodes[k].exited_at
  BY <1>1, <1>2 DEF Reap, ProcNode
<1>3. ASSUME Elapse
      PROVE  /\ DOMAIN nodes' = DOMAIN nodes
             /\ \A k \in DOMAIN nodes :
                  /\ nodes'[k].parent = nodes[k].parent
                  /\ nodes[k].exited_at = NotExited => nodes'[k].exited_at = NotExited
  <2>1. \A k \in DOMAIN nodes :
          /\ nodes'[k].parent = nodes[k].parent
          /\ nodes'[k].exited_at = IF nodes[k].exited_at \in 0 .. Grace
                                   THEN nodes[k].exited_at + 1 ELSE nodes[k].exited_at
    BY <1>1, <1>3 DEF Elapse, ProcNode
  <2> QED
    BY <1>3, <2>1 DEF Elapse, NotExited
<1> QED
  BY <1>2, <1>3 DEF Expire, Tick

\* After a handler the events are where they were, one place nearer.
LEMMA OnePlaceNearer ==
  ASSUME TypeInv, ring # <<>>, ring' = Tail(ring)
  PROVE  /\ Len(ring) \in Nat \ {0} /\ Len(ring') = Len(ring) - 1
         /\ 1 \in 1 .. Len(ring) /\ Head(ring) = ring[1] /\ Head(ring) \in Event
         /\ \A i \in 1 .. Len(ring') : i + 1 \in 1 .. Len(ring) /\ ring'[i] = ring[i + 1]
<1>1. /\ Len(Tail(ring)) = Len(ring) - 1 /\ Len(ring) \in Nat \ {0}
      /\ Head(ring) = ring[1] /\ Head(ring) \in Event
      /\ \A i \in 1 .. Len(Tail(ring)) : Tail(ring)[i] = ring[i + 1]
  BY Taken DEF TypeInv, RingTyped
<1> QED
  BY <1>1

LEMMA ConsumeKeepsPids ==
  ASSUME TypeInv, PidsGivenOut, ring # <<>>, ring' = Tail(ring), UNCHANGED kernelVars,
         Touched(nodes', Head(ring))
  PROVE  PidsGivenOut'
<1> DEFINE e == Head(ring)
<1>1. /\ Len(ring) \in Nat \ {0} /\ Len(ring') = Len(ring) - 1
      /\ 1 \in 1 .. Len(ring) /\ e = ring[1] /\ e \in Event
      /\ \A i \in 1 .. Len(ring') : i + 1 \in 1 .. Len(ring) /\ ring'[i] = ring[i + 1]
  BY OnePlaceNearer
<1>2. /\ task' = task /\ group' = group /\ lineage' = lineage /\ last_pid' = last_pid
  BY DEF kernelVars
<1> HIDE DEF e
<1>3. Touched(nodes', e)
  BY DEF e
<1>4. PidsGivenOut'
  <2>1. \A k \in DOMAIN nodes' : k.tgid =< last_pid'
    BY <1>1, <1>2, <1>3 DEF PidsGivenOut, Touched
  <2>2. \A i \in 1 .. Len(ring') :
          /\ ring'[i].tgid =< last_pid'
          /\ ring'[i].kind = "fork" => ring'[i].child =< last_pid'
    BY <1>1, <1>2 DEF PidsGivenOut
  <2> QED
    BY <1>2, <2>1, <2>2 DEF PidsGivenOut
<1> QED
  BY <1>4

LEMMA ConsumeKeepsForkFirst ==
  ASSUME TypeInv, ForkIsFirst, ring # <<>>, ring' = Tail(ring), UNCHANGED kernelVars,
         Touched(nodes', Head(ring))
  PROVE  ForkIsFirst'
<1> DEFINE e == Head(ring)
<1>1. /\ Len(ring) \in Nat \ {0} /\ Len(ring') = Len(ring) - 1
      /\ 1 \in 1 .. Len(ring) /\ e = ring[1] /\ e \in Event
      /\ \A i \in 1 .. Len(ring') : i + 1 \in 1 .. Len(ring) /\ ring'[i] = ring[i + 1]
  BY OnePlaceNearer
<1>2. /\ task' = task /\ group' = group /\ lineage' = lineage /\ last_pid' = last_pid
  BY DEF kernelVars
<1> HIDE DEF e
<1>3. Touched(nodes', e)
  BY DEF e
<1>4. ForkIsFirst'
  <2> SUFFICES ASSUME NEW i \in 1 .. Len(ring'), ring'[i].kind = "fork"
               PROVE  /\ \A k \in DOMAIN nodes' : k.tgid # ring'[i].child
                      /\ \A j \in 1 .. i - 1 :
                           /\ ring'[j].tgid # ring'[i].child
                           /\ ring'[j].kind = "fork" => ring'[j].child # ring'[i].child
    BY DEF ForkIsFirst
  <2>1. /\ \A k \in DOMAIN nodes : k.tgid # ring'[i].child
        /\ \A j \in 1 .. (i + 1) - 1 :
             /\ ring[j].tgid # ring'[i].child
             /\ ring[j].kind = "fork" => ring[j].child # ring'[i].child
    BY <1>1 DEF ForkIsFirst
  <2>2. e.tgid # ring'[i].child /\ (e.kind = "fork" => e.child # ring'[i].child)
    <3>1. 1 \in 1 .. (i + 1) - 1
      BY <1>1
    <3> QED
      BY <1>1, <2>1, <3>1
  <2>3. \A k \in DOMAIN nodes' : k.tgid # ring'[i].child
    BY <1>3, <2>1, <2>2 DEF Touched
  <2>4. \A j \in 1 .. i - 1 : j + 1 \in 1 .. (i + 1) - 1 /\ ring'[j] = ring[j + 1]
    BY <1>1
  <2> QED
    BY <2>1, <2>3, <2>4
<1> QED
  BY <1>4

LEMMA ConsumeKeepsExitLast ==
  ASSUME TypeInv, ExitIsLast, ring # <<>>, ring' = Tail(ring), UNCHANGED kernelVars,
         Touched(nodes', Head(ring))
  PROVE  ExitIsLast'
<1> DEFINE e == Head(ring)
<1>1. /\ Len(ring) \in Nat \ {0} /\ Len(ring') = Len(ring) - 1
      /\ 1 \in 1 .. Len(ring) /\ e = ring[1] /\ e \in Event
      /\ \A i \in 1 .. Len(ring') : i + 1 \in 1 .. Len(ring) /\ ring'[i] = ring[i + 1]
  BY OnePlaceNearer
<1>2. /\ task' = task /\ group' = group /\ lineage' = lineage /\ last_pid' = last_pid
  BY DEF kernelVars
<1> HIDE DEF e
<1>3. Touched(nodes', e)
  BY DEF e
<1>4. ExitIsLast'
  <2>1. ASSUME NEW k \in DOMAIN nodes', nodes'[k].exited_at # NotExited
        PROVE  /\ k.tgid \notin DOMAIN group'
               /\ \A i \in 1 .. Len(ring') : Promoting(ring'[i]) => ring'[i].tgid # k.tgid
    <3>1. CASE \E m \in DOMAIN nodes : m.tgid = k.tgid /\ nodes[m].exited_at # NotExited
      BY <1>1, <1>2, <3>1 DEF ExitIsLast
    <3>2. CASE Ends(e) /\ k.tgid = e.tgid
      <4>1. /\ e.tgid \notin DOMAIN group
            /\ \A j \in 1 + 1 .. Len(ring) : Promoting(ring[j]) => ring[j].tgid # e.tgid
        BY <1>1, <3>2 DEF ExitIsLast
      <4>2. \A i \in 1 .. Len(ring') : i + 1 \in 1 + 1 .. Len(ring)
        BY <1>1
      <4> QED
        BY <1>1, <1>2, <3>2, <4>1, <4>2
    <3> QED
      BY <1>3, <2>1, <3>1, <3>2 DEF Touched
  <2>2. ASSUME NEW i \in 1 .. Len(ring'), Ends(ring'[i])
        PROVE  /\ ring'[i].tgid \notin DOMAIN group'
               /\ \A j \in i + 1 .. Len(ring') : Promoting(ring'[j]) => ring'[j].tgid # ring'[i].tgid
    <3>1. /\ ring'[i].tgid \notin DOMAIN group
          /\ \A j \in (i + 1) + 1 .. Len(ring) : Promoting(ring[j]) => ring[j].tgid # ring'[i].tgid
      BY <1>1, <2>2 DEF ExitIsLast
    <3>2. \A j \in i + 1 .. Len(ring') :
            j \in 1 .. Len(ring') /\ j + 1 \in (i + 1) + 1 .. Len(ring)
      BY <1>1
    <3> QED
      BY <1>1, <1>2, <3>1, <3>2
  <2> QED
    BY <2>1, <2>2 DEF ExitIsLast
<1> QED
  BY <1>4

LEMMA ConsumeKeepsKinship ==
  ASSUME TypeInv, Kinship, ring # <<>>, ring' = Tail(ring), UNCHANGED kernelVars,
         Touched(nodes', Head(ring))
  PROVE  Kinship'
<1> DEFINE e == Head(ring)
<1>1. /\ Len(ring) \in Nat \ {0} /\ Len(ring') = Len(ring) - 1
      /\ 1 \in 1 .. Len(ring) /\ e = ring[1] /\ e \in Event
      /\ \A i \in 1 .. Len(ring') : i + 1 \in 1 .. Len(ring) /\ ring'[i] = ring[i + 1]
  BY OnePlaceNearer
<1>2. /\ task' = task /\ group' = group /\ lineage' = lineage /\ last_pid' = last_pid
  BY DEF kernelVars
<1> HIDE DEF e
<1>3. Touched(nodes', e)
  BY DEF e
<1>4. Kinship'
  <2>1. ASSUME NEW k \in DOMAIN nodes', NEW id \in DOMAIN lineage,
               k.tgid = id.tgid, nodes'[k].parent # NoKey
        PROVE  lineage[id] \in DOMAIN lineage /\ lineage[id].tgid = nodes'[k].parent.tgid
    <3>1. CASE \E m \in DOMAIN nodes :
                 /\ m.tgid = k.tgid /\ nodes[m].parent # NoKey
                 /\ nodes[m].parent.tgid = nodes'[k].parent.tgid
      BY <2>1, <3>1 DEF Kinship
    <3>2. CASE e.kind = "fork" /\ k.tgid = e.child /\ nodes'[k].parent.tgid = e.tgid
      BY <1>1, <2>1, <3>2 DEF Kinship
    <3> QED
      BY <1>3, <2>1, <3>1, <3>2 DEF Touched
  <2>2. ASSUME NEW i \in 1 .. Len(ring'), NEW id \in DOMAIN lineage,
               ring'[i].kind = "fork", ring'[i].child = id.tgid
        PROVE  lineage[id] \in DOMAIN lineage /\ lineage[id].tgid = ring'[i].tgid
    BY <1>1, <2>2 DEF Kinship
  <2> QED
    BY <1>2, <2>1, <2>2 DEF Kinship
<1> QED
  BY <1>4

LEMMA TimerKeeps ==
  ASSUME PipelineInv, UNCHANGED <<kernelVars, ring>>, DOMAIN nodes' \subseteq DOMAIN nodes,
         \A k \in DOMAIN nodes' :
           /\ nodes'[k].parent = nodes[k].parent
           /\ nodes'[k].exited_at # NotExited => nodes[k].exited_at # NotExited
  PROVE  PidsGivenOut' /\ ForkIsFirst' /\ ExitIsLast' /\ Kinship'
<1>1. /\ PidsGivenOut /\ ForkIsFirst /\ ExitIsLast /\ Kinship
      /\ task' = task /\ group' = group /\ lineage' = lineage /\ last_pid' = last_pid
      /\ ring' = ring
  BY DEF PipelineInv, kernelVars
<1>2. PidsGivenOut'
  BY <1>1 DEF PidsGivenOut
<1>3. ForkIsFirst'
  BY <1>1 DEF ForkIsFirst
<1>4. ExitIsLast'
  BY <1>1 DEF ExitIsLast
<1>5. Kinship'
  BY <1>1 DEF Kinship
<1> QED
  BY <1>2, <1>3, <1>4, <1>5

\* The event at the head of the ring never overwrites a record in use and never
\* revives a dead one.
LEMMA ConsumeIsDisciplined ==
  ASSUME TypeInv, ExitIsLast, Consume, Head(ring).kind = "fork" => ~Overwrites(Head(ring).child)
  PROVE  DisciplinedNext
<1> DEFINE e == Head(ring)
<1>1. RingTyped
  BY DEF TypeInv
<1>2. ring # <<>> /\ ring' = Tail(ring)
  BY DEF Consume, ConsumeFork, ConsumeExec, ConsumeProcExec, ConsumeExit, Take
<1>3. 1 \in 1 .. Len(ring) /\ e = ring[1]
  BY <1>2, OnePlaceNearer
<1>4. /\ e \in Event /\ EventKey \in ProcKey /\ EventKey.tgid = e.tgid
  BY <1>1, <1>2, EventKeyType
<1>5. ASSUME ConsumeFork
      PROVE  DisciplinedNext
  <2>1. e.kind = "fork" /\ OnFork(e.tgid, e.child) /\ e.tgid \in Tgids /\ e.child \in Tgids
    BY <1>4, <1>5, EventFields DEF ConsumeFork, Take
  <2> QED
    BY <2>1 DEF DisciplinedNext
<1>6. ASSUME Promoting(e)
      PROVE  ~Resurrects(EventKey)
  <2>1. \A k \in DOMAIN nodes : k.tgid = e.tgid => nodes[k].exited_at = NotExited
    BY <1>3, <1>6 DEF ExitIsLast
  <2> QED
    BY <1>4, <2>1 DEF Resurrects, Promotes, Placeholder
<1>7. ASSUME ConsumeExec
      PROVE  DisciplinedNext
  <2>1. e.kind = "exec" /\ OnExec(EventKey, e.comm, e.args) /\ e.comm \in Names /\ e.args \in Names
    BY <1>4, <1>7, EventFields DEF ConsumeExec, Take
  <2> QED
    BY <1>4, <1>6, <2>1 DEF DisciplinedNext, Promoting
<1>8. ASSUME ConsumeProcExec
      PROVE  DisciplinedNext
  <2>1. e.kind = "proc_exec" /\ OnProcExec(EventKey, e.exe) /\ e.exe \in Names
    BY <1>4, <1>8, EventFields DEF ConsumeProcExec, Take
  <2> QED
    BY <1>4, <1>6, <2>1 DEF DisciplinedNext, Promoting
<1>9. ASSUME ConsumeExit
      PROVE  DisciplinedNext
  <2>1. OnExit(EventKey, e.group_dead) /\ e.group_dead \in BOOLEAN
    BY <1>4, <1>9, EventFields DEF ConsumeExit, Take
  <2> QED
    BY <1>4, <2>1 DEF DisciplinedNext
<1> QED
  BY <1>5, <1>7, <1>8, <1>9 DEF Consume

LEMMA PipelineInvStep ==
  ASSUME ~PidReuse, PipelineInv, [Next]_vars
  PROVE  PipelineInv' /\ [DisciplinedNext]_tableVars
<1>1. TypeInv /\ Sound(nodes, by_tgid) /\ RingTyped
  BY DEF PipelineInv, TypeInv
<1>2. TypeInv'
  BY <1>1, TypeInvStep
<1>3. CASE Kernel
  <2>1. PICK e \in Event : KernelStep(e)
    BY <1>1, <1>3, KernelSteps DEF TypeInv
  <2>2. UNCHANGED tableVars
    BY <1>1, <1>3, KernelSteps DEF TypeInv
  <2>3. PidsGivenOut' /\ ForkIsFirst' /\ ExitIsLast' /\ Kinship'
    <3>1. PidsGivenOut /\ ExitIsLast
      BY DEF PipelineInv
    <3> QED
      BY <1>1, <1>2, <2>1, <2>2, <3>1, KernelKeepsPids, KernelKeepsForkFirst,
         KernelKeepsExitLast, KernelKeepsKinship
  <2> QED
    BY <1>1, <1>2, <2>2, <2>3 DEF PipelineInv, tableVars
<1>4. CASE Consume
  <2>1. DisciplinedNext
    <3>1. ring # <<>>
      BY <1>4 DEF Consume, ConsumeFork, ConsumeExec, ConsumeProcExec, ConsumeExit, Take
    <3>2. 1 \in 1 .. Len(ring) /\ Head(ring) = ring[1]
      BY <1>1, <3>1, Taken DEF RingTyped
    <3>3. Head(ring).kind = "fork" => ~Overwrites(Head(ring).child)
      BY <3>2 DEF PipelineInv, ForkIsFirst, Overwrites, Placeholder
    <3> QED
      BY <1>4, <3>3, ConsumeIsDisciplined DEF PipelineInv
  <2>2. Sound(nodes', by_tgid')
    BY <1>1, <2>1, StepSound
  <2>3. PidsGivenOut' /\ ForkIsFirst' /\ ExitIsLast' /\ Kinship'
    <3>1. PidsGivenOut /\ ForkIsFirst /\ ExitIsLast /\ Kinship
      BY DEF PipelineInv
    <3> QED
      BY <1>1, <1>4, <3>1, ConsumeTouched, ConsumeKeepsPids, ConsumeKeepsForkFirst,
         ConsumeKeepsExitLast, ConsumeKeepsKinship
  <2> QED
    BY <1>2, <2>1, <2>2, <2>3 DEF PipelineInv
<1>5. CASE Expire \/ Tick
  <2>1. DisciplinedNext
    BY <1>5 DEF Expire, Tick, DisciplinedNext
  <2>2. Sound(nodes', by_tgid')
    BY <1>1, <2>1, StepSound
  <2>3. PidsGivenOut' /\ ForkIsFirst' /\ ExitIsLast' /\ Kinship'
    BY <1>1, <1>5, TimerTouched, TimerKeeps
  <2> QED
    BY <1>2, <2>1, <2>2, <2>3 DEF PipelineInv
<1>6. CASE UNCHANGED vars
  <2>1. UNCHANGED tableVars /\ UNCHANGED <<kernelVars, ring>>
    BY <1>6 DEF vars
  <2>2. nodes' = nodes /\ by_tgid' = by_tgid
    BY <2>1 DEF tableVars
  <2>3. PidsGivenOut' /\ ForkIsFirst' /\ ExitIsLast' /\ Kinship'
    BY <2>1, <2>2, TimerKeeps
  <2> QED
    BY <1>1, <1>2, <2>1, <2>2, <2>3 DEF PipelineInv
<1> QED
  BY <1>3, <1>4, <1>5, <1>6 DEF Next

LEMMA PipelineInvStarts == Init => PipelineInv
<1> SUFFICES ASSUME Init
             PROVE  PipelineInv
  OBVIOUS
<1>1. TypeInv /\ ring = <<>> /\ TableInit
  BY TypeInvStarts DEF Init
<1>2. Sound(nodes, by_tgid)
  BY <1>1, SeededSound
<1>3. /\ DOMAIN lineage = {BootId(t) : t \in DOMAIN Boot}
      /\ \A t \in DOMAIN Boot : t =< last_pid /\ lineage[BootId(t)] = BootId(Boot[t].ppid)
      /\ DOMAIN task = DOMAIN Boot /\ \A t \in DOMAIN task : task[t].tgid = t
  BY KernelInitSound DEF Init
<1>4. /\ DOMAIN nodes = {SeedKey(t) : t \in DOMAIN Snapshot}
      /\ \A t \in DOMAIN Snapshot :
           /\ SeedKey(t).tgid = t
           /\ nodes[SeedKey(t)].parent = IF Snapshot[t].ppid \in DOMAIN Snapshot
                                         THEN SeedKey(Snapshot[t].ppid) ELSE NoKey
           /\ nodes[SeedKey(t)].exited_at = NotExited
  BY <1>1 DEF TableInit, SeededFrom, SeedKey, SeedKeyIn
<1>5. DOMAIN Snapshot \subseteq DOMAIN Boot
  BY SensorAssumption
<1> HIDE DEF SeedKey
<1>6. PidsGivenOut
  <2>1. \A id \in DOMAIN lineage : id.tgid =< last_pid
    BY <1>3, BootIds
  <2> QED
    BY <1>1, <1>3, <1>4, <1>5, <2>1 DEF PidsGivenOut
<1>7. ForkIsFirst /\ ExitIsLast
  BY <1>1, <1>4 DEF ForkIsFirst, ExitIsLast
<1>8. Kinship
  <2>1. ASSUME NEW t \in DOMAIN Snapshot, nodes[SeedKey(t)].parent # NoKey
        PROVE  /\ lineage[BootId(t)] \in DOMAIN lineage
               /\ lineage[BootId(t)].tgid = nodes[SeedKey(t)].parent.tgid
    <3>1. /\ Snapshot[t].ppid \in DOMAIN Snapshot /\ Boot[t].ppid = Snapshot[t].ppid
          /\ nodes[SeedKey(t)].parent.tgid = Snapshot[t].ppid
      BY <1>4, <2>1, SensorAssumption
    <3>2. lineage[BootId(t)] = BootId(Snapshot[t].ppid) /\ Snapshot[t].ppid \in DOMAIN Boot
      BY <1>3, <1>5, <3>1
    <3> QED
      BY <1>3, <3>1, <3>2, BootIds
  <2>2. \A k \in DOMAIN nodes, id \in DOMAIN lineage : k.tgid = id.tgid =>
          \E t \in DOMAIN Snapshot : k = SeedKey(t) /\ id = BootId(t)
    BY <1>3, <1>4, <1>5, BootIds
  <2> QED
    BY <1>1, <2>1, <2>2 DEF Kinship
<1> QED
  BY <1>1, <1>2, <1>6, <1>7, <1>8 DEF PipelineInv

\* Without reuse of pids the event loop never replaces a record in use and never
\* revives a dead one, whatever threads do and whichever events are lost.
THEOREM PipelineIsDisciplined == ASSUME ~PidReuse PROVE Spec => DisciplinedSpec
<1>1. Init => PipelineInv /\ TableInit
  BY PipelineInvStarts DEF Init
<1>2. PipelineInv /\ [Next]_vars => PipelineInv' /\ [DisciplinedNext]_tableVars
  BY PipelineInvStep
<1> QED
  BY <1>1, <1>2, PTL DEF Spec, DisciplinedSpec

\* So the table is a forest behind the ring as it is alone, and its lineage stays.
THEOREM PipelineKeepsForest ==
  ASSUME ~PidReuse
  PROVE  Spec => [](LinksAgree /\ IndexAgrees /\ Acyclic) /\ LineageKept
  BY PipelineIsDisciplined, ForestHolds, LineageIsKept, PTL

--------------------------------------------------------------------------------
(* The ancestry *)

ForkerOf(id) == IF id \in DOMAIN lineage THEN lineage[id] ELSE NoKey

\* The same of any lineage.
From(l, id) == IF id \in DOMAIN l THEN l[id] ELSE NoKey

UpFrom(l, id) ==
  LET up[i \in Nat] ==
        LET k == IF i = 0 THEN id ELSE up[i - 1]
        IN IF k \in DOMAIN l THEN l[k] ELSE NoKey
  IN up

LEMMA UpFromWalks ==
  ASSUME NEW l, \A k \in DOMAIN l : l[k] \in Keys, NEW id \in Keys
  PROVE  /\ UpFrom(l, id) \in [Nat -> Keys]
         /\ UpFrom(l, id)[0] = From(l, id)
         /\ \A i \in Nat \ {0} : UpFrom(l, id)[i] = From(l, UpFrom(l, id)[i - 1])
<1> DEFINE up == [k \in Keys |-> From(l, k)]
           start == From(l, id)
           Equation(g) ==
             g = [i \in Nat |-> LET k == IF i = 0 THEN id ELSE g[i - 1]
                                IN IF k \in DOMAIN l THEN l[k] ELSE NoKey]
<1>1. \A k : From(l, k) \in Keys
  BY DEF From, Keys
<1>2. start \in Keys /\ up \in [Keys -> Keys]
  BY <1>1
<1>3. \A g : Equation(g) <=> g = [i \in Nat |-> IF i = 0 THEN start ELSE From(l, g[i - 1])]
  BY DEF From
<1>4. \E g : Equation(g)
  <2> HIDE DEF start, up, Equation
  <2>1. PICK f \in [Nat -> Keys] : f[0] = start /\ \A i \in Nat \ {0} : f[i] = up[f[i - 1]]
    BY <1>2, Walk
  <2>2. \A i \in Nat \ {0} : f[i - 1] \in Keys /\ up[f[i - 1]] = From(l, f[i - 1])
    BY DEF up
  <2>3. Equation(f)
    BY <1>3, <2>1, <2>2
  <2> QED
    BY <2>3
<1> DEFINE walk == CHOOSE g : Equation(g)
<1>5. Equation(walk)
  <2> HIDE DEF Equation
  <2> QED
    BY <1>4
<1>6. UpFrom(l, id) = walk
  BY DEF UpFrom
<1> HIDE DEF walk, start, Equation
<1>7. walk \in [Nat -> Keys]
  BY <1>1, <1>2, <1>3, <1>5
<1>8. walk[0] = start /\ \A i \in Nat \ {0} : walk[i] = From(l, walk[i - 1])
  BY <1>3, <1>5
<1> QED
  BY <1>6, <1>7, <1>8 DEF start

LEMMA ForebearWalks ==
  ASSUME TypeInv, NEW id \in Keys
  PROVE  /\ Forebear(id) \in [Nat -> Keys]
         /\ Forebear(id)[0] = ForkerOf(id)
         /\ \A i \in Nat \ {0} : Forebear(id)[i] = ForkerOf(Forebear(id)[i - 1])
<1>1. \A k \in DOMAIN lineage : lineage[k] \in Keys
  BY DEF TypeInv, KernelSound, KernelTyped, Keys
<1>2. Forebear(id) = UpFrom(lineage, id)
  BY DEF Forebear, UpFrom
<1>3. \A k : ForkerOf(k) = From(lineage, k)
  BY DEF ForkerOf, From
<1> QED
  BY <1>1, <1>2, <1>3, UpFromWalks

\* As many forks up as the record's chain reaches, the two walks are at the same
\* process.
LEMMA WalksAgree ==
  ASSUME TypeInv, Kinship, NEW id \in DOMAIN lineage, NEW i \in Nat,
         Ancestry(id)[i] \in DOMAIN nodes
  PROVE  /\ Forebear(id)[i] \in DOMAIN lineage
         /\ Ancestry(id)[i].tgid = Forebear(id)[i].tgid
<1> DEFINE told == Ancestry(id)
           real == Forebear(id)
           T == {n \in Nat : told[n] \in DOMAIN nodes =>
                               real[n] \in DOMAIN lineage /\ told[n].tgid = real[n].tgid}
<1>1. id \in Keys
  BY DEF TypeInv, KernelSound, KernelTyped, Keys
<1>2. NoKey \notin DOMAIN nodes
  BY ProcTableAssumption DEF TypeInv, TableTypeOK
<1>3. ASSUME NEW k \in DOMAIN nodes, NEW j \in DOMAIN lineage, k.tgid = j.tgid,
             ParentOf(k) \in DOMAIN nodes
      PROVE  ForkerOf(j) \in DOMAIN lineage /\ ForkerOf(j).tgid = ParentOf(k).tgid
  BY <1>2, <1>3 DEF ParentOf, ForkerOf, Kinship
<1>4. /\ told[0] = ParentOf(Resolve(id)) /\ \A n \in Nat \ {0} : told[n] = ParentOf(told[n - 1])
      /\ real[0] = ForkerOf(id) /\ \A n \in Nat \ {0} : real[n] = ForkerOf(real[n - 1])
  BY <1>1, AncestryWalks, ForebearWalks DEF TypeInv, TableTypeOK, Typed
<1>5. Resolve(id) \in DOMAIN nodes => Resolve(id).tgid = id.tgid
  BY <1>2 DEF Resolve, Newest, TypeInv, TableTypeOK
<1> HIDE DEF told, real
<1>6. \A k : ParentOf(k) \in DOMAIN nodes => k \in DOMAIN nodes
  BY <1>2 DEF ParentOf
<1>7. 0 \in T
  BY <1>1, <1>3, <1>4, <1>5, <1>6
<1>8. ASSUME NEW n \in Nat, n \in T
      PROVE  n + 1 \in T
  <2>1. n + 1 \in Nat \ {0} /\ (n + 1) - 1 = n
    OBVIOUS
  <2>2. told[n + 1] = ParentOf(told[n]) /\ real[n + 1] = ForkerOf(real[n])
    BY <1>4, <2>1
  <2> QED
    BY <1>3, <1>6, <1>8, <2>1, <2>2
<1> HIDE DEF T
<1>9. Nat \subseteq T
  BY <1>7, <1>8, Induction
<1> QED
  BY <1>9 DEF T, told, real

\* Whatever the ring still holds and whatever was lost, no alert names a stranger
\* as the ancestor of a running process, at any depth.
THEOREM AncestryIsNeverWrong == ASSUME ~PidReuse PROVE Spec => []AncestryNeverWrong
<1>1. Init => PipelineInv
  BY PipelineInvStarts
<1>2. PipelineInv /\ [Next]_vars => PipelineInv'
  BY PipelineInvStep
<1>3. PipelineInv => AncestryNeverWrong
  <2> SUFFICES ASSUME PipelineInv, NEW t \in DOMAIN group, NEW i \in Generations,
                      Ancestry(Identity(t))[i] \in DOMAIN nodes
               PROVE  /\ Forebear(Identity(t))[i] # NoKey
                      /\ Ancestry(Identity(t))[i].tgid = Forebear(Identity(t))[i].tgid
    BY DEF AncestryNeverWrong
  <2>1. i \in Nat
    BY DEF Generations
  <2>2. NoKey \notin DOMAIN lineage
    BY ProcTableAssumption DEF PipelineInv, TypeInv, KernelSound, KernelTyped
  <2>3. Identity(t) \in DOMAIN lineage
    BY DEF PipelineInv, TypeInv, KernelSound, Descended
  <2> QED
    BY <2>1, <2>2, <2>3, WalksAgree DEF PipelineInv
<1> QED
  BY <1>1, <1>2, <1>3, PTL DEF Spec

================================================================================
