------------------------------ MODULE LineageProofs ------------------------------
(******************************************************************************)
(* Proofs about the tracing pipeline where it misses nothing.  The first part:  *)
(* every process has one thread, no pid is given out twice, no event is lost,   *)
(* /proc was read and the processes found there do not exec.  Module            *)
(* SensorProofs has what holds without these; the runs of README.md show what   *)
(* goes wrong without each of them.                                            *)
(*                                                                            *)
(* The second part: the identity of a process survives the reuse of its pid,   *)
(* with threads, as long as no event is lost and /proc was read.               *)
(******************************************************************************)
EXTENDS SensorProofs

\* Every process has one thread and one pid, and every event comes.
Plain == ~Threads /\ ~PidReuse /\ ~Lossy

Watched ==
  /\ Plain
  /\ DOMAIN Snapshot = DOMAIN Boot
  /\ Execers \cap DOMAIN Boot = {}

--------------------------------------------------------------------------------
(* The table is the kernel as it was as many events ago as the ring holds *)

\* The running processes and their executables, as the kernel and the table have them.
KernelView == [t \in DOMAIN group |-> group[t].image]
TableView == [t \in DOMAIN by_tgid |-> nodes[by_tgid[t]].exe]

\* What the step that event e reports makes of them.
After(v, e) ==
  IF e.kind = "fork" THEN Insert(v, e.child, v[e.tgid])
  ELSE IF e.kind = "proc_exec" THEN [v EXCEPT ![e.tgid] = e.exe]
  ELSE IF Ends(e) THEN Without(v, {e.tgid})
  ELSE v

\* Applied one by one, the events in the ring lead from the table's view to the
\* kernel's, and each is about a process that runs at that point.
Leads(view) ==
  /\ view[1] = TableView /\ view[Len(ring) + 1] = KernelView
  /\ \A i \in 1 .. Len(ring) :
       ring[i].tgid \in DOMAIN view[i] /\ view[i + 1] = After(view[i], ring[i])

Mirror == \E view : Leads(view)

--------------------------------------------------------------------------------
(* The rest of the invariant *)

\* Every task is a process of its own, and those read from /proc do not exec.
Single ==
  /\ 1 \in DOMAIN group
  /\ \A t \in DOMAIN task :
       /\ task[t].tgid = t /\ task[t].start = group[t].start
       /\ task[t].execing # NoName => t \in Execers

\* A pid names one process, and its start time is known.
OnePerPid ==
  \A id \in DOMAIN lineage :
    id.start_time # 0 /\ \A other \in DOMAIN lineage : other.tgid = id.tgid => other = id

\* What a process says of itself carries its exact key.
Stamped ==
  \A i \in 1 .. Len(ring) :
    ring[i].kind # "fork" => Id(ring[i].tgid, ring[i].start) \in DOMAIN lineage

\* None of those read from /proc execs.
Untouched ==
  \A i \in 1 .. Len(ring) : Promoting(ring[i]) => ring[i].tgid \notin DOMAIN Boot

\* A pid has one record, under the exact key or the placeholder unless it was read
\* from /proc.
OneRecord ==
  \A k \in DOMAIN nodes :
    /\ k.tgid \in DOMAIN Boot \/ k.start_time = 0 \/ k \in DOMAIN lineage
    /\ \A m \in DOMAIN nodes : m.tgid = k.tgid => m = k

\* The record of a process that was forked by one we know names a parent.
Parents ==
  \A k \in DOMAIN nodes, id \in DOMAIN lineage :
    k.tgid = id.tgid /\ lineage[id] # NoKey => nodes[k].parent # NoKey

\* A record that is no tombstone is in the index, but for the processes read from
\* /proc: their exit event finds no record to mark.
Indexed ==
  \A k \in DOMAIN nodes :
    nodes[k].exited_at = NotExited => k.tgid \in DOMAIN by_tgid \cup (DOMAIN Boot \ {1})

Watching == attached = Kinds /\ Single /\ OnePerPid

Followed == Stamped /\ Untouched /\ OneRecord /\ Parents /\ Indexed /\ Mirror

LineageInv == PipelineInv /\ Watching /\ Followed

--------------------------------------------------------------------------------
(* One step of the kernel *)

\* What it adds to the lineage.
Begets(e) ==
  \E id \in ProcKey :
    /\ id.tgid = e.child /\ New(e.child) /\ id.start_time # 0
    /\ DOMAIN lineage' = DOMAIN lineage \cup {id}
    /\ \A k \in DOMAIN lineage : k # id => lineage'[k] = lineage[k]

\* Whose execve is under way, and where to.
Trying(t) == task[t].execing # NoName

Attempts(e) ==
  /\ \A t \in DOMAIN task' : Trying(t)' =>
       IF e.kind = "exec" /\ t = e.tgid THEN task'[t].execing = e.args
       ELSE t \in DOMAIN task /\ task'[t].execing = task[t].execing
  /\ e.kind = "proc_exec" => e.tgid \in DOMAIN task /\ Trying(e.tgid) /\ e.exe = task[e.tgid].execing

\* A step that event e tells all about.
Tells(e) ==
  /\ ring' = Append(ring, e)
  /\ e.tgid \in DOMAIN group
  /\ KernelView' = After(KernelView, e)
  /\ e.kind # "fork" => Id(e.tgid, e.start) \in DOMAIN lineage
  /\ Promoting(e) => e.tgid \in Execers
  /\ IF e.kind = "fork" THEN Begets(e) ELSE lineage' = lineage
  /\ Attempts(e)

\* A step of which there is nothing to tell.
Silent ==
  /\ ring' = ring /\ lineage' = lineage /\ KernelView' = KernelView
  /\ \A t \in DOMAIN task' : Trying(t)' => t \in DOMAIN task /\ task'[t].execing = task[t].execing

LEMMA TaskPlain ==
  ASSUME KernelSound, Single, NEW t \in DOMAIN task
  PROVE  /\ task[t].tgid = t /\ t \in Tgids /\ t \in DOMAIN group
         /\ group[t].start = task[t].start /\ task[t].start \in StartTimes
         /\ group[t].image \in Names
         /\ Id(t, task[t].start) = Identity(t) /\ Identity(t) \in DOMAIN lineage
         /\ DOMAIN group = DOMAIN task
<1>1. task[t].tgid = t /\ task[t].start = group[t].start
  BY DEF Single
<1>2. DOMAIN group = DOMAIN task
  BY DEF KernelSound, KernelTyped, Single
<1> QED
  BY <1>1, <1>2, TaskTyped DEF KernelSound, Descended, Identity

LEMMA ForkTells ==
  ASSUME Plain, KernelSound, Watching, NEW t \in DOMAIN task, Fork(t)
  PROVE  Single' /\ \E e \in Event : Tells(e)
<1>1. /\ task[t].tgid = t /\ t \in Tgids /\ t \in DOMAIN group /\ DOMAIN group = DOMAIN task
      /\ task[t].start \in StartTimes
  BY TaskPlain DEF Watching
<1>2. PICK c \in NextPids :
        /\ NewTask(c, c)
        /\ group' = Insert(group, c, [start |-> last_start + 1, image |-> group[t].image])
        /\ lineage' = Insert(lineage, Id(c, last_start + 1), Id(t, group[t].start))
        /\ EmitFork(t, c)
  BY <1>1 DEF Fork
<1> DEFINE e == [kind |-> "fork", tgid |-> t, start |-> task[t].start, child |-> c]
           id == Id(c, last_start + 1)
<1>3. Emit(e)
  BY <1>1, <1>2 DEF EmitFork, StartRead, Plain
<1>4. /\ New(c) /\ c \in Tgids /\ last_start + 1 \in StartTimes
      /\ DOMAIN task' = DOMAIN task \cup {c} /\ c \notin DOMAIN task
      /\ task'[c] = [tgid |-> c, start |-> last_start + 1, execing |-> NoName]
      /\ \A u \in DOMAIN task : task'[u] = task[u]
  <2>1. KernelTyped /\ c \in Tgids
    BY DEF KernelSound, NextPids, FreePids
  <2> QED
    BY <1>2, <2>1, NewTaskTyped
<1>5. /\ DOMAIN group' = DOMAIN group \cup {c} /\ c \notin DOMAIN group
      /\ group'[c] = [start |-> last_start + 1, image |-> group[t].image]
      /\ \A u \in DOMAIN group : group'[u] = group[u]
  BY <1>1, <1>2, <1>4 DEF Insert
<1>6. e \in Event /\ e.kind = "fork" /\ e.tgid = t /\ e.child = c
  BY <1>1, <1>4 DEF Event
<1>7. ring' = Append(ring, e)
  BY <1>3, <1>6, EmitDelivers DEF Plain, Watching
<1>8. KernelView' = After(KernelView, e)
  <2>1. After(KernelView, e) = Insert(KernelView, c, KernelView[t])
    BY <1>6 DEF After
  <2>2. KernelView[t] = group[t].image
    BY <1>1 DEF KernelView
  <2> QED
    BY <1>5, <2>1, <2>2 DEF KernelView, Insert
<1>9. Begets(e)
  <2>1. id \in ProcKey /\ id.tgid = c /\ id.start_time # 0
    BY <1>4, ProcTableAssumption DEF Id, ProcKey
  <2>2. /\ DOMAIN lineage' = DOMAIN lineage \cup {id}
        /\ \A k \in DOMAIN lineage : k # id => lineage'[k] = lineage[k]
    BY <1>2 DEF Insert
  <2> QED
    BY <1>4, <1>6, <2>1, <2>2 DEF Begets
<1>10. Tells(e)
  <2> HIDE DEF e
  <2>1. Attempts(e)
    BY <1>4, <1>6 DEF Attempts, Trying
  <2> QED
    BY <1>1, <1>6, <1>7, <1>8, <1>9, <2>1 DEF Tells, Promoting
<1>11. Single'
  BY <1>1, <1>4, <1>5 DEF Watching, Single
<1> QED
  BY <1>6, <1>10, <1>11

LEMMA SysEnterExecveTells ==
  ASSUME Plain, KernelSound, Watching, NEW t \in DOMAIN task, NEW path \in Runs,
         SysEnterExecve(t, path)
  PROVE  Single' /\ \E e \in Event : Tells(e)
<1>1. /\ task[t].tgid = t /\ t \in Tgids /\ t \in DOMAIN group /\ DOMAIN group = DOMAIN task
      /\ task[t].start \in StartTimes /\ group[t].image \in Names
      /\ Id(t, task[t].start) \in DOMAIN lineage /\ path \in Names
  BY TaskPlain, SensorAssumption DEF Watching
<1> DEFINE e == [kind |-> "exec", tgid |-> t, start |-> task[t].start,
                 comm |-> group[t].image, args |-> path]
<1>2. EmitOrDiscard(e)
  BY <1>1 DEF SysEnterExecve, EmitExec, StartRead, Plain
<1>3. e \in Event /\ e.kind = "exec" /\ e.tgid = t /\ e.start = task[t].start /\ ~Ends(e)
  BY <1>1 DEF Event, Ends
<1>4. ring' = Append(ring, e)
  BY <1>2, <1>3, EmitDelivers DEF Plain, Watching
<1>5. /\ task' = [task EXCEPT ![t].execing = path] /\ group' = group /\ lineage' = lineage
      /\ t \in Execers
  BY <1>1 DEF SysEnterExecve
<1>6. KernelView' = After(KernelView, e)
  <2> HIDE DEF e
  <2> QED
    BY <1>3, <1>5 DEF KernelView, After
<1>7. Tells(e)
  <2>1. Attempts(e)
    <3>1. e.args = path
      OBVIOUS
    <3> HIDE DEF e
    <3> QED
      BY <1>3, <1>5, <3>1 DEF Attempts, Trying, KernelSound, KernelTyped
  <2> HIDE DEF e
  <2> QED
    BY <1>1, <1>3, <1>4, <1>5, <1>6, <2>1 DEF Tells
<1>8. Single'
  BY <1>1, <1>5 DEF Watching, Single, KernelSound, KernelTyped
<1> QED
  BY <1>3, <1>7, <1>8

LEMMA ExecFailsQuiet ==
  ASSUME KernelSound, Watching, NEW t \in DOMAIN task, ExecFails(t)
  PROVE  Single' /\ Silent
<1>1. task' = [task EXCEPT ![t].execing = NoName] /\ group' = group
  BY DEF ExecFails
<1>2. Single'
  BY <1>1 DEF Watching, Single, KernelSound, KernelTyped
<1>3. \A u \in DOMAIN task' : Trying(u)' => u \in DOMAIN task /\ task'[u].execing = task[u].execing
  BY <1>1 DEF Trying, KernelSound, KernelTyped
<1> QED
  BY <1>1, <1>2, <1>3 DEF ExecFails, Silent, KernelView

LEMMA ExecSucceedsTells ==
  ASSUME Plain, KernelSound, Watching, NEW t \in DOMAIN task, ExecSucceeds(t)
  PROVE  Single' /\ \E e \in Event : Tells(e)
<1> DEFINE path == task[t].execing
<1>1. /\ task[t].tgid = t /\ t \in Tgids /\ t \in DOMAIN group /\ DOMAIN group = DOMAIN task
      /\ task[t].start \in StartTimes /\ group[t].start = task[t].start
      /\ Id(t, task[t].start) \in DOMAIN lineage
  BY TaskPlain DEF Watching
<1>2. path \in Names /\ t \in Execers
  BY TaskTyped DEF KernelSound, ExecSucceeds, Watching, Single
<1> DEFINE e == [kind |-> "proc_exec", tgid |-> t, start |-> task[t].start, exe |-> path]
<1>3. EmitOrDiscard(e)
  BY <1>1 DEF ExecSucceeds, EmitProcExec, Plain
<1>4. /\ e \in Event /\ e.kind = "proc_exec" /\ e.tgid = t /\ e.start = task[t].start
      /\ e.exe = path
  BY <1>1, <1>2 DEF Event
<1>5. ring' = Append(ring, e)
  BY <1>3, <1>4, EmitDelivers DEF Plain, Watching
<1>6. /\ DOMAIN task' = DOMAIN task
      /\ task'[t] = [tgid |-> t, start |-> group[t].start, execing |-> NoName]
      /\ \A u \in DOMAIN task \ {t} : task'[u] = task[u]
  BY <1>1 DEF ExecSucceeds, Insert, Without
<1>7. group' = [group EXCEPT ![t].image = path] /\ lineage' = lineage
  BY <1>1 DEF ExecSucceeds
<1>8. /\ DOMAIN group' = DOMAIN group
      /\ \A u \in DOMAIN group :
           group'[u].start = group[u].start /\ group'[u].image = IF u = t THEN path ELSE group[u].image
  BY <1>1, <1>7 DEF KernelSound, KernelTyped
<1>9. KernelView' = After(KernelView, e)
  <2> HIDE DEF e
  <2>1. After(KernelView, e) = [KernelView EXCEPT ![t] = path]
    BY <1>4 DEF After
  <2> QED
    BY <1>8, <2>1 DEF KernelView
<1>10. Tells(e)
  <2> HIDE DEF e
  <2>1. Attempts(e)
    BY <1>4, <1>6 DEF Attempts, Trying, ExecSucceeds
  <2> QED
    BY <1>1, <1>2, <1>4, <1>5, <1>7, <1>9, <2>1 DEF Tells
<1>11. Single'
  BY <1>1, <1>6, <1>8 DEF Watching, Single
<1> QED
  BY <1>4, <1>10, <1>11

LEMMA ExitTells ==
  ASSUME Plain, KernelSound, Watching, NEW t \in DOMAIN task, Exit(t)
  PROVE  Single' /\ \E e \in Event : Tells(e)
<1>1. /\ task[t].tgid = t /\ t \in Tgids /\ t \in DOMAIN group /\ DOMAIN group = DOMAIN task
      /\ task[t].start \in StartTimes /\ Id(t, task[t].start) \in DOMAIN lineage
  BY TaskPlain DEF Watching
<1>2. Siblings(t) = {}
  BY DEF Siblings, Watching, Single
<1> DEFINE e == [kind |-> "exit", tgid |-> t, start |-> task[t].start, group_dead |-> TRUE]
<1>3. EmitOrDiscard(e)
  BY <1>1, <1>2 DEF Exit, EmitExit, StartRead, Plain
<1>4. e \in Event /\ e.kind = "exit" /\ e.tgid = t /\ e.start = task[t].start /\ Ends(e)
  BY <1>1 DEF Event, Ends
<1>5. ring' = Append(ring, e)
  BY <1>3, <1>4, EmitDelivers DEF Plain, Watching
<1>6. /\ t # 1 /\ DOMAIN task' = DOMAIN task \ {t} /\ \A u \in DOMAIN task \ {t} : task'[u] = task[u]
      /\ DOMAIN group' = DOMAIN group \ {t} /\ \A u \in DOMAIN group \ {t} : group'[u] = group[u]
      /\ lineage' = lineage
  BY <1>1, <1>2 DEF Exit, Without
<1>7. KernelView' = After(KernelView, e)
  <2> HIDE DEF e
  <2>1. After(KernelView, e) = Without(KernelView, {t})
    BY <1>4 DEF After
  <2> QED
    BY <1>6, <2>1 DEF KernelView, Without
<1>8. Tells(e)
  <2> HIDE DEF e
  <2>1. Attempts(e)
    BY <1>4, <1>6 DEF Attempts, Trying
  <2> QED
    BY <1>1, <1>4, <1>5, <1>6, <1>7, <2>1 DEF Tells, Promoting
<1>9. Single'
  BY <1>1, <1>6 DEF Watching, Single
<1> QED
  BY <1>4, <1>8, <1>9

\* Every step of the kernel but a failed execve is told in one event.
LEMMA KernelTells ==
  ASSUME Plain, KernelSound, Watching, Kernel
  PROVE  Single' /\ attached' = attached /\ (Silent \/ \E e \in Event : Tells(e))
<1>1. \A t \in DOMAIN task : ~Clone(t)
  BY DEF Plain, Clone
<1> QED
  BY <1>1, ForkTells, SysEnterExecveTells, ExecFailsQuiet, ExecSucceedsTells, ExitTells DEF Kernel

LEMMA KernelKeepsOnePerPid ==
  ASSUME Plain, PipelineInv, OnePerPid, Silent \/ \E e \in Event : Tells(e)
  PROVE  OnePerPid'
<1>1. CASE lineage' = lineage
  BY <1>1 DEF OnePerPid
<1>2. ASSUME NEW e \in Event, Begets(e)
      PROVE  OnePerPid'
  <2>1. PICK id \in ProcKey :
          /\ id.tgid = e.child /\ New(e.child) /\ id.start_time # 0
          /\ DOMAIN lineage' = DOMAIN lineage \cup {id}
    BY <1>2 DEF Begets
  <2>2. \A k \in DOMAIN lineage : k.tgid # id.tgid
    BY <2>1, PidsAreNumbers DEF New, Plain, PipelineInv, PidsGivenOut
  <2> QED
    BY <2>1, <2>2 DEF OnePerPid
<1> QED
  BY <1>1, <1>2 DEF Tells, Silent

\* Where the views go when the last of them changes.
LEMMA MirrorGrows ==
  ASSUME RingTyped, Mirror, UNCHANGED tableVars, NEW e \in Event, Tells(e)
  PROVE  Mirror'
<1>1. PICK view : Leads(view)
  BY DEF Mirror
<1>2. ring \in Seq(Event) /\ Len(ring) \in Nat /\ ring' = Append(ring, e)
  BY DEF RingTyped, Tells
<1>3. /\ Len(ring') = Len(ring) + 1 /\ ring'[Len(ring) + 1] = e
      /\ \A i \in 1 .. Len(ring) : ring'[i] = ring[i]
  BY <1>2, Appended
<1>4. TableView' = TableView
  BY DEF TableView, tableVars
<1>5. e.tgid \in DOMAIN KernelView /\ KernelView' = After(KernelView, e)
  BY DEF Tells, KernelView
<1> DEFINE last == KernelView'
           w == [i \in 1 .. Len(ring) + 2 |-> IF i =< Len(ring) + 1 THEN view[i] ELSE last]
<1> HIDE DEF last
<1>6. /\ \A i \in 1 .. Len(ring) + 1 : w[i] = view[i]
      /\ w[(Len(ring) + 1) + 1] = last
  BY <1>2
<1> HIDE DEF w
<1>7. w[1] = TableView' /\ w[Len(ring') + 1] = KernelView'
  BY <1>1, <1>2, <1>3, <1>4, <1>6 DEF Leads, last
<1>8. ASSUME NEW i \in 1 .. Len(ring')
      PROVE  ring'[i].tgid \in DOMAIN w[i] /\ w[i + 1] = After(w[i], ring'[i])
  <2>1. CASE i \in 1 .. Len(ring)
    <3>1. i + 1 \in 1 .. Len(ring) + 1 /\ i \in 1 .. Len(ring) + 1
      BY <1>2, <2>1
    <3> QED
      BY <1>1, <1>3, <1>6, <2>1, <3>1 DEF Leads
  <2>2. CASE i = Len(ring) + 1
    <3>1. w[i] = KernelView
      BY <1>1, <1>2, <1>6, <2>2 DEF Leads
    <3> QED
      BY <1>3, <1>5, <1>6, <2>2, <3>1 DEF last
  <2> QED
    BY <1>2, <1>3, <2>1, <2>2
<1> QED
  BY <1>7, <1>8 DEF Mirror, Leads

LEMMA MirrorMovesOn ==
  ASSUME RingTyped, Mirror, ring # <<>>, ring' = Tail(ring), UNCHANGED kernelVars,
         TableView' = After(TableView, Head(ring))
  PROVE  Mirror'
<1>1. PICK view : Leads(view)
  BY DEF Mirror
<1>2. /\ Len(ring') = Len(ring) - 1 /\ Len(ring) \in Nat \ {0} /\ Head(ring) = ring[1]
      /\ \A i \in 1 .. Len(ring') : ring'[i] = ring[i + 1]
  BY Taken DEF RingTyped
<1>3. KernelView' = KernelView
  BY DEF KernelView, kernelVars
<1> DEFINE w == [i \in 1 .. Len(ring) |-> view[i + 1]]
<1>4. \A i \in 1 .. Len(ring) : w[i] = view[i + 1]
  OBVIOUS
<1> HIDE DEF w
<1>5. w[1] = TableView'
  BY <1>1, <1>2, <1>4 DEF Leads
<1>6. w[Len(ring') + 1] = KernelView'
  BY <1>1, <1>2, <1>3, <1>4 DEF Leads
<1>7. ASSUME NEW i \in 1 .. Len(ring')
      PROVE  ring'[i].tgid \in DOMAIN w[i] /\ w[i + 1] = After(w[i], ring'[i])
  <2>1. i \in 1 .. Len(ring) /\ i + 1 \in 1 .. Len(ring)
    BY <1>2
  <2> QED
    BY <1>1, <1>2, <1>4, <2>1 DEF Leads
<1> QED
  BY <1>5, <1>6, <1>7 DEF Mirror, Leads

LEMMA KernelKeepsStamped ==
  ASSUME RingTyped, Stamped, Silent \/ \E e \in Event : Tells(e)
  PROVE  Stamped'
<1>1. CASE Silent
  BY <1>1 DEF Silent, Stamped
<1>2. ASSUME NEW e \in Event, Tells(e)
      PROVE  Stamped'
  <2>1. \A k \in DOMAIN lineage : k \in DOMAIN lineage'
    BY <1>2 DEF Tells, Begets
  <2>2. \A i \in 1 .. Len(ring') : ring'[i] = e \/ (i \in 1 .. Len(ring) /\ ring'[i] = ring[i])
    BY <1>2, Appended DEF Tells, RingTyped
  <2> QED
    BY <1>2, <2>1, <2>2 DEF Stamped, Tells
<1> QED
  BY <1>1, <1>2

LEMMA TakenKeepsStamped ==
  ASSUME RingTyped, Stamped, ring # <<>>, ring' = Tail(ring), UNCHANGED kernelVars
  PROVE  Stamped'
<1>1. \A i \in 1 .. Len(ring') : i + 1 \in 1 .. Len(ring) /\ ring'[i] = ring[i + 1]
  BY Taken DEF RingTyped
<1> QED
  BY <1>1 DEF Stamped, kernelVars

LEMMA KernelKeepsFollowed ==
  ASSUME Watched, PipelineInv, Followed, UNCHANGED tableVars, Silent \/ \E e \in Event : Tells(e)
  PROVE  Followed'
<1>1. TypeInv /\ RingTyped /\ PidsGivenOut /\ Untouched /\ OneRecord /\ Parents /\ Indexed
      /\ Mirror /\ nodes' = nodes /\ by_tgid' = by_tgid
  BY DEF PipelineInv, TypeInv, Followed, tableVars
<1>2. Indexed' /\ Stamped'
  BY <1>1, KernelKeepsStamped DEF Followed, Indexed
<1>3. CASE Silent
  <2>1. Untouched' /\ OneRecord' /\ Parents'
    BY <1>1, <1>3 DEF Silent, Untouched, OneRecord, Parents
  <2>2. Mirror'
    BY <1>1, <1>3 DEF Silent, Mirror, Leads, TableView
  <2> QED
    BY <1>2, <2>1, <2>2 DEF Followed
<1>4. ASSUME NEW e \in Event, Tells(e)
      PROVE  Followed'
  <2>1. \A k \in DOMAIN lineage : k \in DOMAIN lineage'
    BY <1>4 DEF Tells, Begets
  <2>2. Untouched'
    <3>1. \A i \in 1 .. Len(ring') : ring'[i] = e \/ (i \in 1 .. Len(ring) /\ ring'[i] = ring[i])
      BY <1>1, <1>4, Appended DEF Tells, TypeInv, RingTyped
    <3>2. Promoting(e) => e.tgid \notin DOMAIN Boot
      BY <1>4 DEF Tells, Watched
    <3> QED
      BY <1>1, <3>1, <3>2 DEF Untouched
  <2>3. OneRecord'
    BY <1>1, <2>1 DEF OneRecord
  <2>4. Parents'
    <3>1. CASE lineage' = lineage
      BY <1>1, <3>1 DEF Parents
    <3>2. CASE Begets(e)
      <4>1. PICK id \in ProcKey :
              /\ id.tgid = e.child /\ New(e.child)
              /\ DOMAIN lineage' = DOMAIN lineage \cup {id}
              /\ \A k \in DOMAIN lineage : k # id => lineage'[k] = lineage[k]
        BY <3>2 DEF Begets
      <4>2. \A k \in DOMAIN nodes : k.tgid # id.tgid
        BY <1>1, <4>1, PidsAreNumbers DEF New, Watched, Plain, PidsGivenOut
      <4> QED
        BY <1>1, <4>1, <4>2 DEF Parents
    <3> QED
      BY <1>4, <3>1, <3>2 DEF Tells
  <2>5. Mirror'
    BY <1>1, <1>4, MirrorGrows DEF TypeInv
  <2> QED
    BY <1>2, <2>2, <2>3, <2>4, <2>5 DEF Followed
<1> QED
  BY <1>3, <1>4

--------------------------------------------------------------------------------
(* One event is applied *)

\* The event at the head of the ring is about a process that has a record.
LEMMA HeadIsKnown ==
  ASSUME LineageInv, ring # <<>>
  PROVE  LET e == Head(ring)
             r == by_tgid[e.tgid]
         IN /\ e \in Event /\ EventKey \in ProcKey
            /\ EventKey.tgid = e.tgid /\ EventKey.start_time = e.start
            /\ e.tgid \in DOMAIN by_tgid /\ r \in DOMAIN nodes /\ r.tgid = e.tgid
            /\ \A k \in DOMAIN nodes : k.tgid = e.tgid => k = r
            /\ e.kind = "fork" => \A k \in DOMAIN nodes : k.tgid # e.child
            /\ e.kind # "fork" => EventKey \in DOMAIN lineage /\ EventKey.start_time # 0
            /\ Promoting(e) => e.tgid \notin DOMAIN Boot
            /\ Ends(e) => e.tgid # 1
            /\ e.tgid \notin DOMAIN Boot /\ e.kind # "fork" => r = EventKey \/ r = Placeholder(e.tgid)
<1> DEFINE e == Head(ring)
           r == by_tgid[e.tgid]
<1>1. TypeInv /\ Sound(nodes, by_tgid) /\ ForkIsFirst /\ ExitIsLast /\ RingTyped /\ Followed /\ Watching
  BY DEF LineageInv, PipelineInv, TypeInv
<1>2. 1 \in 1 .. Len(ring) /\ e = ring[1]
  BY <1>1, Taken DEF RingTyped
<1>3. e \in Event /\ EventKey \in ProcKey /\ EventKey.tgid = e.tgid /\ EventKey.start_time = e.start
  BY <1>1, EventKeyType
<1>4. e.tgid \in DOMAIN by_tgid
  <2>1. PICK view : Leads(view)
    BY <1>1 DEF Followed, Mirror
  <2> QED
    BY <1>2, <2>1 DEF Leads, TableView
<1>5. r \in DOMAIN nodes /\ r.tgid = e.tgid
  BY <1>1, <1>4 DEF Sound, Index, IndexTyped
<1>6. \A k \in DOMAIN nodes : k.tgid = e.tgid => k = r
  BY <1>1, <1>5 DEF Followed, OneRecord
<1>7. e.kind = "fork" => \A k \in DOMAIN nodes : k.tgid # e.child
  BY <1>1, <1>2 DEF ForkIsFirst
<1>8. e.kind # "fork" => EventKey \in DOMAIN lineage /\ EventKey.start_time # 0
  BY <1>1, <1>2 DEF Followed, Stamped, Watching, OnePerPid, EventKey
<1>9. Promoting(e) => e.tgid \notin DOMAIN Boot
  BY <1>1, <1>2 DEF Followed, Untouched
<1>10. Ends(e) => e.tgid # 1
  BY <1>1, <1>2 DEF ExitIsLast, Watching, Single
<1>11. ASSUME e.tgid \notin DOMAIN Boot, e.kind # "fork"
       PROVE  r = EventKey \/ r = Placeholder(e.tgid)
  <2>1. r.start_time = 0 \/ r \in DOMAIN lineage
    BY <1>1, <1>5, <1>11 DEF Followed, OneRecord
  <2>2. CASE r \in DOMAIN lineage
    BY <1>1, <1>3, <1>5, <1>8, <1>11, <2>2 DEF Watching, OnePerPid
  <2>3. CASE r.start_time = 0
    BY <1>1, <1>5, <2>3 DEF Sound, Typed, ProcKey, Placeholder
  <2> QED
    BY <2>1, <2>2, <2>3
<1> QED
  BY <1>3, <1>4, <1>5, <1>6, <1>7, <1>8, <1>9, <1>10, <1>11

\* What the records say of images and arguments, dead or alive, after event e: a
\* child has its parent's image and no arguments.
Hears(e) ==
  \A k \in DOMAIN nodes' :
    IF e.kind = "fork" /\ k.tgid = e.child
    THEN /\ nodes'[k].args = NoName
         /\ \E m \in DOMAIN nodes : m.tgid = e.tgid /\ nodes'[k].exe = nodes[m].exe
    ELSE \E m \in DOMAIN nodes :
           /\ m.tgid = k.tgid
           /\ nodes'[k].exe = IF e.kind = "proc_exec" /\ k.tgid = e.tgid THEN e.exe ELSE nodes[m].exe
           /\ nodes'[k].args = IF e.kind = "exec" /\ k.tgid = e.tgid THEN e.args ELSE nodes[m].args

\* What the handler of event e makes of the table.
Follows(e) ==
  /\ TableView' = After(TableView, e) /\ Hears(e)
  /\ OneRecord' /\ Parents' /\ Indexed'

\* The two records differ in names and links only; the one has a parent if the
\* other has.
Like(m, old) ==
  m.exited_at = old.exited_at /\ ((m.parent = NoKey) <=> (old.parent = NoKey))

LEMMA ForkFollows ==
  ASSUME LineageInv, ring # <<>>, Head(ring).kind = "fork", UNCHANGED kernelVars,
         OnFork(Head(ring).tgid, Head(ring).child)
  PROVE  Follows(Head(ring))
<1> DEFINE e == Head(ring)
           pk == Newest(e.tgid)
           ck == Placeholder(e.child)
           adopted == Adopt(pk, ck)
           v == ForkedNode(pk)
<1>1. /\ Sound(nodes, by_tgid) /\ OneRecord /\ Parents /\ Indexed
      /\ lineage' = lineage
  BY DEF LineageInv, PipelineInv, Followed, kernelVars
<1>2. /\ e \in Event /\ e.tgid \in DOMAIN by_tgid /\ by_tgid[e.tgid] \in DOMAIN nodes
      /\ \A k \in DOMAIN nodes : k.tgid # e.child
  BY HeadIsKnown
<1>3. nodes' = Insert(adopted, ck, v) /\ ck.tgid = e.child /\ ck.start_time = 0
      /\ by_tgid' = Insert(by_tgid, e.child, ck)
  BY DEF OnFork, Placeholder
<1>4. \A k \in DOMAIN nodes : nodes[k] \in ProcNode /\ k \in ProcKey
  BY <1>1 DEF Sound, Typed
<1>5. /\ DOMAIN adopted = DOMAIN nodes
      /\ \A k \in DOMAIN nodes :
           /\ adopted[k].parent = nodes[k].parent /\ adopted[k].exited_at = nodes[k].exited_at
           /\ adopted[k].exe = nodes[k].exe /\ adopted[k].args = nodes[k].args
  BY <1>4 DEF Adopt, ProcNode
<1>6. pk = by_tgid[e.tgid] /\ pk # NoKey /\ pk \in DOMAIN nodes
  BY <1>2, <1>4, ProcTableAssumption DEF Newest
<1>7. v.parent = pk /\ v.exited_at = NotExited /\ v.exe = nodes[pk].exe /\ v.args = NoName
  BY <1>6 DEF ForkedNode, NewNode
<1>8. ck \notin DOMAIN nodes
  BY <1>2, <1>3
<1> HIDE DEF adopted, v, ck, pk
<1>9. /\ DOMAIN nodes' = DOMAIN nodes \cup {ck} /\ nodes'[ck] = v
      /\ \A k \in DOMAIN nodes :
           /\ Like(nodes'[k], nodes[k])
           /\ nodes'[k].exe = nodes[k].exe /\ nodes'[k].args = nodes[k].args
  BY <1>3, <1>5, <1>8 DEF Insert, Like
<1>10. /\ DOMAIN by_tgid' = DOMAIN by_tgid \cup {e.child} /\ by_tgid'[e.child] = ck
       /\ \A t \in DOMAIN by_tgid : t # e.child => by_tgid'[t] = by_tgid[t]
  BY <1>3 DEF Insert
<1>11. TableView' = After(TableView, e)
  <2>1. After(TableView, e) = Insert(TableView, e.child, TableView[e.tgid])
    BY DEF After
  <2>2. TableView[e.tgid] = nodes'[ck].exe
    BY <1>2, <1>6, <1>7, <1>9 DEF TableView
  <2>3. \A t \in DOMAIN by_tgid : t # e.child => nodes'[by_tgid'[t]].exe = nodes[by_tgid[t]].exe
    BY <1>1, <1>9, <1>10 DEF Sound, Index
  <2> QED
    BY <1>10, <2>1, <2>2, <2>3 DEF TableView, Insert
<1>12. OneRecord'
  BY <1>1, <1>2, <1>3, <1>9 DEF OneRecord
<1>13. Parents'
  BY <1>1, <1>6, <1>7, <1>9 DEF Parents, Like
<1>14. Indexed'
  BY <1>1, <1>3, <1>9, <1>10 DEF Indexed, Like
<1>15. Hears(e)
  <2>1. pk.tgid = e.tgid
    BY <1>1, <1>2, <1>6 DEF Sound, IndexTyped
  <2> HIDE DEF e
  <2>2. e.kind = "fork"
    BY DEF e
  <2> QED
    BY <1>2, <1>3, <1>6, <1>7, <1>9, <2>1, <2>2 DEF Hears
<1> QED
  BY <1>11, <1>12, <1>13, <1>14, <1>15 DEF Follows

\* Record r of key's tgid now has the key, and the rest is as it was.
Renamed(n, b, key, r) ==
  /\ DOMAIN n = (DOMAIN nodes \ {r}) \cup {key}
  /\ Like(n[key], nodes[r]) /\ \A k \in DOMAIN nodes \ {r} : Like(n[k], nodes[k])
  /\ DOMAIN b = DOMAIN by_tgid /\ b[key.tgid] = key
  /\ \A t \in DOMAIN by_tgid : t # key.tgid => b[t] = by_tgid[t]

SameImages(n, key, r) ==
  /\ n[key].exe = nodes[r].exe /\ n[key].args = nodes[r].args
  /\ \A k \in DOMAIN nodes \ {r} : n[k].exe = nodes[k].exe /\ n[k].args = nodes[k].args

\* ensure() finds the one record of the process, or its placeholder.
LEMMA EnsureRenames ==
  ASSUME Sound(nodes, by_tgid), NEW key \in ProcKey, key.start_time # 0,
         key.tgid \in DOMAIN by_tgid, NEW r, r = by_tgid[key.tgid],
         \A k \in DOMAIN nodes : k.tgid = key.tgid => k = r,
         r = key \/ r = Placeholder(key.tgid)
  PROVE  /\ Renamed(EnsuredNodes(key), EnsuredIndex(key), key, r)
         /\ SameImages(EnsuredNodes(key), key, r)
<1>1. r \in DOMAIN nodes /\ \A k \in DOMAIN nodes : nodes[k] \in ProcNode
  BY DEF Sound, Index, Typed
<1>2. CASE r = key
  BY <1>1, <1>2 DEF EnsuredNodes, EnsuredIndex, Renamed, SameImages, Like
<1>3. CASE r # key
  <2> DEFINE n == Promoted(key)
  <2>1. r = Placeholder(key.tgid) /\ key \notin DOMAIN nodes
    BY <1>3
  <2>2. EnsuredNodes(key) = n /\ EnsuredIndex(key) = Insert(by_tgid, key.tgid, key)
    BY <1>1, <2>1 DEF EnsuredNodes, EnsuredIndex, Promotes
  <2>3. DOMAIN n = (DOMAIN nodes \ {r}) \cup {key} /\ n[key] = nodes[r]
    BY <2>1 DEF Promoted
  <2>4. ASSUME NEW k \in DOMAIN nodes \ {r}
        PROVE  Like(n[k], nodes[k]) /\ n[k].exe = nodes[k].exe /\ n[k].args = nodes[k].args
    <3> DEFINE ch == IF k = nodes[r].parent THEN (nodes[k].children \ {r}) \cup {key}
                     ELSE nodes[k].children
               pa == IF k \in nodes[r].children THEN key ELSE nodes[k].parent
    <3>1. n[k] = [nodes[k] EXCEPT !.children = ch, !.parent = pa]
      BY <2>1 DEF Promoted
    <3>2. nodes[k] \in ProcNode
      BY <1>1
    <3>3. pa = nodes[k].parent \/ (pa = key /\ nodes[k].parent = r)
      BY <1>1 DEF Sound, Links
    <3>4. key # NoKey /\ r # NoKey
      BY <1>1, ProcTableAssumption DEF Sound, Typed
    <3> HIDE DEF ch, pa, n
    <3> QED
      BY <3>1, <3>2, <3>3, <3>4 DEF ProcNode, Like
  <2> HIDE DEF n
  <2>5. Renamed(n, Insert(by_tgid, key.tgid, key), key, r)
    BY <2>3, <2>4 DEF Renamed, Insert, Like
  <2>6. SameImages(n, key, r)
    BY <2>3, <2>4 DEF SameImages
  <2> QED
    BY <2>2, <2>5, <2>6
<1> QED
  BY <1>2, <1>3

\* The record is renamed and then written to.
LEMMA RenamedFollows ==
  ASSUME LineageInv, ring # <<>>, UNCHANGED kernelVars, Promoting(Head(ring)),
         Renamed(nodes', by_tgid', EventKey, by_tgid[Head(ring).tgid])
  PROVE  OneRecord' /\ Parents' /\ Indexed'
<1> DEFINE e == Head(ring)
           r == by_tgid[e.tgid]
           key == EventKey
<1>1. OneRecord /\ Parents /\ Indexed /\ lineage' = lineage
  BY DEF LineageInv, Followed, kernelVars
<1>2. /\ key.tgid = e.tgid /\ e.tgid \in DOMAIN by_tgid /\ r \in DOMAIN nodes /\ r.tgid = e.tgid
      /\ \A k \in DOMAIN nodes : k.tgid = e.tgid => k = r
      /\ key \in DOMAIN lineage
  BY HeadIsKnown DEF Promoting
<1> HIDE DEF e, r, key
<1>3. /\ DOMAIN nodes' = (DOMAIN nodes \ {r}) \cup {key}
      /\ Like(nodes'[key], nodes[r]) /\ \A k \in DOMAIN nodes \ {r} : Like(nodes'[k], nodes[k])
      /\ DOMAIN by_tgid' = DOMAIN by_tgid
  BY DEF Renamed, e, r, key
<1>4. OneRecord'
  BY <1>1, <1>2, <1>3 DEF OneRecord
<1>5. Parents'
  BY <1>1, <1>2, <1>3 DEF Parents, Like
<1>6. Indexed'
  BY <1>1, <1>2, <1>3 DEF Indexed, Like
<1> QED
  BY <1>4, <1>5, <1>6

\* What ensure() makes of the table for the event at the head.
LEMMA HeadEnsured ==
  ASSUME LineageInv, ring # <<>>, Promoting(Head(ring))
  PROVE  LET r == by_tgid[Head(ring).tgid]
         IN /\ Renamed(EnsuredNodes(EventKey), EnsuredIndex(EventKey), EventKey, r)
            /\ SameImages(EnsuredNodes(EventKey), EventKey, r)
            /\ \A k \in DOMAIN EnsuredNodes(EventKey) :
                 EnsuredNodes(EventKey)[k] \in ProcNode
<1>1. Sound(nodes, by_tgid)
  BY DEF LineageInv, PipelineInv
<1>2. Typed(EnsuredNodes(EventKey))
  BY <1>1, HeadIsKnown, EnsureType DEF Sound
<1>3. \A k \in DOMAIN EnsuredNodes(EventKey) : EnsuredNodes(EventKey)[k] \in ProcNode
  BY <1>2 DEF Typed
<1> QED
  BY <1>1, <1>3, HeadIsKnown, EnsureRenames DEF Promoting

\* The views of a table whose records were renamed.
LEMMA RenamedView ==
  ASSUME LineageInv, ring # <<>>,
         Renamed(nodes', by_tgid', EventKey, by_tgid[Head(ring).tgid])
  PROVE  LET p == Head(ring).tgid
         IN /\ DOMAIN by_tgid' = DOMAIN by_tgid /\ p \in DOMAIN by_tgid /\ by_tgid'[p] = EventKey
            /\ \A t \in DOMAIN by_tgid : t # p =>
                 by_tgid'[t] = by_tgid[t] /\ by_tgid[t] \in DOMAIN nodes \ {by_tgid[p]}
<1>1. Sound(nodes, by_tgid)
  BY DEF LineageInv, PipelineInv
<1> QED
  BY <1>1, HeadIsKnown DEF Renamed, Sound, Index, IndexTyped

LEMMA ExecFollows ==
  ASSUME LineageInv, ring # <<>>, Head(ring).kind = "exec", UNCHANGED kernelVars,
         OnExec(EventKey, Head(ring).comm, Head(ring).args)
  PROVE  Follows(Head(ring))
<1> DEFINE e == Head(ring)
           r == by_tgid[e.tgid]
           n == EnsuredNodes(EventKey)
<1>1. /\ Promoting(e) /\ ~Ends(e)
      /\ nodes' = [n EXCEPT ![EventKey].comm = e.comm, ![EventKey].args = e.args]
      /\ by_tgid' = EnsuredIndex(EventKey)
  BY DEF OnExec, Promoting, Ends
<1>2. /\ Renamed(n, by_tgid', EventKey, r) /\ SameImages(n, EventKey, r)
      /\ \A k \in DOMAIN n : n[k] \in ProcNode
  BY <1>1, HeadEnsured
<1> HIDE DEF n
<1>3. /\ DOMAIN nodes' = DOMAIN n
      /\ \A k \in DOMAIN n :
           /\ nodes'[k].parent = n[k].parent /\ nodes'[k].exited_at = n[k].exited_at
           /\ nodes'[k].exe = n[k].exe
           /\ nodes'[k].args = IF k = EventKey THEN e.args ELSE n[k].args
  BY <1>1, <1>2 DEF ProcNode
<1>4. Renamed(nodes', by_tgid', EventKey, r)
  BY <1>2, <1>3 DEF Renamed, Like
<1>5. TableView' = After(TableView, e)
  <2>1. After(TableView, e) = TableView
    BY <1>1 DEF After, Promoting
  <2>2. /\ nodes'[EventKey].exe = nodes[r].exe
        /\ \A k \in DOMAIN nodes \ {r} : nodes'[k].exe = nodes[k].exe
    BY <1>2, <1>3 DEF Renamed, SameImages
  <2> QED
    BY <1>4, <2>1, <2>2, RenamedView DEF TableView
<1>6. Hears(e)
  <2>1. /\ EventKey.tgid = e.tgid /\ r \in DOMAIN nodes /\ r.tgid = e.tgid
        /\ \A k \in DOMAIN nodes : k.tgid = e.tgid => k = r
    BY HeadIsKnown
  <2> HIDE DEF r
  <2> QED
    BY <1>2, <1>3, <2>1 DEF Hears, Renamed, SameImages
<1> QED
  BY <1>1, <1>4, <1>5, <1>6, RenamedFollows DEF Follows

LEMMA ProcExecFollows ==
  ASSUME LineageInv, ring # <<>>, Head(ring).kind = "proc_exec", UNCHANGED kernelVars,
         OnProcExec(EventKey, Head(ring).exe)
  PROVE  Follows(Head(ring))
<1> DEFINE e == Head(ring)
           r == by_tgid[e.tgid]
           n == EnsuredNodes(EventKey)
<1>1. /\ Promoting(e)
      /\ nodes' = [n EXCEPT ![EventKey].exe = e.exe] /\ by_tgid' = EnsuredIndex(EventKey)
  BY DEF OnProcExec, Promoting
<1>2. /\ Renamed(n, by_tgid', EventKey, r) /\ SameImages(n, EventKey, r)
      /\ \A k \in DOMAIN n : n[k] \in ProcNode
  BY <1>1, HeadEnsured
<1>3. EventKey \in DOMAIN n
  BY <1>2 DEF Renamed
<1> HIDE DEF n
<1>4. /\ DOMAIN nodes' = DOMAIN n /\ nodes'[EventKey].exe = e.exe
      /\ \A k \in DOMAIN n :
           /\ nodes'[k].parent = n[k].parent /\ nodes'[k].exited_at = n[k].exited_at
           /\ nodes'[k].args = n[k].args
           /\ k # EventKey => nodes'[k].exe = n[k].exe
  BY <1>1, <1>2, <1>3 DEF ProcNode
<1>5. Renamed(nodes', by_tgid', EventKey, r)
  BY <1>2, <1>4 DEF Renamed, Like
<1>6. TableView' = After(TableView, e)
  <2>1. After(TableView, e) = [TableView EXCEPT ![e.tgid] = e.exe]
    BY DEF After
  <2>2. \A t \in DOMAIN by_tgid : t # e.tgid => nodes'[by_tgid'[t]].exe = nodes[by_tgid[t]].exe
    <3> TAKE t \in DOMAIN by_tgid
    <3> HAVE t # e.tgid
    <3>1. by_tgid'[t] = by_tgid[t] /\ by_tgid[t] \in DOMAIN nodes \ {r} /\ by_tgid[t].tgid = t
      BY <1>5, RenamedView DEF LineageInv, PipelineInv, Sound, IndexTyped
    <3>2. by_tgid[t] # EventKey
      BY <3>1, HeadIsKnown
    <3> QED
      BY <1>2, <1>4, <3>1, <3>2 DEF Renamed, SameImages
  <2>3. /\ DOMAIN by_tgid' = DOMAIN by_tgid /\ e.tgid \in DOMAIN by_tgid
        /\ nodes'[by_tgid'[e.tgid]].exe = e.exe
    BY <1>4, <1>5, RenamedView
  <2> QED
    BY <2>1, <2>2, <2>3 DEF TableView
<1>7. Hears(e)
  <2>1. /\ EventKey.tgid = e.tgid /\ r \in DOMAIN nodes /\ r.tgid = e.tgid
        /\ \A k \in DOMAIN nodes : k.tgid = e.tgid => k = r
    BY HeadIsKnown
  <2> HIDE DEF r
  <2> QED
    BY <1>2, <1>4, <2>1 DEF Hears, Renamed, SameImages
<1> QED
  BY <1>1, <1>5, <1>6, <1>7, RenamedFollows DEF Follows

LEMMA ExitFollows ==
  ASSUME LineageInv, ring # <<>>, Head(ring).kind = "exit", UNCHANGED kernelVars,
         OnExit(EventKey, Head(ring).group_dead)
  PROVE  Follows(Head(ring))
<1> DEFINE e == Head(ring)
           r == by_tgid[e.tgid]
           x == ExitTarget(EventKey)
<1>1. /\ OneRecord /\ Parents /\ Indexed /\ lineage' = lineage /\ Sound(nodes, by_tgid)
      /\ \A k \in DOMAIN nodes : nodes[k] \in ProcNode
  BY DEF LineageInv, PipelineInv, Followed, kernelVars, Sound, Typed
<1>2. /\ EventKey.tgid = e.tgid /\ r \in DOMAIN nodes /\ r.tgid = e.tgid
      /\ e.tgid \in DOMAIN by_tgid
      /\ \A k \in DOMAIN nodes : k.tgid = e.tgid => k = r
      /\ Ends(e) => e.tgid # 1
      /\ e.tgid \notin DOMAIN Boot => r = EventKey \/ r = Placeholder(e.tgid)
  BY HeadIsKnown
<1>3. CASE ~e.group_dead
  <2>1. nodes' = nodes /\ by_tgid' = by_tgid
    BY <1>3 DEF OnExit, tableVars
  <2>2. After(TableView, e) = TableView
    BY <1>3 DEF After, Ends
  <2>3. TableView' = TableView
    BY <2>1 DEF TableView
  <2>4. OneRecord' /\ Parents' /\ Indexed'
    BY <1>1, <2>1 DEF OneRecord, Parents, Indexed
  <2>5. Hears(e)
    BY <2>1 DEF Hears
  <2> QED
    BY <2>2, <2>3, <2>4, <2>5 DEF Follows
<1>4. CASE e.group_dead
  <2>1. Ends(e) /\ by_tgid' = Without(by_tgid, {e.tgid})
        /\ nodes' = IF x \in DOMAIN nodes THEN [nodes EXCEPT ![x].exited_at = 0] ELSE nodes
    BY <1>2, <1>4 DEF OnExit, Ends
  <2>2. x.tgid = e.tgid /\ (e.tgid \notin DOMAIN Boot => x = r)
    BY <1>2 DEF ExitTarget, Placeholder
  <2> HIDE DEF x
  <2>3. /\ DOMAIN nodes' = DOMAIN nodes
        /\ \A k \in DOMAIN nodes :
             /\ nodes'[k].parent = nodes[k].parent /\ nodes'[k].exe = nodes[k].exe
             /\ nodes'[k].args = nodes[k].args
             /\ nodes'[k].exited_at = IF k = x THEN 0 ELSE nodes[k].exited_at
    BY <1>1, <2>1 DEF ProcNode
  <2>4. /\ DOMAIN by_tgid' = DOMAIN by_tgid \ {e.tgid}
        /\ \A t \in DOMAIN by_tgid \ {e.tgid} : by_tgid'[t] = by_tgid[t]
    BY <2>1 DEF Without
  <2>5. TableView' = After(TableView, e)
    <3>1. After(TableView, e) = Without(TableView, {e.tgid})
      BY <2>1 DEF After
    <3>2. \A t \in DOMAIN by_tgid \ {e.tgid} : nodes'[by_tgid'[t]].exe = nodes[by_tgid[t]].exe
      BY <1>1, <2>3, <2>4 DEF Sound, Index
    <3> QED
      BY <2>4, <3>1, <3>2 DEF TableView, Without
  <2>6. OneRecord' /\ Parents'
    BY <1>1, <2>3 DEF OneRecord, Parents
  <2>7. Indexed'
    <3> SUFFICES ASSUME NEW k \in DOMAIN nodes', nodes'[k].exited_at = NotExited
                 PROVE  k.tgid \in DOMAIN by_tgid' \cup (DOMAIN Boot \ {1})
      BY DEF Indexed
    <3>1. k # x
      BY <2>3 DEF NotExited
    <3>2. k.tgid \in DOMAIN by_tgid \cup (DOMAIN Boot \ {1})
      BY <1>1, <2>3, <3>1 DEF Indexed
    <3>3. CASE k.tgid = e.tgid
      BY <1>2, <2>1, <2>2, <2>3, <3>1, <3>3
    <3> QED
      BY <2>4, <3>2, <3>3
  <2>8. Hears(e)
    <3>1. e.kind = "exit"
      OBVIOUS
    <3> HIDE DEF e
    <3> QED
      BY <2>3, <3>1 DEF Hears
  <2> QED
    BY <2>5, <2>6, <2>7, <2>8 DEF Follows
<1> QED
  BY <1>3, <1>4

LEMMA ConsumeFollows ==
  ASSUME LineageInv, Consume
  PROVE  Followed'
<1> DEFINE e == Head(ring)
<1>1. ring # <<>> /\ ring' = Tail(ring) /\ UNCHANGED kernelVars /\ RingTyped /\ Untouched /\ Mirror
      /\ Stamped
  BY DEF Consume, ConsumeFork, ConsumeExec, ConsumeProcExec, ConsumeExit, Take,
         LineageInv, PipelineInv, TypeInv, Followed
<1>2. Follows(e)
  BY <1>1, ForkFollows, ExecFollows, ProcExecFollows, ExitFollows
     DEF Consume, ConsumeFork, ConsumeExec, ConsumeProcExec, ConsumeExit, Take
<1>3. Mirror'
  BY <1>1, <1>2, MirrorMovesOn DEF Follows
<1>4. Stamped' /\ Untouched'
  <2>1. \A i \in 1 .. Len(ring') : i + 1 \in 1 .. Len(ring) /\ ring'[i] = ring[i + 1]
    BY <1>1, Taken DEF RingTyped
  <2> QED
    BY <1>1, <2>1, TakenKeepsStamped DEF Untouched
<1> QED
  BY <1>2, <1>3, <1>4 DEF Follows, Followed

\* The timer drops tombstones and ages the rest; what the index names stays.
LEMMA TimerFollows ==
  ASSUME LineageInv, Expire \/ Tick \/ UNCHANGED vars
  PROVE  Followed' /\ UNCHANGED kernelVars
<1>1. /\ Sound(nodes, by_tgid) /\ Followed /\ \A k \in DOMAIN nodes : nodes[k] \in ProcNode
  BY DEF LineageInv, PipelineInv, Sound, Typed
<1>2. UNCHANGED kernelVars /\ ring' = ring /\ by_tgid' = by_tgid
  BY DEF Expire, Tick, Reap, Elapse, vars, tableVars
<1> DEFINE Ages ==
             /\ \A k \in DOMAIN nodes' :
                  /\ k \in DOMAIN nodes
                  /\ nodes'[k].parent = nodes[k].parent /\ nodes'[k].exe = nodes[k].exe
                  /\ nodes'[k].exited_at = NotExited => nodes[k].exited_at = NotExited
             /\ \A k \in DOMAIN nodes : nodes[k].exited_at = NotExited => k \in DOMAIN nodes'
<1>3. Ages
  <2>1. ASSUME Reap
        PROVE  Ages
    <3>1. /\ DOMAIN nodes' = DOMAIN nodes \ Reapable
          /\ \A k \in DOMAIN nodes' :
               /\ nodes'[k].parent = nodes[k].parent /\ nodes'[k].exe = nodes[k].exe
               /\ nodes'[k].exited_at = nodes[k].exited_at
      BY <1>1, <2>1 DEF Reap, ProcNode
    <3>2. \A k \in Reapable : nodes[k].exited_at # NotExited
      BY ProcTableAssumption DEF Reapable, NotExited
    <3> HIDE DEF Reapable
    <3> QED
      BY <3>1, <3>2
  <2>2. ASSUME Elapse
        PROVE  Ages
    <3>1. DOMAIN nodes' = DOMAIN nodes
      BY <2>2 DEF Elapse
    <3>2. \A k \in DOMAIN nodes :
            /\ nodes'[k].parent = nodes[k].parent /\ nodes'[k].exe = nodes[k].exe
            /\ nodes'[k].exited_at = IF nodes[k].exited_at \in 0 .. Grace
                                     THEN nodes[k].exited_at + 1 ELSE nodes[k].exited_at
      BY <1>1, <2>2 DEF Elapse, ProcNode
    <3>3. \A k \in DOMAIN nodes :
            nodes'[k].exited_at = NotExited => nodes[k].exited_at = NotExited
      BY <3>2, ProcTableAssumption DEF NotExited
    <3> QED
      BY <3>1, <3>2, <3>3
  <2>3. ASSUME UNCHANGED vars
        PROVE  Ages
    BY <2>3 DEF vars, tableVars
  <2> QED
    BY <2>1, <2>2, <2>3 DEF Expire, Tick
<1>4. Stamped' /\ Untouched' /\ OneRecord' /\ Parents' /\ Indexed'
  BY <1>1, <1>2, <1>3 DEF Followed, Stamped, Untouched, OneRecord, Parents, Indexed, kernelVars
<1>5. TableView' = TableView
  <2>1. \A t \in DOMAIN by_tgid : nodes'[by_tgid[t]].exe = nodes[by_tgid[t]].exe
    BY <1>1, <1>3 DEF Sound, Index
  <2> QED
    BY <1>2, <2>1 DEF TableView
<1>6. Mirror'
  BY <1>1, <1>2, <1>5 DEF Followed, Mirror, Leads, KernelView, kernelVars
<1> QED
  BY <1>2, <1>4, <1>6 DEF Followed

--------------------------------------------------------------------------------
(* The invariant holds *)

LEMMA LineageInvStarts == ASSUME Watched, Init PROVE LineageInv
<1>1. PipelineInv
  BY PipelineInvStarts
<1>2. TableInit /\ KernelInit /\ attached = Kinds /\ ring = <<>> /\ DOMAIN Snapshot = DOMAIN Boot
  BY DEF Init, Watched
<1>3. /\ DOMAIN lineage = {BootId(t) : t \in DOMAIN Boot}
      /\ \A t \in DOMAIN Boot : lineage[BootId(t)] = BootId(Boot[t].ppid)
  BY <1>2, KernelInitSound
<1>4. \A t \in DOMAIN Boot :
        /\ BootId(t).tgid = t /\ BootId(t).start_time = Boot[t].start /\ Boot[t].start # 0
        /\ BootId(t) # NoKey
  BY BootIds, SensorAssumption DEF Id
<1>5. Watching
  <2>1. Single
    BY <1>2, SensorAssumption DEF KernelInit, Single
  <2>2. OnePerPid
    BY <1>3, <1>4 DEF OnePerPid
  <2> QED
    BY <1>2, <2>1, <2>2 DEF Watching
<1>6. /\ DOMAIN nodes = {SeedKey(t) : t \in DOMAIN Boot} /\ DOMAIN by_tgid = DOMAIN Boot
      /\ \A t \in DOMAIN Boot :
           /\ SeedKey(t).tgid = t /\ by_tgid[t] = SeedKey(t) /\ SeedKey(t) # NoKey
           /\ nodes[SeedKey(t)].parent = IF Snapshot[t].ppid \in DOMAIN Snapshot
                                         THEN SeedKey(Snapshot[t].ppid) ELSE NoKey
           /\ nodes[SeedKey(t)].exe = Boot[t].image
  <2>1. \A t \in DOMAIN Snapshot : SeedKey(t) \in ProcKey
    BY ProcTableAssumption DEF SeedKey, SeedKeyIn, ProcKey, ProcInfo
  <2>2. \A t \in DOMAIN Snapshot : SeedKey(t) # NoKey /\ Snapshot[t].exe = Boot[t].image
    BY <2>1, ProcTableAssumption, SensorAssumption
  <2> QED
    BY <1>2, <2>2 DEF TableInit, SeededFrom, IndexFrom, SeedKey, SeedKeyIn
<1> HIDE DEF SeedKey, BootId
<1>7. Stamped /\ Untouched /\ OneRecord /\ Indexed
  BY <1>2, <1>6 DEF Stamped, Untouched, OneRecord, Indexed
<1>8. Parents
  <2> SUFFICES ASSUME NEW t \in DOMAIN Boot, lineage[BootId(t)] # NoKey
               PROVE  nodes[SeedKey(t)].parent # NoKey
    BY <1>3, <1>4, <1>6 DEF Parents
  <2>1. Boot[t].ppid \in DOMAIN Boot /\ Snapshot[t].ppid = Boot[t].ppid
    BY <1>2, <1>3, SensorAssumption DEF BootId
  <2> QED
    BY <1>2, <1>6, <2>1
<1>9. Mirror
  <2>1. KernelView = TableView
    BY <1>2, <1>6 DEF KernelInit, KernelView, TableView
  <2>2. Leads([i \in {1} |-> TableView])
    BY <1>2, <2>1 DEF Leads
  <2> QED
    BY <2>2 DEF Mirror
<1> QED
  BY <1>1, <1>5, <1>7, <1>8, <1>9 DEF LineageInv, Followed

LEMMA LineageInvStep ==
  ASSUME Watched, LineageInv, [Next]_vars
  PROVE  LineageInv'
<1>1. PipelineInv'
  BY PipelineInvStep DEF Watched, Plain, LineageInv
<1>2. CASE Kernel
  <2>1. Single' /\ attached' = attached /\ (Silent \/ \E e \in Event : Tells(e))
        /\ UNCHANGED tableVars
    BY <1>2, KernelTells, KernelSteps DEF LineageInv, PipelineInv, TypeInv, Watched
  <2>2. OnePerPid' /\ Followed'
    BY <2>1, KernelKeepsOnePerPid, KernelKeepsFollowed DEF LineageInv, Watching, Watched
  <2> QED
    BY <1>1, <2>1, <2>2 DEF LineageInv, Watching
<1>3. ASSUME UNCHANGED kernelVars
      PROVE  Watching'
  BY <1>3 DEF kernelVars, LineageInv, Watching, Single, OnePerPid
<1>4. CASE Consume
  <2>1. UNCHANGED kernelVars
    BY <1>4 DEF Consume, ConsumeFork, ConsumeExec, ConsumeProcExec, ConsumeExit, Take
  <2> QED
    BY <1>1, <1>3, <1>4, <2>1, ConsumeFollows DEF LineageInv
<1>5. CASE Expire \/ Tick \/ UNCHANGED vars
  BY <1>1, <1>3, <1>5, TimerFollows DEF LineageInv
<1> QED
  BY <1>2, <1>4, <1>5 DEF Next

--------------------------------------------------------------------------------
(* What follows *)

\* Once the events are applied, the index of the table holds the running processes
\* and no other, each with the executable it runs.
LEMMA ViewsMeet == LineageInv /\ CaughtUp => TableView = KernelView
  BY DEF LineageInv, Followed, Mirror, Leads, CaughtUp

THEOREM TableFollowsKernel ==
  ASSUME Watched PROVE Spec => [](Mirror /\ (CaughtUp => TableView = KernelView))
<1>1. Init => LineageInv
  BY LineageInvStarts
<1>2. LineageInv /\ [Next]_vars => LineageInv'
  BY LineageInvStep
<1>3. LineageInv => Mirror /\ (CaughtUp => TableView = KernelView)
  BY ViewsMeet DEF LineageInv, Followed
<1> QED
  BY <1>1, <1>2, <1>3, PTL DEF Spec

\* A running process has a record when the events are applied.
LEMMA RunningIsKnown ==
  ASSUME LineageInv, CaughtUp, NEW t \in DOMAIN group
  PROVE  /\ t \in DOMAIN by_tgid /\ Resolve(Identity(t)) = by_tgid[t]
         /\ by_tgid[t] \in DOMAIN nodes /\ by_tgid[t].tgid = t
         /\ nodes[by_tgid[t]].exe = group[t].image
<1>1. TableView = KernelView
  BY ViewsMeet
<1>2. t \in DOMAIN by_tgid /\ nodes[by_tgid[t]].exe = group[t].image
  <2>1. DOMAIN TableView = DOMAIN by_tgid /\ DOMAIN KernelView = DOMAIN group
    BY DEF TableView, KernelView
  <2>2. t \in DOMAIN by_tgid /\ TableView[t] = KernelView[t]
    BY <1>1, <2>1
  <2> QED
    BY <2>2 DEF TableView, KernelView
<1>3. by_tgid[t] \in DOMAIN nodes /\ by_tgid[t].tgid = t
  BY <1>2 DEF LineageInv, PipelineInv, Sound, Index, IndexTyped
<1>4. Identity(t).tgid = t
  BY DEF Identity, Id
<1>5. \A k \in DOMAIN nodes : k.tgid = t => k = by_tgid[t]
  BY <1>3 DEF LineageInv, Followed, OneRecord
<1> QED
  BY <1>2, <1>3, <1>4, <1>5 DEF Resolve, Newest

\* The actor an alert names is the executable the process runs.
THEOREM ExeIsTracked == ASSUME Watched PROVE Spec => []ExeTracksImage
<1>1. Init => LineageInv
  BY LineageInvStarts
<1>2. LineageInv /\ [Next]_vars => LineageInv'
  BY LineageInvStep
<1>3. LineageInv => ExeTracksImage
  <2> SUFFICES ASSUME LineageInv, CaughtUp, NEW t \in DOMAIN group
               PROVE  Resolve(Identity(t)) # NoKey
                      /\ nodes[Resolve(Identity(t))].exe = group[t].image
    BY DEF ExeTracksImage
  <2>1. NoKey \notin DOMAIN nodes
    BY ProcTableAssumption DEF LineageInv, PipelineInv, Sound, Typed
  <2> QED
    BY <2>1, RunningIsKnown
<1> QED
  BY <1>1, <1>2, <1>3, PTL DEF Spec

\* As many forks up as there are forebears, the walk over the records has them.
LEMMA NoneMissing ==
  ASSUME LineageInv, NEW id \in DOMAIN lineage,
         Resolve(id) \in DOMAIN nodes, Resolve(id).tgid = id.tgid, NEW i \in Nat,
         Forebear(id)[i] # NoKey
  PROVE  Ancestry(id)[i] \in DOMAIN nodes
<1> DEFINE told == Ancestry(id)
           real == Forebear(id)
           T == {n \in Nat : real[n] # NoKey => told[n] \in DOMAIN nodes}
<1>1. /\ TypeInv /\ Kinship /\ Sound(nodes, by_tgid) /\ Parents
      /\ NoKey \notin DOMAIN nodes /\ NoKey \notin DOMAIN lineage
  BY ProcTableAssumption
     DEF LineageInv, PipelineInv, Followed, Sound, Typed, TypeInv, KernelSound, KernelTyped
<1>2. id \in Keys
  BY <1>1 DEF TypeInv, KernelSound, KernelTyped, Keys
<1>3. ASSUME NEW k \in DOMAIN nodes, NEW j \in DOMAIN lineage, k.tgid = j.tgid,
             ForkerOf(j) # NoKey
      PROVE  ParentOf(k) \in DOMAIN nodes
  BY <1>1, <1>3 DEF ParentOf, ForkerOf, Parents, Sound, Links
<1>4. /\ told[0] = ParentOf(Resolve(id)) /\ \A n \in Nat \ {0} : told[n] = ParentOf(told[n - 1])
      /\ real[0] = ForkerOf(id) /\ \A n \in Nat \ {0} : real[n] = ForkerOf(real[n - 1])
  BY <1>1, <1>2, AncestryWalks, ForebearWalks DEF Sound
<1>6. \A n \in Nat : told[n] \in DOMAIN nodes =>
        real[n] \in DOMAIN lineage /\ told[n].tgid = real[n].tgid
  BY <1>1, WalksAgree
<1> HIDE DEF told, real
<1>7. 0 \in T
  BY <1>3, <1>4
<1>8. ASSUME NEW n \in Nat, n \in T
      PROVE  n + 1 \in T
  <2>1. n + 1 \in Nat \ {0} /\ (n + 1) - 1 = n
    OBVIOUS
  <2>2. told[n + 1] = ParentOf(told[n]) /\ real[n + 1] = ForkerOf(real[n])
    BY <1>4, <2>1
  <2>3. real[n + 1] # NoKey => real[n] # NoKey
    BY <1>1, <2>2 DEF ForkerOf
  <2> QED
    BY <1>3, <1>6, <1>8, <2>1, <2>2, <2>3
<1> HIDE DEF T
<1>9. Nat \subseteq T
  BY <1>7, <1>8, Induction
<1> QED
  BY <1>9 DEF T, told, real

\* An alert names every ancestor back to init, though it be long dead.
THEOREM AncestryIsComplete == ASSUME Watched PROVE Spec => []AncestryComplete
<1>1. Init => LineageInv
  BY LineageInvStarts
<1>2. LineageInv /\ [Next]_vars => LineageInv'
  BY LineageInvStep
<1>3. LineageInv => AncestryComplete
  <2> SUFFICES ASSUME LineageInv, CaughtUp, NEW t \in DOMAIN group, NEW i \in Generations,
                      Forebear(Identity(t))[i] # NoKey
               PROVE  /\ Ancestry(Identity(t))[i] \in DOMAIN nodes
                      /\ Ancestry(Identity(t))[i].tgid = Forebear(Identity(t))[i].tgid
    BY DEF AncestryComplete
  <2>1. i \in Nat
    BY DEF Generations
  <2>2. Identity(t) \in DOMAIN lineage /\ Identity(t).tgid = t
    BY DEF LineageInv, PipelineInv, TypeInv, KernelSound, Descended, Identity, Id
  <2>3. Ancestry(Identity(t))[i] \in DOMAIN nodes
    BY <2>1, <2>2, NoneMissing, RunningIsKnown
  <2> QED
    BY <2>1, <2>2, <2>3, WalksAgree DEF LineageInv, PipelineInv
<1> QED
  BY <1>1, <1>2, <1>3, PTL DEF Spec

\* Every death of a process forked since the start is recorded; of those read from
\* /proc only init is sure to have no unmarked record, for it does not exit.
LEMMA DeathsAreRecorded ==
  ASSUME LineageInv, CaughtUp, NEW k \in DOMAIN nodes, nodes[k].exited_at = NotExited
  PROVE  k.tgid \in DOMAIN group \cup (DOMAIN Boot \ {1})
<1>1. TableView = KernelView
  BY ViewsMeet
<1>2. DOMAIN by_tgid = DOMAIN group
  <2>1. DOMAIN TableView = DOMAIN by_tgid /\ DOMAIN KernelView = DOMAIN group
    BY DEF TableView, KernelView
  <2> QED
    BY <1>1, <2>1
<1> QED
  BY <1>2 DEF LineageInv, Followed, Indexed

\* Without records read from /proc but init's, every death is recorded.
THEOREM EveryDeathRecorded ==
  ASSUME Watched, DOMAIN Boot = {1} PROVE Spec => []DeathRecorded
<1>1. Init => LineageInv
  BY LineageInvStarts
<1>2. LineageInv /\ [Next]_vars => LineageInv'
  BY LineageInvStep
<1>3. LineageInv => DeathRecorded
  BY DeathsAreRecorded DEF DeathRecorded
<1> QED
  BY <1>1, <1>2, <1>3, PTL DEF Spec

--------------------------------------------------------------------------------
(* With threads, and with pids given out again *)

Delivered == ~Lossy /\ DOMAIN Snapshot = DOMAIN Boot

--------------------------------------------------------------------------------
(* The invariant *)

Forks(e, t) == e.kind = "fork" /\ e.child = t
Says(e, t) == e.kind # "fork" /\ e.tgid = t

Live(k) == nodes[k].exited_at = NotExited

\* No start time is later than the last one given out, and a thread is no older
\* than its process.
StartsGiven ==
  /\ \A u \in DOMAIN task :
       group[task[u].tgid].start =< task[u].start /\ task[u].start =< last_start
  /\ \A k \in DOMAIN nodes : k.start_time =< last_start
  /\ \A i \in 1 .. Len(ring) : ring[i].start =< last_start

\* The table knows process t as it now is: its entry in the index is about it, and
\* every record that a key of it finds is live.
Known(t) ==
  /\ t \in DOMAIN by_tgid /\ by_tgid[t] \in DOMAIN nodes
  /\ Live(by_tgid[t]) /\ OwnRecord(by_tgid[t], t)
  /\ \A k \in DOMAIN nodes :
       k.tgid = t /\ (k.start_time = 0 \/ k.start_time >= group[t].start) => Live(k)

\* Event i of the ring will make it known; all before is of earlier users of the pid.
Announced(t, i) ==
  /\ Forks(ring[i], t)
  /\ \A k \in DOMAIN nodes : k.tgid = t => k.start_time < group[t].start
  /\ \A j \in 1 .. i - 1 : Says(ring[j], t) => ring[j].start < group[t].start

\* From there on the events of the pid are those of the running process.
OwnEventsFrom(t, i) ==
  \A j \in i + 1 .. Len(ring) :
    /\ ~Forks(ring[j], t)
    /\ Says(ring[j], t) => ~Ends(ring[j]) /\ ring[j].start >= group[t].start

Current ==
  \A t \in DOMAIN group :
    \/ Known(t) /\ OwnEventsFrom(t, 0)
    \/ \E i \in 1 .. Len(ring) : Announced(t, i) /\ OwnEventsFrom(t, i)

IdentityInv == TypeInv /\ attached = Kinds /\ StartsGiven /\ Current

--------------------------------------------------------------------------------
(* One step of the kernel *)

\* What the pipeline sees of it: nothing, or event e.
Reports(e) ==
  /\ ring' = Append(ring, e)
  /\ e.tgid \in DOMAIN group /\ group[e.tgid].start =< e.start /\ e.start =< last_start
  /\ Ends(e) => e.tgid \notin DOMAIN group'
  /\ e.kind = "fork" => e.child \notin DOMAIN group

\* The processes after it: those before, and one that a fork told of.
SameStarts ==
  \A t \in DOMAIN group' : t \in DOMAIN group /\ group'[t].start = group[t].start

Born(e) ==
  \A t \in DOMAIN group' :
    \/ t \in DOMAIN group /\ group'[t].start = group[t].start
    \/ Forks(e, t) /\ last_start < group'[t].start

\* The first conjunct of StartsGiven, about the kernel alone.
TaskStarts ==
  \A u \in DOMAIN task :
    group[task[u].tgid].start =< task[u].start /\ task[u].start =< last_start

Seen ==
  /\ TaskStarts' /\ last_start =< last_start'
  /\ \/ ring' = ring /\ SameStarts
     \/ \E e \in Event : Reports(e) /\ Born(e)

LEMMA StartIsNumber == \A s \in StartTimes \cup {0} : s \in Nat
  BY ProcTableAssumption

LEMMA EventStart == ASSUME NEW e \in Event PROVE e.start \in Nat
  BY StartIsNumber, EventFields

LEMMA StartsAreNumbers ==
  ASSUME TypeInv
  PROVE  /\ last_start \in Nat
         /\ \A u \in DOMAIN task : task[u].start \in Nat /\ task[u].tgid \in DOMAIN group
         /\ \A t \in DOMAIN group : group[t].start \in Nat
         /\ \A k \in DOMAIN nodes : k.start_time \in Nat
         /\ \A i \in 1 .. Len(ring) : ring[i] \in Event /\ ring[i].start \in Nat
<1>1. \A s \in StartTimes \cup {0} : s \in Nat
  BY StartIsNumber
<1>2. last_start \in Nat
  BY SensorAssumption DEF TypeInv, KernelSound, KernelTyped
<1>3. \A u \in DOMAIN task : task[u].start \in StartTimes /\ task[u].tgid \in DOMAIN group
  BY TaskTyped DEF TypeInv, KernelSound
<1>4. \A t \in DOMAIN group : group[t].start \in StartTimes
  BY DEF TypeInv, KernelSound, KernelTyped
<1>5. \A k \in DOMAIN nodes : k.start_time \in StartTimes \cup {0}
  BY DEF TypeInv, TableTypeOK, ProcKey
<1>6. \A i \in 1 .. Len(ring) : ring[i] \in Event /\ ring[i].start \in StartTimes \cup {0}
  BY EventFields DEF TypeInv, RingTyped
<1> QED
  BY <1>1, <1>2, <1>3, <1>4, <1>5, <1>6

LEMMA ForkSeen ==
  ASSUME Delivered, TypeInv, attached = Kinds, TaskStarts, NEW t \in DOMAIN task, Fork(t)
  PROVE  Seen
<1> DEFINE g == task[t].tgid
<1>1. PICK c \in NextPids :
        /\ NewTask(c, c)
        /\ group' = Insert(group, c, [start |-> last_start + 1, image |-> group[g].image])
        /\ EmitFork(t, c)
  BY DEF Fork
<1> DEFINE e == [kind |-> "fork", tgid |-> g, start |-> task[t].start, child |-> c]
<1>2. Emit(e)
  BY <1>1 DEF EmitFork, StartRead, Delivered
<1>3. KernelTyped /\ g \in DOMAIN group /\ g \in Tgids /\ c \in Tgids /\ task[t].start \in StartTimes
  BY TaskTyped DEF TypeInv, KernelSound, NextPids, FreePids
<1>4. /\ DOMAIN task' = DOMAIN task \cup {c} /\ New(c)
      /\ task'[c] = [tgid |-> c, start |-> last_start + 1, execing |-> NoName]
      /\ \A u \in DOMAIN task : task'[u] = task[u]
  BY <1>1, <1>3, NewTaskTyped
<1>5. last_start' = last_start + 1 /\ last_start \in Nat
  BY <1>1, StartsAreNumbers DEF NewTask
<1>6. /\ DOMAIN group' = DOMAIN group \cup {c} /\ c \notin DOMAIN group
      /\ group'[c].start = last_start + 1
      /\ \A u \in DOMAIN group : group'[u] = group[u]
  BY <1>1, <1>4 DEF Insert, New
<1>7. e \in Event /\ e.kind = "fork" /\ e.tgid = g /\ e.child = c /\ e.start = task[t].start
  BY <1>3 DEF Event
<1>8. ring' = Append(ring, e)
  BY <1>2, <1>7, EmitDelivers DEF Delivered
<1>9. Reports(e) /\ Born(e)
  <2> HIDE DEF e
  <2> QED
    BY <1>3, <1>5, <1>6, <1>7, <1>8 DEF Reports, Born, Forks, Ends, TaskStarts
<1>10. TaskStarts'
  BY <1>4, <1>5, <1>6, StartsAreNumbers DEF TaskStarts
<1> QED
  BY <1>5, <1>7, <1>9, <1>10 DEF Seen

LEMMA CloneSeen ==
  ASSUME Delivered, TypeInv, attached = Kinds, TaskStarts, NEW t \in DOMAIN task, Clone(t)
  PROVE  Seen
<1> DEFINE g == task[t].tgid
<1>1. PICK c \in NextPids : NewTask(c, g) /\ EmitFork(t, c)
  BY DEF Clone
<1> DEFINE e == [kind |-> "fork", tgid |-> g, start |-> task[t].start, child |-> c]
<1>2. Emit(e)
  BY <1>1 DEF EmitFork, StartRead, Delivered
<1>3. KernelTyped /\ g \in DOMAIN group /\ g \in Tgids /\ c \in Tgids /\ task[t].start \in StartTimes
  BY TaskTyped DEF TypeInv, KernelSound, NextPids, FreePids
<1>4. /\ DOMAIN task' = DOMAIN task \cup {c} /\ New(c)
      /\ task'[c] = [tgid |-> g, start |-> last_start + 1, execing |-> NoName]
      /\ \A u \in DOMAIN task : task'[u] = task[u]
  BY <1>1, <1>3, NewTaskTyped
<1>5. last_start' = last_start + 1 /\ last_start \in Nat /\ group' = group /\ c \notin DOMAIN group
  BY <1>1, <1>4, StartsAreNumbers DEF NewTask, Clone, New
<1>6. e \in Event /\ e.kind = "fork" /\ e.tgid = g /\ e.child = c /\ e.start = task[t].start
  BY <1>3 DEF Event
<1>7. ring' = Append(ring, e)
  BY <1>2, <1>6, EmitDelivers DEF Delivered
<1>8. Reports(e) /\ Born(e)
  <2> HIDE DEF e
  <2> QED
    BY <1>3, <1>5, <1>6, <1>7 DEF Reports, Born, Ends, TaskStarts
<1>9. TaskStarts'
  <2>1. group[g].start =< last_start + 1 /\ \A u \in DOMAIN task : task[u].start =< last_start + 1
    BY <1>5, StartsAreNumbers DEF TaskStarts
  <2> QED
    BY <1>4, <1>5, <2>1 DEF TaskStarts
<1> QED
  BY <1>5, <1>6, <1>8, <1>9 DEF Seen

LEMMA SysEnterExecveSeen ==
  ASSUME Delivered, TypeInv, attached = Kinds, TaskStarts, NEW t \in DOMAIN task,
         NEW path \in Runs, SysEnterExecve(t, path)
  PROVE  Seen
<1> DEFINE g == task[t].tgid
           e == [kind |-> "exec", tgid |-> g, start |-> task[t].start,
                 comm |-> group[g].image, args |-> path]
<1>1. /\ g \in DOMAIN group /\ g \in Tgids /\ task[t].start \in StartTimes
      /\ group[g].image \in Names /\ path \in Names
  BY TaskTyped, SensorAssumption DEF TypeInv, KernelSound
<1>2. EmitOrDiscard(e)
  BY DEF SysEnterExecve, EmitExec, StartRead, Delivered
<1>3. e \in Event /\ e.kind = "exec" /\ e.tgid = g /\ e.start = task[t].start
  BY <1>1 DEF Event
<1>4. ring' = Append(ring, e)
  BY <1>2, <1>3, EmitDelivers DEF Delivered
<1>5. /\ group' = group /\ last_start' = last_start /\ DOMAIN task' = DOMAIN task
      /\ \A u \in DOMAIN task : task'[u].tgid = task[u].tgid /\ task'[u].start = task[u].start
  BY DEF SysEnterExecve, TypeInv, KernelSound, KernelTyped
<1>6. Reports(e) /\ Born(e)
  <2> HIDE DEF e
  <2> QED
    BY <1>1, <1>3, <1>4, <1>5 DEF Reports, Born, Ends, TaskStarts
<1>7. TaskStarts' /\ last_start =< last_start'
  BY <1>5, StartsAreNumbers DEF TaskStarts
<1> QED
  BY <1>3, <1>6, <1>7 DEF Seen

LEMMA ExecFailsSeen ==
  ASSUME TypeInv, TaskStarts, NEW t \in DOMAIN task, ExecFails(t)
  PROVE  Seen
<1>1. /\ group' = group /\ last_start' = last_start /\ DOMAIN task' = DOMAIN task /\ ring' = ring
      /\ \A u \in DOMAIN task : task'[u].tgid = task[u].tgid /\ task'[u].start = task[u].start
  BY DEF ExecFails, TypeInv, KernelSound, KernelTyped
<1>2. TaskStarts' /\ last_start =< last_start' /\ SameStarts
  BY <1>1, StartsAreNumbers DEF TaskStarts, SameStarts
<1> QED
  BY <1>1, <1>2 DEF Seen

LEMMA ExecSucceedsSeen ==
  ASSUME Delivered, TypeInv, attached = Kinds, TaskStarts, NEW t \in DOMAIN task, ExecSucceeds(t)
  PROVE  Seen
<1> DEFINE g == task[t].tgid
           path == task[t].execing
           e == [kind |-> "proc_exec", tgid |-> g, start |-> group[g].start, exe |-> path]
<1>1. /\ g \in DOMAIN group /\ g \in Tgids /\ group[g].start \in StartTimes /\ path \in Names
  BY TaskTyped DEF TypeInv, KernelSound, ExecSucceeds
<1>2. EmitOrDiscard(e)
  BY DEF ExecSucceeds, EmitProcExec, Delivered
<1>3. e \in Event /\ e.kind = "proc_exec" /\ e.tgid = g /\ e.start = group[g].start
  BY <1>1 DEF Event
<1>4. ring' = Append(ring, e)
  BY <1>2, <1>3, EmitDelivers DEF Delivered
<1>5. \A u \in DOMAIN task \ {t} : task[u].tgid # g
  BY DEF ExecSucceeds, Siblings
<1>6. /\ DOMAIN task' = (DOMAIN task \ {t}) \cup {g}
      /\ task'[g] = [tgid |-> g, start |-> group[g].start, execing |-> NoName]
      /\ \A u \in DOMAIN task \ {t} : u # g => task'[u] = task[u]
  BY DEF ExecSucceeds, Insert, Without
<1>7. last_start' = last_start /\ group' = [group EXCEPT ![g].image = path]
  BY DEF ExecSucceeds
<1>8. DOMAIN group' = DOMAIN group /\ \A u \in DOMAIN group : group'[u].start = group[u].start
  BY <1>1, <1>7 DEF TypeInv, KernelSound, KernelTyped
<1>9. group[g].start =< last_start /\ group[g].start \in Nat
  BY <1>1, StartsAreNumbers DEF TaskStarts
<1>10. Reports(e) /\ Born(e)
  <2> HIDE DEF e
  <2> QED
    BY <1>1, <1>3, <1>4, <1>8, <1>9 DEF Reports, Born, Ends
<1>11. TaskStarts' /\ last_start =< last_start'
  BY <1>1, <1>6, <1>7, <1>8, <1>9, StartsAreNumbers DEF TaskStarts
<1> QED
  BY <1>3, <1>10, <1>11 DEF Seen

LEMMA ExitSeen ==
  ASSUME Delivered, TypeInv, attached = Kinds, TaskStarts, NEW t \in DOMAIN task, Exit(t)
  PROVE  Seen
<1> DEFINE g == task[t].tgid
           dead == Siblings(t) = {}
           e == [kind |-> "exit", tgid |-> g, start |-> task[t].start, group_dead |-> dead]
<1>1. g \in DOMAIN group /\ g \in Tgids /\ task[t].start \in StartTimes
  BY TaskTyped DEF TypeInv, KernelSound
<1>2. EmitOrDiscard(e)
  BY DEF Exit, EmitExit, StartRead, Delivered
<1>3. /\ e \in Event /\ e.kind = "exit" /\ e.tgid = g /\ e.start = task[t].start
      /\ e.group_dead = dead
  BY <1>1 DEF Event
<1>4. ring' = Append(ring, e)
  BY <1>2, <1>3, EmitDelivers DEF Delivered
<1>5. /\ DOMAIN task' = DOMAIN task \ {t} /\ \A u \in DOMAIN task \ {t} : task'[u] = task[u]
      /\ DOMAIN group' = (IF dead THEN DOMAIN group \ {g} ELSE DOMAIN group)
      /\ \A u \in DOMAIN group' : group'[u] = group[u]
      /\ last_start' = last_start
  BY DEF Exit, Without
<1>6. \A u \in DOMAIN task' : task'[u].tgid \in DOMAIN group'
  BY <1>1, <1>5, StartsAreNumbers DEF Siblings
<1> HIDE DEF dead
<1>7. Reports(e) /\ Born(e)
  <2> HIDE DEF e
  <2> QED
    BY <1>1, <1>3, <1>4, <1>5 DEF Reports, Born, Ends, TaskStarts
<1>8. TaskStarts' /\ last_start =< last_start'
  BY <1>5, <1>6, StartsAreNumbers DEF TaskStarts
<1> QED
  BY <1>3, <1>7, <1>8 DEF Seen

LEMMA KernelSeen ==
  ASSUME Delivered, TypeInv, attached = Kinds, TaskStarts, Kernel
  PROVE  Seen
  BY ForkSeen, CloneSeen, SysEnterExecveSeen, ExecFailsSeen, ExecSucceedsSeen, ExitSeen DEF Kernel

\* Where a report leaves the ring.
LEMMA ReportGrows ==
  ASSUME TypeInv, NEW e \in Event, ring' = Append(ring, e)
  PROVE  /\ Len(ring) \in Nat /\ Len(ring') = Len(ring) + 1 /\ ring'[Len(ring) + 1] = e
         /\ \A i \in 1 .. Len(ring) : ring'[i] = ring[i]
         /\ \A i \in 1 .. Len(ring') : i \in 1 .. Len(ring) \/ i = Len(ring) + 1
<1>1. ring \in Seq(Event) /\ Len(ring) \in Nat
  BY DEF TypeInv, RingTyped
<1>2. /\ Len(ring') = Len(ring) + 1 /\ ring'[Len(ring) + 1] = e
      /\ \A i \in 1 .. Len(ring) : ring'[i] = ring[i]
  BY <1>1, Appended
<1> QED
  BY <1>1, <1>2

LEMMA KernelKeepsStarts ==
  ASSUME TypeInv, TypeInv', StartsGiven, Seen, UNCHANGED tableVars
  PROVE  StartsGiven'
<1>1. /\ last_start \in Nat /\ last_start' \in Nat /\ last_start =< last_start'
      /\ \A k \in DOMAIN nodes : k.start_time \in Nat
      /\ \A i \in 1 .. Len(ring) : ring[i].start \in Nat
  BY StartsAreNumbers, SensorAssumption DEF TypeInv, KernelSound, KernelTyped, Seen
<1>2. TaskStarts' /\ nodes' = nodes
  BY DEF Seen, tableVars
<1>3. \A k \in DOMAIN nodes' : k.start_time =< last_start'
  BY <1>1, <1>2 DEF StartsGiven
<1>4. \A i \in 1 .. Len(ring) : ring[i].start =< last_start'
  BY <1>1 DEF StartsGiven
<1>5. \A i \in 1 .. Len(ring') : ring'[i].start =< last_start'
  <2>1. CASE ring' = ring
    BY <1>4, <2>1
  <2>2. ASSUME NEW e \in Event, Reports(e)
        PROVE  \A i \in 1 .. Len(ring') : ring'[i].start =< last_start'
    <3>1. e.start \in Nat
      BY EventStart
    <3>2. e.start =< last_start'
      BY <1>1, <2>2, <3>1 DEF Reports
    <3> QED
      BY <1>4, <2>2, <3>2, ReportGrows DEF Reports
  <2> QED
    BY <2>1, <2>2 DEF Seen
<1> QED
  BY <1>2, <1>3, <1>5 DEF StartsGiven, TaskStarts

\* A process that was running is known, or announced, as it was.
LEMMA KernelKeepsOld ==
  ASSUME TypeInv, UNCHANGED tableVars, NEW t \in DOMAIN group, t \in DOMAIN group',
         group'[t].start = group[t].start, Current,
         \/ ring' = ring
         \/ \E e \in Event : Reports(e)
  PROVE  \/ Known(t)' /\ OwnEventsFrom(t, 0)'
         \/ \E i \in 1 .. Len(ring') : Announced(t, i)' /\ OwnEventsFrom(t, i)'
<1>1. nodes' = nodes /\ by_tgid' = by_tgid
  BY DEF tableVars
<1>2. Len(ring) \in Nat /\ Len(ring') \in Nat /\ Len(ring) =< Len(ring')
      /\ \A i \in 1 .. Len(ring) : ring'[i] = ring[i]
  <2>1. Len(ring) \in Nat
    BY DEF TypeInv, RingTyped
  <2> QED
    BY <2>1, ReportGrows DEF Reports
<1>3. ASSUME NEW j \in 1 .. Len(ring'), j \notin 1 .. Len(ring)
      PROVE  ~Forks(ring'[j], t) /\ (Says(ring'[j], t) =>
                                       ~Ends(ring'[j]) /\ ring'[j].start >= group[t].start)
  <2>1. PICK e \in Event : Reports(e)
    BY <1>3
  <2>2. ring'[j] = e
    BY <1>3, <2>1, ReportGrows DEF Reports
  <2>3. e.start \in Nat /\ group[t].start \in Nat
    BY StartsAreNumbers, EventStart
  <2> QED
    BY <2>1, <2>2, <2>3 DEF Reports, Forks, Says
<1>4. ASSUME NEW i \in 0 .. Len(ring), OwnEventsFrom(t, i)
      PROVE  OwnEventsFrom(t, i)'
  <2> SUFFICES ASSUME NEW j \in i + 1 .. Len(ring')
               PROVE  ~Forks(ring'[j], t) /\ (Says(ring'[j], t) =>
                        ~Ends(ring'[j]) /\ ring'[j].start >= group[t].start)
    BY DEF OwnEventsFrom
  <2>1. j \in 1 .. Len(ring') /\ (j \in 1 .. Len(ring) => j \in i + 1 .. Len(ring))
    BY <1>2
  <2> QED
    BY <1>2, <1>3, <1>4, <2>1 DEF OwnEventsFrom
<1>5. CASE Known(t) /\ OwnEventsFrom(t, 0)
  <2>1. Known(t)'
    BY <1>1, <1>5 DEF Known, Live, OwnRecord
  <2> QED
    BY <1>2, <1>4, <1>5, <2>1
<1>6. ASSUME NEW i \in 1 .. Len(ring), Announced(t, i), OwnEventsFrom(t, i)
      PROVE  i \in 1 .. Len(ring') /\ Announced(t, i)' /\ OwnEventsFrom(t, i)'
  <2>1. i \in 1 .. Len(ring') /\ i \in 0 .. Len(ring) /\ \A j \in 1 .. i - 1 : j \in 1 .. Len(ring)
    BY <1>2
  <2>2. Announced(t, i)'
    BY <1>1, <1>2, <1>6, <2>1 DEF Announced
  <2> QED
    BY <1>4, <1>6, <2>1, <2>2
<1> QED
  BY <1>5, <1>6 DEF Current

\* A fork announces the child under a start time later than any before.
LEMMA BirthAnnounced ==
  ASSUME TypeInv, TypeInv', StartsGiven, UNCHANGED tableVars, NEW e \in Event, Reports(e),
         NEW t \in DOMAIN group', Forks(e, t), last_start < group'[t].start
  PROVE  \E i \in 1 .. Len(ring') : Announced(t, i)' /\ OwnEventsFrom(t, i)'
<1>0. PICK i : i = Len(ring) + 1
  OBVIOUS
<1>1. /\ Len(ring) \in Nat /\ i \in Nat /\ Len(ring') = i /\ ring'[i] = e
      /\ \A j \in 1 .. Len(ring) : ring'[j] = ring[j]
  BY <1>0, ReportGrows DEF Reports
<1>2. /\ last_start \in Nat /\ group'[t].start \in Nat
      /\ \A k \in DOMAIN nodes : k.start_time \in Nat /\ k.start_time =< last_start
      /\ \A j \in 1 .. Len(ring) : ring[j].start \in Nat /\ ring[j].start =< last_start
  <2>1. group'[t].start \in StartTimes
    BY DEF TypeInv, KernelSound, KernelTyped
  <2> QED
    BY <2>1, StartsAreNumbers, StartIsNumber DEF StartsGiven
<1>3. nodes' = nodes
  BY DEF tableVars
<1>4. i \in 1 .. Len(ring')
  BY <1>0, <1>1
<1>5. Announced(t, i)'
  <2>1. \A j \in 1 .. i - 1 : j \in 1 .. Len(ring)
    BY <1>0, <1>1
  <2> QED
    BY <1>1, <1>2, <1>3, <2>1 DEF Announced
<1>6. OwnEventsFrom(t, i)'
  BY <1>1 DEF OwnEventsFrom
<1> QED
  BY <1>4, <1>5, <1>6

LEMMA KernelKeepsCurrent ==
  ASSUME TypeInv, TypeInv', StartsGiven, Current, Seen, UNCHANGED tableVars
  PROVE  Current'
<1> SUFFICES ASSUME NEW t \in DOMAIN group'
             PROVE  \/ Known(t)' /\ OwnEventsFrom(t, 0)'
                    \/ \E i \in 1 .. Len(ring') : Announced(t, i)' /\ OwnEventsFrom(t, i)'
  BY DEF Current
<1>1. CASE ring' = ring /\ SameStarts
  BY <1>1, KernelKeepsOld DEF SameStarts
<1>2. ASSUME NEW e \in Event, Reports(e), Born(e)
      PROVE  \/ Known(t)' /\ OwnEventsFrom(t, 0)'
             \/ \E i \in 1 .. Len(ring') : Announced(t, i)' /\ OwnEventsFrom(t, i)'
  BY <1>2, KernelKeepsOld, BirthAnnounced DEF Born
<1> QED
  BY <1>1, <1>2 DEF Seen

--------------------------------------------------------------------------------
(* What a handler does to the records of one tgid *)

\* Nothing that the invariant asks about.
Spared(t, n, b) ==
  /\ (t \in DOMAIN b) <=> (t \in DOMAIN by_tgid)
  /\ t \in DOMAIN by_tgid => b[t] = by_tgid[t]
  /\ \A k : k.tgid = t =>
       /\ (k \in DOMAIN n) <=> (k \in DOMAIN nodes)
       /\ k \in DOMAIN nodes => n[k].exited_at = nodes[k].exited_at

\* The records are those before, and one of this key that is new or was the
\* placeholder; the index has the one it had or this one.
Served(key, n, b) ==
  LET t == key.tgid
      ph == Placeholder(t)
  IN /\ \A k \in DOMAIN n : k.tgid = t =>
          \/ k \in DOMAIN nodes /\ n[k].exited_at = nodes[k].exited_at
          \/ k = key /\ n[k].exited_at = NotExited
          \/ k = key /\ ph \in DOMAIN nodes /\ n[k].exited_at = nodes[ph].exited_at
     /\ t \in DOMAIN by_tgid /\ by_tgid[t] \in DOMAIN nodes =>
          t \in DOMAIN b /\ b[t] \in DOMAIN n /\ b[t] \in {by_tgid[t], key}

LEMMA TableFields ==
  ASSUME TypeInv
  PROVE  /\ \A k \in DOMAIN nodes : nodes[k] \in ProcNode /\ k \in ProcKey
         /\ \A t \in DOMAIN by_tgid : by_tgid[t].tgid = t
  BY DEF TypeInv, TableTypeOK

LEMMA EnsureServes ==
  ASSUME TypeInv, NEW key \in ProcKey
  PROVE  LET n == EnsuredNodes(key)
             b == EnsuredIndex(key)
         IN /\ Served(key, n, b) /\ \A t : t # key.tgid => Spared(t, n, b)
            /\ key \in DOMAIN n /\ \A k \in DOMAIN n : n[k] \in ProcNode
<1> DEFINE n == EnsuredNodes(key)
           b == EnsuredIndex(key)
           ph == Placeholder(key.tgid)
<1>1. key \in DOMAIN n /\ \A k \in DOMAIN n : n[k] \in ProcNode
  <2>1. Typed(nodes) /\ IndexTyped(by_tgid)
    BY DEF TypeInv, TableTypeOK, Typed, IndexTyped
  <2> QED
    BY <2>1, EnsureType DEF Typed
<1>2. CASE key \in DOMAIN nodes
  BY <1>1, <1>2 DEF EnsuredNodes, EnsuredIndex, Served, Spared
<1>3. CASE key \notin DOMAIN nodes
  <2>1. /\ b = Insert(by_tgid, key.tgid, key)
        /\ b[key.tgid] = key /\ DOMAIN b = DOMAIN by_tgid \cup {key.tgid}
        /\ \A t : t # key.tgid /\ t \in DOMAIN by_tgid => b[t] = by_tgid[t]
    BY <1>3 DEF EnsuredIndex, Insert
  <2>2. CASE Promotes(key)
    <3>1. n = Promoted(key) /\ ph \in DOMAIN nodes /\ ph.tgid = key.tgid
      BY <1>3, <2>2 DEF EnsuredNodes, Promotes, Placeholder
    <3>2. DOMAIN n = (DOMAIN nodes \ {ph}) \cup {key} /\ n[key] = nodes[ph]
      BY <3>1 DEF Promoted
    <3>3. ASSUME NEW k \in DOMAIN nodes \ {ph}
          PROVE  n[k].exited_at = nodes[k].exited_at
      <4> DEFINE ch == IF k = nodes[ph].parent THEN (nodes[k].children \ {ph}) \cup {key}
                       ELSE nodes[k].children
                 pa == IF k \in nodes[ph].children THEN key ELSE nodes[k].parent
      <4>1. n[k] = [nodes[k] EXCEPT !.children = ch, !.parent = pa]
        BY <1>3, <3>1 DEF Promoted
      <4>2. nodes[k] \in ProcNode
        BY TableFields
      <4> HIDE DEF ch, pa, n
      <4> QED
        BY <4>1, <4>2 DEF ProcNode
    <3> HIDE DEF n, b, ph
    <3>4. Served(key, n, b)
      BY <2>1, <3>1, <3>2, <3>3 DEF Served, ph
    <3>5. \A t : t # key.tgid => Spared(t, n, b)
      BY <2>1, <3>1, <3>2, <3>3 DEF Spared
    <3> QED
      BY <1>1, <3>4, <3>5 DEF n, b
  <2>3. CASE ~Promotes(key)
    <3>1. n = Insert(nodes, key, NewNode)
      BY <1>3, <2>3 DEF EnsuredNodes
    <3>2. /\ DOMAIN n = DOMAIN nodes \cup {key} /\ n[key].exited_at = NotExited
          /\ \A k \in DOMAIN nodes : n[k] = nodes[k]
      BY <1>3, <3>1 DEF Insert, NewNode
    <3> HIDE DEF n, b
    <3> QED
      BY <1>1, <2>1, <3>2 DEF Served, Spared, n, b
  <2> QED
    BY <2>2, <2>3
<1> QED
  BY <1>2, <1>3

\* What is written to the record after that is neither a key nor a tombstone.
LEMMA WrittenServes ==
  ASSUME NEW n, NEW m, NEW b, NEW key, DOMAIN m = DOMAIN n,
         \A k \in DOMAIN n : m[k].exited_at = n[k].exited_at,
         Served(key, n, b), \A t : t # key.tgid => Spared(t, n, b)
  PROVE  Served(key, m, b) /\ \A t : t # key.tgid => Spared(t, m, b)
<1>1. Served(key, m, b)
  BY DEF Served
<1>2. ASSUME NEW t, t # key.tgid
      PROVE  Spared(t, m, b)
  BY <1>2 DEF Spared
<1> QED
  BY <1>1, <1>2

\* What the handler of event e does to each tgid.
Handled(e) ==
  /\ \A t : ~Forks(e, t) /\ ~Says(e, t) => Spared(t, nodes', by_tgid')
  /\ \A t : Says(e, t) /\ ~Ends(e) => Served(EventKey, nodes', by_tgid')
  /\ Ends(e) => DOMAIN nodes' = DOMAIN nodes
  /\ \A t : Forks(e, t) =>
       /\ t \in DOMAIN by_tgid' /\ by_tgid'[t] = Placeholder(t) /\ Placeholder(t) \in DOMAIN nodes'
       /\ nodes'[Placeholder(t)].exited_at = NotExited
       /\ \A k \in DOMAIN nodes' : k.tgid = t => k = Placeholder(t) \/ k \in DOMAIN nodes

LEMMA ForkHandled ==
  ASSUME TypeInv, NEW e, e.kind = "fork", OnFork(e.tgid, e.child)
  PROVE  Handled(e)
<1> DEFINE pk == Newest(e.tgid)
           ck == Placeholder(e.child)
           adopted == Adopt(pk, ck)
           v == ForkedNode(pk)
<1>1. nodes' = Insert(adopted, ck, v) /\ ck.tgid = e.child /\ by_tgid' = Insert(by_tgid, e.child, ck)
  BY DEF OnFork, Placeholder
<1>2. /\ DOMAIN adopted = DOMAIN nodes
      /\ \A k \in DOMAIN nodes : adopted[k].exited_at = nodes[k].exited_at
  BY TableFields DEF Adopt, ProcNode
<1>3. v.exited_at = NotExited
  BY DEF ForkedNode, NewNode
<1> HIDE DEF adopted, v, ck, pk
<1>4. /\ DOMAIN nodes' = DOMAIN nodes \cup {ck} /\ nodes'[ck].exited_at = NotExited
      /\ \A k \in DOMAIN nodes : k # ck => nodes'[k].exited_at = nodes[k].exited_at
  BY <1>1, <1>2, <1>3 DEF Insert
<1>5. /\ DOMAIN by_tgid' = DOMAIN by_tgid \cup {e.child} /\ by_tgid'[e.child] = ck
      /\ \A t \in DOMAIN by_tgid : t # e.child => by_tgid'[t] = by_tgid[t]
  BY <1>1 DEF Insert
<1>6. ASSUME NEW t, ~Forks(e, t)
      PROVE  Spared(t, nodes', by_tgid')
  <2>1. t # e.child
    BY <1>6 DEF Forks
  <2> QED
    BY <1>1, <1>4, <1>5, <2>1 DEF Spared
<1>7. ASSUME NEW t, Forks(e, t)
      PROVE  ck = Placeholder(t) /\ t = e.child
  BY <1>7 DEF Forks, ck
<1>8. ~Ends(e) /\ \A t : ~Says(e, t)
  BY DEF Ends, Says
<1> QED
  BY <1>1, <1>4, <1>5, <1>6, <1>7, <1>8 DEF Handled

LEMMA EnsureHandled ==
  ASSUME TypeInv, NEW e, Promoting(e), NEW key \in ProcKey, key = EventKey, key.tgid = e.tgid,
         DOMAIN nodes' = DOMAIN EnsuredNodes(key), by_tgid' = EnsuredIndex(key),
         \A k \in DOMAIN EnsuredNodes(key) :
           nodes'[k].exited_at = EnsuredNodes(key)[k].exited_at
  PROVE  Handled(e)
<1>1. /\ Served(key, nodes', by_tgid')
      /\ \A t : t # key.tgid => Spared(t, nodes', by_tgid')
  BY EnsureServes, WrittenServes
<1>2. ~Ends(e) /\ \A t : ~Forks(e, t) /\ (Says(e, t) <=> t = e.tgid)
  BY DEF Ends, Forks, Says, Promoting
<1> QED
  BY <1>1, <1>2 DEF Handled

LEMMA ExitHandled ==
  ASSUME TypeInv, NEW e, e.kind = "exit", EventKey.tgid = e.tgid, OnExit(EventKey, e.group_dead)
  PROVE  Handled(e)
<1> DEFINE x == ExitTarget(EventKey)
<1>1. x.tgid = e.tgid
  BY DEF ExitTarget, Placeholder
<1>2. \A t : ~Forks(e, t) /\ (Says(e, t) <=> t = e.tgid)
  BY DEF Forks, Says
<1>3. CASE ~e.group_dead
  <2>1. nodes' = nodes /\ by_tgid' = by_tgid /\ ~Ends(e)
    BY <1>3 DEF OnExit, tableVars, Ends
  <2>2. \A t : Spared(t, nodes', by_tgid')
    BY <2>1 DEF Spared
  <2>3. Served(EventKey, nodes', by_tgid')
    BY <2>1 DEF Served
  <2> QED
    BY <1>2, <2>1, <2>2, <2>3 DEF Handled
<1>4. CASE e.group_dead
  <2>1. Ends(e) /\ by_tgid' = Without(by_tgid, {e.tgid})
        /\ nodes' = IF x \in DOMAIN nodes THEN [nodes EXCEPT ![x].exited_at = 0] ELSE nodes
    BY <1>4 DEF OnExit, Ends
  <2> HIDE DEF x
  <2>2. DOMAIN nodes' = DOMAIN nodes /\ \A k \in DOMAIN nodes : k # x => nodes'[k] = nodes[k]
    BY <2>1
  <2>3. /\ DOMAIN by_tgid' = DOMAIN by_tgid \ {e.tgid}
        /\ \A t \in DOMAIN by_tgid \ {e.tgid} : by_tgid'[t] = by_tgid[t]
    BY <2>1 DEF Without
  <2>4. ASSUME NEW t, t # e.tgid
        PROVE  Spared(t, nodes', by_tgid')
    BY <1>1, <2>2, <2>3, <2>4 DEF Spared
  <2> QED
    BY <1>2, <2>1, <2>2, <2>4 DEF Handled
<1> QED
  BY <1>3, <1>4

LEMMA HeadHandled ==
  ASSUME TypeInv, Consume
  PROVE  /\ ring # <<>> /\ ring' = Tail(ring) /\ UNCHANGED kernelVars
         /\ Handled(Head(ring))
<1> DEFINE e == Head(ring)
<1>1. ring # <<>> /\ ring' = Tail(ring) /\ UNCHANGED kernelVars
  BY DEF Consume, ConsumeFork, ConsumeExec, ConsumeProcExec, ConsumeExit, Take
<1>2. EventKey \in ProcKey /\ EventKey.tgid = e.tgid
  BY <1>1, EventKeyType DEF TypeInv
<1>3. /\ EventKey \in DOMAIN EnsuredNodes(EventKey)
      /\ \A k \in DOMAIN EnsuredNodes(EventKey) : EnsuredNodes(EventKey)[k] \in ProcNode
  BY <1>2, EnsureServes
<1>4. ASSUME ConsumeFork
      PROVE  Handled(e)
  BY <1>4, ForkHandled DEF ConsumeFork, Take
<1>5. ASSUME ConsumeExec
      PROVE  Handled(e)
  <2> DEFINE n == EnsuredNodes(EventKey)
  <2>1. /\ Promoting(e) /\ by_tgid' = EnsuredIndex(EventKey)
        /\ nodes' = [n EXCEPT ![EventKey].comm = e.comm, ![EventKey].args = e.args]
    BY <1>5 DEF ConsumeExec, Take, OnExec, Promoting
  <2> HIDE DEF n
  <2>2. DOMAIN nodes' = DOMAIN n /\ \A k \in DOMAIN n : nodes'[k].exited_at = n[k].exited_at
    <3>1. \A k \in DOMAIN n : n[k] \in ProcNode
      BY <1>3 DEF n
    <3> QED
      BY <2>1, <3>1 DEF ProcNode
  <2> QED
    BY <1>2, <2>1, <2>2, EnsureHandled DEF n
<1>6. ASSUME ConsumeProcExec
      PROVE  Handled(e)
  <2> DEFINE n == EnsuredNodes(EventKey)
  <2>1. /\ Promoting(e) /\ by_tgid' = EnsuredIndex(EventKey)
        /\ nodes' = [n EXCEPT ![EventKey].exe = e.exe]
    BY <1>6 DEF ConsumeProcExec, Take, OnProcExec, Promoting
  <2> HIDE DEF n
  <2>2. DOMAIN nodes' = DOMAIN n /\ \A k \in DOMAIN n : nodes'[k].exited_at = n[k].exited_at
    <3>1. \A k \in DOMAIN n : n[k] \in ProcNode
      BY <1>3 DEF n
    <3> QED
      BY <2>1, <3>1 DEF ProcNode
  <2> QED
    BY <1>2, <2>1, <2>2, EnsureHandled DEF n
<1>7. ASSUME ConsumeExit
      PROVE  Handled(e)
  BY <1>2, <1>7, ExitHandled DEF ConsumeExit, Take
<1> QED
  BY <1>1, <1>4, <1>5, <1>6, <1>7 DEF Consume

--------------------------------------------------------------------------------
(* What the handler keeps *)

\* A handler adds no record but the one of the event's key and the placeholder of
\* a forked child.
LEMMA NewRecords ==
  ASSUME TypeInv, NEW e, Handled(e), EventKey.tgid = e.tgid, e.kind # "fork" \/ ~Ends(e),
         NEW k \in DOMAIN nodes'
  PROVE  k \in DOMAIN nodes \/ k = EventKey \/ k = Placeholder(k.tgid)
<1>1. CASE Forks(e, k.tgid)
  BY <1>1 DEF Handled
<1>2. CASE ~Forks(e, k.tgid) /\ ~Says(e, k.tgid)
  BY <1>2 DEF Handled, Spared
<1>3. CASE Says(e, k.tgid) /\ ~Ends(e)
  <2>1. Served(EventKey, nodes', by_tgid') /\ EventKey.tgid = k.tgid
    BY <1>3 DEF Handled, Says
  <2> QED
    BY <2>1 DEF Served
<1>4. CASE Ends(e)
  BY <1>4 DEF Handled
<1> QED
  BY <1>1, <1>2, <1>3, <1>4

LEMMA ConsumeKeepsStarts ==
  ASSUME TypeInv, StartsGiven, Consume
  PROVE  StartsGiven'
<1> DEFINE e == Head(ring)
<1>1. ring # <<>> /\ ring' = Tail(ring) /\ UNCHANGED kernelVars /\ Handled(e)
  BY HeadHandled
<1>2. EventKey.tgid = e.tgid /\ EventKey.start_time = e.start
  BY <1>1, EventKeyType DEF TypeInv
<1>3. task' = task /\ group' = group /\ last_start' = last_start /\ last_start \in Nat
  BY <1>1, StartsAreNumbers DEF kernelVars
<1>4. e = ring[1] /\ 1 \in 1 .. Len(ring)
      /\ \A i \in 1 .. Len(ring') : i + 1 \in 1 .. Len(ring) /\ ring'[i] = ring[i + 1]
  BY <1>1, OnePlaceNearer
<1>5. \A i \in 1 .. Len(ring') : ring'[i].start =< last_start
  BY <1>4 DEF StartsGiven
<1>6. ASSUME NEW k \in DOMAIN nodes'
      PROVE  k.start_time =< last_start
  <2>1. k \in DOMAIN nodes \/ k = EventKey \/ k = Placeholder(k.tgid)
    BY <1>1, <1>2, NewRecords DEF Ends
  <2>2. EventKey.start_time =< last_start
    BY <1>2, <1>4 DEF StartsGiven
  <2>3. Placeholder(k.tgid).start_time =< last_start
    BY <1>3 DEF Placeholder
  <2> QED
    BY <2>1, <2>2, <2>3 DEF StartsGiven
<1> QED
  BY <1>3, <1>5, <1>6 DEF StartsGiven

\* The events of process t stay its own when one is taken out.
LEMMA OwnEventsNearer ==
  ASSUME TypeInv, ring # <<>>, ring' = Tail(ring), group' = group,
         NEW t, NEW i \in Nat, NEW j \in Nat, i =< j + 1, OwnEventsFrom(t, i)
  PROVE  OwnEventsFrom(t, j)'
<1>1. /\ Len(ring) \in Nat \ {0} /\ Len(ring') = Len(ring) - 1
      /\ \A m \in 1 .. Len(ring') : m + 1 \in 1 .. Len(ring) /\ ring'[m] = ring[m + 1]
  BY OnePlaceNearer
<1>2. ASSUME NEW m \in j + 1 .. Len(ring')
      PROVE  ring'[m] = ring[m + 1] /\ m + 1 \in i + 1 .. Len(ring)
  <2>1. m \in 1 .. Len(ring')
    OBVIOUS
  <2> QED
    BY <1>1, <2>1
<1> QED
  BY <1>2 DEF OwnEventsFrom

\* A known process stays known: the event at the head, if about its pid, is its own.
LEMMA ConsumeKeepsKnown ==
  ASSUME TypeInv, NEW e, Handled(e), group' = group, NEW t \in DOMAIN group, Known(t),
         EventKey.tgid = e.tgid, EventKey.start_time = e.start,
         ~Forks(e, t), Says(e, t) => ~Ends(e) /\ e.start >= group[t].start
  PROVE  Known(t)'
<1> SUFFICES /\ t \in DOMAIN by_tgid' /\ by_tgid'[t] \in DOMAIN nodes'
             /\ nodes'[by_tgid'[t]].exited_at = NotExited /\ OwnRecord(by_tgid'[t], t)
             /\ \A k \in DOMAIN nodes' :
                  k.tgid = t /\ (k.start_time = 0 \/ k.start_time >= group[t].start) =>
                    nodes'[k].exited_at = NotExited
  BY DEF Known, Live, OwnRecord
<1>1. /\ t \in DOMAIN by_tgid /\ by_tgid[t] \in DOMAIN nodes /\ by_tgid[t].tgid = t
      /\ nodes[by_tgid[t]].exited_at = NotExited /\ OwnRecord(by_tgid[t], t)
      /\ \A k \in DOMAIN nodes :
           k.tgid = t /\ (k.start_time = 0 \/ k.start_time >= group[t].start) =>
             nodes[k].exited_at = NotExited
  BY TableFields DEF Known, Live
<1>2. CASE ~Says(e, t)
  <2>1. Spared(t, nodes', by_tgid')
    BY <1>2 DEF Handled
  <2> QED
    BY <1>1, <2>1 DEF Spared
<1>3. CASE Says(e, t)
  <2>1. /\ Served(EventKey, nodes', by_tgid') /\ EventKey.tgid = t
        /\ EventKey.start_time >= group[t].start
    BY <1>3 DEF Handled, Says
  <2>2. OwnRecord(EventKey, t)
    BY <2>1 DEF OwnRecord
  <2>3. \A k \in DOMAIN nodes' : k = EventKey => nodes'[k].exited_at = NotExited
    <3>1. Placeholder(t).tgid = t /\ Placeholder(t).start_time = 0
      BY DEF Placeholder
    <3> QED
      BY <1>1, <2>1, <3>1 DEF Served
  <2>4. ASSUME NEW k \in DOMAIN nodes', k.tgid = t, k # EventKey
        PROVE  k \in DOMAIN nodes /\ nodes'[k].exited_at = nodes[k].exited_at
    BY <2>1, <2>4 DEF Served
  <2>5. t \in DOMAIN by_tgid' /\ by_tgid'[t] \in DOMAIN nodes' /\ by_tgid'[t] \in {by_tgid[t], EventKey}
    BY <1>1, <2>1 DEF Served
  <2> QED
    BY <1>1, <2>1, <2>2, <2>3, <2>4, <2>5
<1> QED
  BY <1>2, <1>3

\* The fork that announced the process makes it known.
LEMMA BirthMakesKnown ==
  ASSUME TypeInv, TypeInv', NEW e, Handled(e), group' = group, NEW t \in DOMAIN group,
         Forks(e, t), \A k \in DOMAIN nodes : k.tgid = t => k.start_time < group[t].start
  PROVE  Known(t)'
<1>1. /\ t \in DOMAIN by_tgid' /\ by_tgid'[t] = Placeholder(t) /\ Placeholder(t) \in DOMAIN nodes'
      /\ nodes'[Placeholder(t)].exited_at = NotExited
      /\ \A k \in DOMAIN nodes' : k.tgid = t => k = Placeholder(t) \/ k \in DOMAIN nodes
  BY DEF Handled
<1>2. Placeholder(t).tgid = t /\ Placeholder(t).start_time = 0
  BY DEF Placeholder
<1>3. ASSUME NEW k \in DOMAIN nodes', k.tgid = t,
             k.start_time = 0 \/ k.start_time >= group[t].start
      PROVE  k = Placeholder(t)
  <2>1. CASE k.start_time = 0
    <3>1. k \in ProcKey
      BY TableFields DEF TypeInv, TableTypeOK
    <3> QED
      BY <1>3, <2>1, <3>1 DEF ProcKey, Placeholder
  <2>2. CASE k \in DOMAIN nodes /\ k.start_time >= group[t].start
    BY <1>3, <2>2, StartsAreNumbers
  <2> QED
    BY <1>1, <1>3, <2>1, <2>2
<1> QED
  BY <1>1, <1>2, <1>3 DEF Known, Live, OwnRecord

\* An announced process stays announced while events of earlier users are taken.
LEMMA ConsumeKeepsAnnounced ==
  ASSUME TypeInv, TypeInv', NEW e, Handled(e), group' = group, NEW t \in DOMAIN group,
         ring # <<>>, ring' = Tail(ring), e = Head(ring),
         EventKey.tgid = e.tgid, EventKey.start_time = e.start,
         NEW i \in 1 .. Len(ring), i > 1, Announced(t, i)
  PROVE  i - 1 \in 1 .. Len(ring') /\ Announced(t, i - 1)'
<1>1. /\ Len(ring) \in Nat \ {0} /\ Len(ring') = Len(ring) - 1 /\ e = ring[1]
      /\ \A m \in 1 .. Len(ring') : m + 1 \in 1 .. Len(ring) /\ ring'[m] = ring[m + 1]
  BY OnePlaceNearer
<1>2. PICK p : p = i - 1
  OBVIOUS
<1>3. p \in 1 .. Len(ring') /\ p \in Nat /\ i = p + 1 /\ ring'[p] = ring[i] /\ 1 \in 1 .. i - 1
  BY <1>1, <1>2
<1>4. Forks(ring'[p], t)
  BY <1>3 DEF Announced
<1>5. \A m \in 1 .. p - 1 : Says(ring'[m], t) => ring'[m].start < group[t].start
  <2>1. \A m \in 1 .. p - 1 : m \in 1 .. Len(ring') /\ m + 1 \in 1 .. i - 1
    BY <1>1, <1>3
  <2> QED
    BY <1>1, <2>1 DEF Announced
<1>6. ASSUME NEW k \in DOMAIN nodes', k.tgid = t
      PROVE  k.start_time < group[t].start
  <2>1. group[t].start \in Nat \ {0}
    <3>1. group[t].start \in StartTimes
      BY DEF TypeInv, KernelSound, KernelTyped
    <3> QED
      BY <3>1, ProcTableAssumption
  <2>2. Placeholder(t).start_time < group[t].start
    BY <2>1 DEF Placeholder
  <2>3. CASE k = EventKey /\ Says(e, t)
    BY <1>1, <1>3, <2>3 DEF Announced
  <2>4. CASE ~Says(e, t) /\ ~Forks(e, t)
    <3>1. k \in DOMAIN nodes
      BY <1>6, <2>4 DEF Handled, Spared
    <3> QED
      BY <1>6, <3>1 DEF Announced
  <2>5. CASE Forks(e, t)
    <3>1. k = Placeholder(t) \/ k \in DOMAIN nodes
      BY <1>6, <2>5 DEF Handled
    <3> QED
      BY <1>6, <2>2, <3>1 DEF Announced
  <2>6. CASE Says(e, t) /\ k # EventKey
    <3>1. k \in DOMAIN nodes \/ k = Placeholder(t)
      BY <1>6, <2>6, NewRecords DEF Says
    <3> QED
      BY <1>6, <2>2, <3>1 DEF Announced
  <2> QED
    BY <2>3, <2>4, <2>5, <2>6
<1>7. Announced(t, p)'
  BY <1>4, <1>5, <1>6 DEF Announced
<1> QED
  BY <1>2, <1>3, <1>7

LEMMA ConsumeKeepsCurrent ==
  ASSUME TypeInv, TypeInv', Current, Consume
  PROVE  Current'
<1> DEFINE e == Head(ring)
<1>1. ring # <<>> /\ ring' = Tail(ring) /\ UNCHANGED kernelVars /\ Handled(e)
  BY HeadHandled
<1>2. EventKey.tgid = e.tgid /\ EventKey.start_time = e.start
  BY <1>1, EventKeyType DEF TypeInv
<1>3. group' = group
  BY <1>1 DEF kernelVars
<1>4. e = ring[1] /\ 1 \in 1 .. Len(ring) /\ Len(ring) \in Nat
  BY <1>1, OnePlaceNearer
<1> HIDE DEF e
<1> SUFFICES ASSUME NEW t \in DOMAIN group
             PROVE  \/ Known(t)' /\ OwnEventsFrom(t, 0)'
                    \/ \E i \in 1 .. Len(ring') : Announced(t, i)' /\ OwnEventsFrom(t, i)'
  BY <1>3 DEF Current
<1>5. CASE Known(t) /\ OwnEventsFrom(t, 0)
  <2>1. ~Forks(e, t) /\ (Says(e, t) => ~Ends(e) /\ e.start >= group[t].start)
    <3>1. 1 \in 0 + 1 .. Len(ring)
      BY <1>4
    <3> QED
      BY <1>4, <1>5, <3>1 DEF OwnEventsFrom
  <2>2. Known(t)'
    BY <1>1, <1>2, <1>3, <1>5, <2>1, ConsumeKeepsKnown
  <2>3. OwnEventsFrom(t, 0)'
    BY <1>1, <1>3, <1>5, OwnEventsNearer
  <2> QED
    BY <2>2, <2>3
<1>6. ASSUME Announced(t, 1), OwnEventsFrom(t, 1)
      PROVE  Known(t)' /\ OwnEventsFrom(t, 0)'
  <2>1. Forks(e, t) /\ \A k \in DOMAIN nodes : k.tgid = t => k.start_time < group[t].start
    BY <1>4, <1>6 DEF Announced
  <2>2. Known(t)'
    BY <1>1, <1>3, <2>1, BirthMakesKnown
  <2>3. OwnEventsFrom(t, 0)'
    BY <1>1, <1>3, <1>6, OwnEventsNearer
  <2> QED
    BY <2>2, <2>3
<1>7. ASSUME NEW i \in 1 .. Len(ring), i > 1, Announced(t, i), OwnEventsFrom(t, i)
      PROVE  \E p \in 1 .. Len(ring') : Announced(t, p)' /\ OwnEventsFrom(t, p)'
  <2>1. PICK p : p = i - 1
    OBVIOUS
  <2>2. p \in 1 .. Len(ring') /\ Announced(t, p)'
    BY <1>1, <1>2, <1>3, <1>7, <2>1, ConsumeKeepsAnnounced DEF e
  <2>3. p \in Nat /\ i \in Nat /\ i =< p + 1
    BY <1>7, <2>1
  <2>4. OwnEventsFrom(t, p)'
    BY <1>1, <1>3, <1>7, <2>3, OwnEventsNearer
  <2> QED
    BY <2>2, <2>4
<1>8. ASSUME NEW i \in 1 .. Len(ring)
      PROVE  i = 1 \/ i > 1
  BY <1>8
<1> QED
  BY <1>5, <1>6, <1>7, <1>8 DEF Current

\* Time passes and tombstones go: neither touches a live record.
LEMMA TimerKeepsIdentity ==
  ASSUME TypeInv, StartsGiven, Current, Expire \/ Tick \/ UNCHANGED vars
  PROVE  StartsGiven' /\ Current'
<1>1. UNCHANGED <<kernelVars, ring>> /\ by_tgid' = by_tgid
  BY DEF Expire, Tick, Reap, Elapse, vars, tableVars
<1>2. task' = task /\ group' = group /\ last_start' = last_start /\ ring' = ring
  BY <1>1 DEF kernelVars
<1>3. /\ DOMAIN nodes' \subseteq DOMAIN nodes
      /\ \A k \in DOMAIN nodes : Live(k) =>
           k \in DOMAIN nodes' /\ nodes'[k].exited_at = NotExited
  <2>1. \A k \in DOMAIN nodes : nodes[k] \in ProcNode
    BY TableFields
  <2>2. CASE Expire
    <3>1. \A k \in DOMAIN nodes : Live(k) => k \notin Reapable
      BY ProcTableAssumption DEF Live, Reapable, NotExited
    <3>2. DOMAIN nodes' = DOMAIN nodes \ Reapable
      BY <2>2 DEF Expire, Reap
    <3>3. \A k \in DOMAIN nodes' : nodes'[k].exited_at = nodes[k].exited_at
      BY <2>1, <2>2 DEF Expire, Reap, ProcNode
    <3> QED
      BY <3>1, <3>2, <3>3 DEF Live
  <2>3. CASE Tick
    <3>1. DOMAIN nodes' = DOMAIN nodes
      BY <2>3 DEF Tick, Elapse
    <3>2. \A k \in DOMAIN nodes :
            nodes'[k].exited_at = IF nodes[k].exited_at \in 0 .. Grace
                                  THEN nodes[k].exited_at + 1 ELSE nodes[k].exited_at
      BY <2>1, <2>3 DEF Tick, Elapse, ProcNode
    <3> QED
      BY <3>1, <3>2 DEF Live, NotExited
  <2>4. CASE UNCHANGED vars
    BY <2>4 DEF vars, tableVars, Live
  <2> QED
    BY <2>2, <2>3, <2>4
<1>4. StartsGiven'
  BY <1>2, <1>3 DEF StartsGiven
<1>5. ASSUME NEW t \in DOMAIN group, Known(t)
      PROVE  Known(t)'
  BY <1>1, <1>2, <1>3, <1>5 DEF Known, Live, OwnRecord
<1>6. ASSUME NEW t \in DOMAIN group, NEW i \in 1 .. Len(ring), Announced(t, i)
      PROVE  Announced(t, i)'
  BY <1>2, <1>3, <1>6 DEF Announced
<1>7. ASSUME NEW t \in DOMAIN group, NEW i, OwnEventsFrom(t, i)
      PROVE  OwnEventsFrom(t, i)'
  BY <1>2, <1>7 DEF OwnEventsFrom
<1> QED
  BY <1>2, <1>4, <1>5, <1>6, <1>7 DEF Current

--------------------------------------------------------------------------------
(* The theorem *)

LEMMA IdentityInvStarts == ASSUME Delivered, Init PROVE IdentityInv
<1>1. TypeInv /\ attached = Kinds /\ ring = <<>> /\ TableInit /\ KernelInit
  BY TypeInvStarts DEF Init
<1>2. /\ DOMAIN task = DOMAIN Boot /\ DOMAIN group = DOMAIN Boot
      /\ \A t \in DOMAIN Boot :
           task[t].tgid = t /\ task[t].start = Boot[t].start /\ group[t].start = Boot[t].start
  BY <1>1 DEF KernelInit
<1>3. \A t \in DOMAIN Boot : Boot[t].start \in Nat /\ Boot[t].start =< last_start
  BY <1>1, BootIsPast
<1>4. /\ DOMAIN nodes = {SeedKey(t) : t \in DOMAIN Boot}
      /\ \A t \in DOMAIN Boot :
           /\ SeedKey(t).tgid = t /\ SeedKey(t).start_time = Snapshot[t].start_time
           /\ nodes[SeedKey(t)].exited_at = NotExited
      /\ DOMAIN by_tgid = DOMAIN Boot /\ \A t \in DOMAIN Boot : by_tgid[t] = SeedKey(t)
  BY <1>1 DEF TableInit, SeededFrom, IndexFrom, SeedKey, SeedKeyIn, Delivered
<1>5. \A t \in DOMAIN Boot : Snapshot[t].start_time \in Nat /\ Snapshot[t].start_time < Boot[t].start
  <2>1. \A t \in DOMAIN Boot : Snapshot[t] \in ProcInfo /\ Snapshot[t].start_time < Boot[t].start
    BY SensorAssumption, ProcTableAssumption DEF Delivered
  <2>2. \A t \in DOMAIN Boot : Snapshot[t].start_time \in StartTimes \cup {0}
    BY <2>1 DEF ProcInfo
  <2> QED
    BY <2>1, <2>2, StartIsNumber
<1> HIDE DEF SeedKey
<1>6. last_start \in Nat
  BY <1>1, StartsAreNumbers
<1>7. StartsGiven
  <2>1. \A k \in DOMAIN nodes : k.start_time =< last_start
    BY <1>3, <1>4, <1>5, <1>6
  <2> QED
    BY <1>1, <1>2, <1>3, <2>1 DEF StartsGiven
<1>8. Current
  <2> SUFFICES ASSUME NEW t \in DOMAIN Boot
               PROVE  Known(t) /\ OwnEventsFrom(t, 0)
    BY <1>2 DEF Current
  <2>1. OwnRecord(SeedKey(t), t)
    BY <1>2, <1>4 DEF OwnRecord, Delivered
  <2>2. \A k \in DOMAIN nodes : Live(k)
    BY <1>4 DEF Live
  <2>3. Known(t)
    BY <1>4, <2>1, <2>2 DEF Known
  <2>4. OwnEventsFrom(t, 0)
    BY <1>1 DEF OwnEventsFrom
  <2> QED
    BY <2>3, <2>4
<1> QED
  BY <1>1, <1>7, <1>8 DEF IdentityInv

LEMMA IdentityInvStep ==
  ASSUME Delivered, IdentityInv, [Next]_vars
  PROVE  IdentityInv'
<1>1. TypeInv /\ TypeInv' /\ attached = Kinds /\ StartsGiven /\ Current
  BY TypeInvStep DEF IdentityInv
<1>2. TaskStarts
  BY <1>1 DEF StartsGiven, TaskStarts
<1>3. CASE Kernel
  <2>1. Seen
    BY <1>1, <1>2, <1>3, KernelSeen
  <2>2. UNCHANGED tableVars
    BY <1>1, <1>3, KernelSteps DEF TypeInv
  <2>3. attached' = attached
    BY <1>3 DEF Kernel
  <2> QED
    BY <1>1, <2>1, <2>2, <2>3, KernelKeepsStarts, KernelKeepsCurrent DEF IdentityInv
<1>4. CASE Consume
  <2>1. attached' = attached
    BY <1>1, <1>4, HeadHandled DEF kernelVars
  <2> QED
    BY <1>1, <1>4, <2>1, ConsumeKeepsStarts, ConsumeKeepsCurrent DEF IdentityInv
<1>5. CASE Expire \/ Tick \/ UNCHANGED vars
  <2>1. attached' = attached
    BY <1>5 DEF Expire, Tick, vars, kernelVars
  <2> QED
    BY <1>1, <1>5, <2>1, TimerKeepsIdentity DEF IdentityInv
<1> QED
  BY <1>3, <1>4, <1>5 DEF Next

LEMMA CurrentResolves == ASSUME IdentityInv PROVE ResolveCurrent
<1> SUFFICES ASSUME ring = <<>>, NEW t \in DOMAIN group
             PROVE  LET k == Resolve(Identity(t)) IN
                    k # NoKey /\ OwnRecord(k, t) /\ nodes[k].exited_at = NotExited
  BY DEF ResolveCurrent, CaughtUp
<1>1. Known(t)
  <2>1. Len(ring) = 0 /\ (Known(t) \/ \E i \in 1 .. Len(ring) : Announced(t, i))
    BY DEF IdentityInv, Current
  <2> QED
    BY <2>1
<1>2. NoKey \notin DOMAIN nodes
  BY ProcTableAssumption DEF IdentityInv, TypeInv, TableTypeOK
<1>3. Identity(t).tgid = t /\ Identity(t).start_time = group[t].start
  BY DEF Identity, Id
<1>4. CASE Identity(t) \in DOMAIN nodes
  <2>1. group[t].start \in Nat
    BY StartsAreNumbers DEF IdentityInv
  <2>2. OwnRecord(Identity(t), t) /\ nodes[Identity(t)].exited_at = NotExited
    BY <1>1, <1>3, <1>4, <2>1 DEF OwnRecord, Known, Live
  <2> QED
    BY <1>2, <1>4, <2>2 DEF Resolve
<1>5. CASE Identity(t) \notin DOMAIN nodes
  <2>1. Resolve(Identity(t)) = by_tgid[t]
    BY <1>1, <1>3, <1>5 DEF Resolve, Newest, Known
  <2> QED
    BY <1>1, <1>2, <2>1 DEF Known, Live
<1> QED
  BY <1>4, <1>5

\* With threads, and though a pid be given out again at any time, a running process
\* resolves to a live record that is its own once the events are applied, as long as
\* none is lost and /proc was read.
THEOREM ResolveIsCurrent == ASSUME Delivered PROVE Spec => []ResolveCurrent
<1>1. Init => IdentityInv
  BY IdentityInvStarts
<1>2. IdentityInv /\ [Next]_vars => IdentityInv'
  BY IdentityInvStep
<1>3. IdentityInv => ResolveCurrent
  BY CurrentResolves
<1> QED
  BY <1>1, <1>2, <1>3, PTL DEF Spec

================================================================================
