------------------------------ MODULE StartupProofs ------------------------------
(******************************************************************************)
(* Proofs about the start of the agent: between the programs it attaches, the  *)
(* /proc entries it reads and the events it then takes, no process falls       *)
(* through and nobody is joined to a stranger, for any number of processes,    *)
(* any ring, and any interleaving with a kernel that runs on.                  *)
(*                                                                            *)
(*   StartupKeepsForest  the table is a forest all the time;                   *)
(*   EveryoneIsKnown     whoever runs has a living record, if no event is lost *)
(*                       (and if /proc cannot be opened, whoever started once   *)
(*                       the program for forks was attached);                  *)
(*   AncestryIsKin       every ancestor named is a forebear, lost or not.      *)
(*                                                                            *)
(* All three need pids not to be given out again while /proc is read.          *)
(******************************************************************************)
EXTENDS Startup, SensorProofs

--------------------------------------------------------------------------------
(* The past *)

Root == BootId(1)

\* n forks lead from a back to b.
Climbs(l, b, a, n) ==
  \E f \in [0 .. n -> DOMAIN l] :
    f[0] = b /\ f[n] = a /\ \A i \in 0 .. n - 1 : l[f[i]] = f[i + 1]

Descends(l, b, a) == a.start_time < b.start_time /\ \E n \in Nat \ {0} : Climbs(l, b, a, n)

\* The pids of a process and of a forebear of it.
KinOf(l, c, p) ==
  \E b, a \in DOMAIN l : b.tgid = c /\ a.tgid = p /\ Descends(l, b, a)

Lived(l, t) == \E id \in DOMAIN l : id.tgid = t

\* Every process but init was forked by an older one.
Older ==
  \A id \in DOMAIN lineage :
    \/ id = Root /\ lineage[id] = NoKey
    \/ /\ id # Root /\ lineage[id] \in DOMAIN lineage
       /\ lineage[id].start_time < id.start_time

OneEach == \A a, b \in DOMAIN lineage : a.tgid = b.tgid => a = b

InitRuns == 1 \in DOMAIN task /\ task[1].tgid = 1 /\ Root \in DOMAIN lineage

GroupStarts == \A t \in DOMAIN group : group[t].start \in 1 .. last_start

Past == IsFiniteSet(DOMAIN lineage) /\ Older /\ OneEach /\ InitRuns /\ GroupStarts

LEMMA LineageTyped ==
  ASSUME TypeInv
  PROVE  /\ NoKey \notin DOMAIN lineage
         /\ \A id \in DOMAIN lineage : id \in ProcKey /\ id.start_time \in Nat
<1>1. \A id \in DOMAIN lineage : id \in ProcKey
  BY DEF TypeInv, KernelSound, KernelTyped
<1>2. \A id \in ProcKey : id.start_time \in StartTimes \cup {0}
  BY DEF ProcKey
<1>3. \A s \in StartTimes \cup {0} : s \in Nat
  BY ProcTableAssumption
<1>4. NoKey \notin ProcKey
  BY ProcTableAssumption
<1> QED
  BY <1>1, <1>2, <1>3, <1>4

\* A kinship lasts: the lineage only grows.
LEMMA KinLasts ==
  ASSUME NEW l, NEW m, DOMAIN l \subseteq DOMAIN m, \A id \in DOMAIN l : m[id] = l[id],
         NEW c, NEW p, KinOf(l, c, p)
  PROVE  KinOf(m, c, p)
<1>1. PICK b \in DOMAIN l, a \in DOMAIN l : b.tgid = c /\ a.tgid = p /\ Descends(l, b, a)
  BY DEF KinOf
<1>2. PICK n \in Nat \ {0} : Climbs(l, b, a, n)
  BY <1>1 DEF Descends
<1>3. PICK f \in [0 .. n -> DOMAIN l] :
        f[0] = b /\ f[n] = a /\ \A i \in 0 .. n - 1 : l[f[i]] = f[i + 1]
  BY <1>2 DEF Climbs
<1>4. \A i \in 0 .. n - 1 : i \in 0 .. n /\ f[i] \in DOMAIN l
  BY <1>3
<1>5. f \in [0 .. n -> DOMAIN m] /\ \A i \in 0 .. n - 1 : m[f[i]] = f[i + 1]
  BY <1>3, <1>4
<1>6. Climbs(m, b, a, n)
  BY <1>3, <1>5 DEF Climbs
<1> QED
  BY <1>1, <1>6 DEF KinOf, Descends

\* Whom a process was forked by.
LEMMA ForkerIsKin ==
  ASSUME NEW b \in DOMAIN lineage, lineage[b] \in DOMAIN lineage,
         lineage[b].start_time < b.start_time
  PROVE  KinOf(lineage, b.tgid, lineage[b].tgid)
<1> DEFINE f == [i \in 0 .. 1 |-> IF i = 0 THEN b ELSE lineage[b]]
<1>1. f \in [0 .. 1 -> DOMAIN lineage] /\ f[0] = b /\ f[1] = lineage[b]
  OBVIOUS
<1>2. \A i \in 0 .. 1 - 1 : i = 0 /\ i + 1 = 1
  OBVIOUS
<1> HIDE DEF f
<1>3. Climbs(lineage, b, lineage[b], 1)
  BY <1>1, <1>2 DEF Climbs
<1> QED
  BY <1>3 DEF KinOf, Descends

\* Every process but init descends from init.
LEMMA InitIsKin ==
  ASSUME TypeInv, Older, Root \in DOMAIN lineage, NEW b \in DOMAIN lineage, b # Root
  PROVE  KinOf(lineage, b.tgid, Root.tgid)
<1> DEFINE lost == {id \in DOMAIN lineage : id # Root /\ ~Descends(lineage, id, Root)}
           starts == {id.start_time : id \in lost}
<1>1. lost = {}
  <2> SUFFICES ASSUME lost # {} PROVE FALSE
    OBVIOUS
  <2>1. starts \subseteq Nat /\ starts # {}
    BY LineageTyped
  <2>2. PICK s \in starts : \A r \in starts : s =< r
    <3> HIDE DEF starts
    <3> QED
      BY <2>1, LeastNumber
  <2>3. PICK id \in lost : id.start_time = s
    BY <2>2
  <2> DEFINE up == lineage[id]
  <2>4. /\ id \in DOMAIN lineage /\ up \in DOMAIN lineage /\ up.start_time < id.start_time
        /\ up.start_time \in Nat /\ id.start_time \in Nat /\ Root.start_time \in Nat
    BY <2>3, LineageTyped DEF Older
  <2>5. up \notin lost
    BY <2>2, <2>3, <2>4
  <2>6. CASE up = Root
    <3> DEFINE f == [i \in 0 .. 1 |-> IF i = 0 THEN id ELSE up]
    <3>1. f \in [0 .. 1 -> DOMAIN lineage] /\ f[0] = id /\ f[1] = up
      BY <2>4
    <3>2. \A i \in 0 .. 1 - 1 : i = 0 /\ i + 1 = 1
      OBVIOUS
    <3> HIDE DEF f
    <3>3. Climbs(lineage, id, up, 1)
      BY <3>1, <3>2 DEF Climbs
    <3> QED
      BY <2>3, <2>4, <2>6, <3>3 DEF Descends
  <2>7. CASE up # Root
    <3>1. Descends(lineage, up, Root)
      BY <2>4, <2>5, <2>7
    <3>2. PICK n \in Nat \ {0} : Climbs(lineage, up, Root, n)
      BY <3>1 DEF Descends
    <3>3. PICK f \in [0 .. n -> DOMAIN lineage] :
            f[0] = up /\ f[n] = Root /\ \A i \in 0 .. n - 1 : lineage[f[i]] = f[i + 1]
      BY <3>2 DEF Climbs
    <3> DEFINE g == [i \in 0 .. n + 1 |-> IF i = 0 THEN id ELSE f[i - 1]]
    <3>4. \A i \in 0 .. n + 1 : i # 0 => i - 1 \in 0 .. n
      OBVIOUS
    <3>5. g \in [0 .. n + 1 -> DOMAIN lineage]
      BY <2>4, <3>3, <3>4
    <3>6. g[0] = id /\ g[n + 1] = Root /\ g[1] = up
      BY <3>3
    <3>7. ASSUME NEW i \in 0 .. (n + 1) - 1
          PROVE  lineage[g[i]] = g[i + 1]
      <4>1. CASE i = 0
        BY <3>6, <4>1
      <4>2. CASE i # 0
        <5>1. i - 1 \in 0 .. n - 1 /\ g[i] = f[i - 1] /\ g[i + 1] = f[i] /\ (i - 1) + 1 = i
          BY <3>7, <4>2
        <5> QED
          BY <3>3, <5>1
      <4> QED
        BY <4>1, <4>2
    <3> HIDE DEF g
    <3>8. Climbs(lineage, id, Root, n + 1)
      BY <3>5, <3>6, <3>7 DEF Climbs
    <3>9. Root.start_time < id.start_time
      BY <2>4, <3>1 DEF Descends
    <3> QED
      BY <2>3, <3>8, <3>9 DEF Descends
  <2> QED
    BY <2>6, <2>7
<1> QED
  BY <1>1 DEF KinOf

--------------------------------------------------------------------------------
(* One step of the kernel *)

SameProcesses ==
  /\ lineage' = lineage /\ last_start =< last_start' /\ DOMAIN group' \subseteq DOMAIN group
  /\ \A t \in DOMAIN group' : group'[t].start = group[t].start

ForkReported(c) == \E e \in Event : e.kind = "fork" /\ e.child = c /\ ring' = Append(ring, e)

\* Process c was forked.
Birth(c) ==
  \E g \in DOMAIN group :
    /\ New(c) /\ c \in Tgids /\ last_start' = last_start + 1
    /\ lineage' = Insert(lineage, Id(c, last_start + 1), Identity(g))
    /\ DOMAIN group' = DOMAIN group \cup {c} /\ group'[c].start = last_start + 1
    /\ \A t \in DOMAIN group : group'[t].start = group[t].start
    /\ "fork" \in attached /\ ~Lossy => ForkReported(c)

LEMMA ForkBears ==
  ASSUME TypeInv, InitRuns, NEW t \in DOMAIN task, Fork(t)
  PROVE  1 \in DOMAIN task' /\ task'[1].tgid = 1 /\ \E c : Birth(c)
<1> DEFINE g == task[t].tgid
<1>1. PICK c \in NextPids :
        /\ NewTask(c, c)
        /\ group' = Insert(group, c, [start |-> last_start + 1, image |-> group[g].image])
        /\ lineage' = Insert(lineage, Id(c, last_start + 1), Id(g, group[g].start))
        /\ EmitFork(t, c)
  BY DEF Fork
<1>2. PICK s \in StartRead(t) :
        Emit([kind |-> "fork", tgid |-> g, start |-> s, child |-> c])
  BY <1>1 DEF EmitFork
<1> DEFINE e == [kind |-> "fork", tgid |-> g, start |-> s, child |-> c]
<1>3. /\ KernelTyped /\ g \in DOMAIN group /\ g \in Tgids /\ c \in Tgids
      /\ s \in StartTimes \cup {0}
  BY <1>2, TaskTyped DEF TypeInv, KernelSound, NextPids, FreePids, StartRead
<1>4. /\ DOMAIN task' = DOMAIN task \cup {c} /\ New(c)
      /\ \A u \in DOMAIN task : task'[u] = task[u]
  BY <1>1, <1>3, NewTaskTyped
<1>5. last_start' = last_start + 1
  BY <1>1 DEF NewTask
<1>6. /\ DOMAIN group' = DOMAIN group \cup {c} /\ group'[c].start = last_start + 1
      /\ \A u \in DOMAIN group : group'[u] = group[u]
  BY <1>1, <1>4 DEF Insert, New
<1>7. e \in Event /\ e.kind = "fork" /\ e.child = c
  BY <1>3 DEF Event
<1>8. "fork" \in attached /\ ~Lossy => ForkReported(c)
  <2> SUFFICES ASSUME "fork" \in attached, ~Lossy
               PROVE  ring' = Append(ring, e)
    BY <1>7 DEF ForkReported
  <2>1. Emit(e) /\ e.kind \in attached
    BY <1>2
  <2> HIDE DEF e
  <2> QED
    BY <2>1 DEF Emit
<1>9. Birth(c)
  BY <1>1, <1>3, <1>4, <1>5, <1>6, <1>8 DEF Birth, Identity
<1> QED
  BY <1>4, <1>9 DEF InitRuns

LEMMA OthersBear ==
  ASSUME TypeInv, InitRuns, NEW t \in DOMAIN task,
         \/ Clone(t) \/ ExecFails(t) \/ ExecSucceeds(t) \/ Exit(t)
         \/ \E path \in Runs : SysEnterExecve(t, path)
  PROVE  1 \in DOMAIN task' /\ task'[1].tgid = 1 /\ SameProcesses
<1> DEFINE g == task[t].tgid
<1>1. last_start \in Nat
  BY SensorAssumption DEF TypeInv, KernelSound, KernelTyped
<1>2. g \in DOMAIN group /\ \A u \in DOMAIN group : group[u] \in [start : StartTimes, image : Names]
  BY TaskTyped DEF TypeInv, KernelSound, KernelTyped
<1>3. CASE Clone(t)
  <2>1. PICK c \in NextPids : NewTask(c, g)
    BY <1>3 DEF Clone
  <2>2. KernelTyped /\ g \in Tgids
    BY TaskTyped DEF TypeInv, KernelSound
  <2>3. DOMAIN task' = DOMAIN task \cup {c} /\ \A u \in DOMAIN task : task'[u] = task[u]
    BY <2>1, <2>2, NewTaskTyped
  <2>4. last_start =< last_start' /\ lineage' = lineage /\ group' = group
    BY <1>1, <1>3, <2>1 DEF NewTask, Clone
  <2> QED
    BY <2>3, <2>4 DEF InitRuns, SameProcesses
<1>4. CASE ExecFails(t) \/ \E path \in Runs : SysEnterExecve(t, path)
  <2>1. DOMAIN task' = DOMAIN task /\ \A u \in DOMAIN task : task'[u].tgid = task[u].tgid
    BY <1>4 DEF ExecFails, SysEnterExecve, TypeInv, KernelSound, KernelTyped
  <2>2. last_start' = last_start /\ lineage' = lineage /\ group' = group
    BY <1>4 DEF ExecFails, SysEnterExecve
  <2> QED
    BY <1>1, <2>1, <2>2 DEF InitRuns, SameProcesses
<1>5. CASE ExecSucceeds(t)
  <2>1. /\ DOMAIN task' = (DOMAIN task \ {t}) \cup {g} /\ task'[g].tgid = g
        /\ \A u \in DOMAIN task \ {t} : u # g => task'[u] = task[u]
    BY <1>5 DEF ExecSucceeds, Insert, Without
  <2>2. /\ last_start' = last_start /\ lineage' = lineage
        /\ group' = [group EXCEPT ![g].image = task[t].execing]
    BY <1>5 DEF ExecSucceeds
  <2>3. DOMAIN group' = DOMAIN group /\ \A u \in DOMAIN group : group'[u].start = group[u].start
    BY <1>2, <2>2
  <2>4. 1 \in DOMAIN task' /\ task'[1].tgid = 1
    BY <2>1 DEF InitRuns
  <2> QED
    BY <1>1, <2>2, <2>3, <2>4 DEF SameProcesses
<1>6. CASE Exit(t)
  <2>1. DOMAIN task' = DOMAIN task \ {t} /\ \A u \in DOMAIN task \ {t} : task'[u] = task[u]
    BY <1>6 DEF Exit, Without
  <2>2. /\ last_start' = last_start /\ lineage' = lineage /\ DOMAIN group' \subseteq DOMAIN group
        /\ \A u \in DOMAIN group' : group'[u] = group[u]
    BY <1>6 DEF Exit, Without
  <2>3. t # 1
    BY <1>6 DEF Exit
  <2> QED
    BY <1>1, <2>1, <2>2, <2>3 DEF InitRuns, SameProcesses
<1> QED
  BY <1>3, <1>4, <1>5, <1>6

LEMMA KernelBears ==
  ASSUME TypeInv, InitRuns, Kernel
  PROVE  /\ 1 \in DOMAIN task' /\ task'[1].tgid = 1
         /\ SameProcesses \/ \E c : Birth(c)
  BY ForkBears, OthersBear DEF Kernel

\* A birth adds one entry to the lineage, and it is right.
LEMMA BirthAdds ==
  ASSUME TypeInv, Past, PidsGivenOut, ~PidReuse, NEW c, Birth(c)
  PROVE  \E id, up : 
           /\ id.tgid = c /\ id.start_time = last_start + 1 /\ id \notin DOMAIN lineage
           /\ \A old \in DOMAIN lineage : old.tgid # c
           /\ up \in DOMAIN lineage /\ up.start_time < id.start_time
           /\ DOMAIN lineage' = DOMAIN lineage \cup {id} /\ lineage'[id] = up
           /\ \A old \in DOMAIN lineage : lineage'[old] = lineage[old]
<1>1. PICK g \in DOMAIN group :
        New(c) /\ lineage' = Insert(lineage, Id(c, last_start + 1), Identity(g))
  BY DEF Birth
<1> DEFINE id == Id(c, last_start + 1)
           up == Identity(g)
<1>2. id.tgid = c /\ id.start_time = last_start + 1
  BY DEF Id
<1>3. \A old \in DOMAIN lineage : old.tgid # c
  <2>1. last_pid < c /\ c \in Nat
    BY <1>1, ProcTableAssumption DEF New, Birth
  <2>2. \A old \in DOMAIN lineage : old.tgid \in Nat /\ old.tgid =< last_pid
    BY PidsAreNumbers DEF PidsGivenOut
  <2> QED
    BY <2>1, <2>2, PidsAreNumbers
<1>4. up \in DOMAIN lineage /\ up.start_time = group[g].start
  BY DEF TypeInv, KernelSound, Descended, Identity, Id
<1>5. group[g].start < last_start + 1
  <2>1. last_start \in Nat
    BY SensorAssumption DEF TypeInv, KernelSound, KernelTyped
  <2>2. group[g].start \in 1 .. last_start
    BY DEF Past, GroupStarts
  <2> QED
    BY <2>1, <2>2
<1> HIDE DEF id, up
<1>6. /\ DOMAIN lineage' = DOMAIN lineage \cup {id} /\ lineage'[id] = up
      /\ \A old \in DOMAIN lineage : old # id => lineage'[old] = lineage[old]
  BY <1>1 DEF Insert, id, up
<1> QED
  BY <1>2, <1>3, <1>4, <1>5, <1>6

LEMMA KernelKeepsPast ==
  ASSUME TypeInv, TypeInv', Past, PidsGivenOut, ~PidReuse, Kernel
  PROVE  /\ Past' /\ DOMAIN lineage \subseteq DOMAIN lineage'
         /\ \A id \in DOMAIN lineage : lineage'[id] = lineage[id]
<1>1. 1 \in DOMAIN task' /\ task'[1].tgid = 1 /\ (SameProcesses \/ \E c : Birth(c))
  BY KernelBears DEF Past
<1>2. last_start \in Nat /\ last_start' \in Nat
  BY SensorAssumption DEF TypeInv, KernelSound, KernelTyped
<1>3. CASE SameProcesses
  <2>1. GroupStarts'
    <3>1. \A t \in DOMAIN group' : group[t].start \in 1 .. last_start
      BY <1>3 DEF Past, GroupStarts, SameProcesses
    <3> QED
      BY <1>2, <1>3, <3>1 DEF GroupStarts, SameProcesses
  <2>2. lineage' = lineage
    BY <1>3 DEF SameProcesses
  <2>3. Older' /\ OneEach' /\ IsFiniteSet(DOMAIN lineage')
    BY <2>2 DEF Past, Older, OneEach
  <2>4. InitRuns'
    BY <1>1, <2>2 DEF Past, InitRuns
  <2> QED
    BY <2>1, <2>2, <2>3, <2>4 DEF Past
<1>4. ASSUME NEW c, Birth(c)
      PROVE  /\ Past' /\ DOMAIN lineage \subseteq DOMAIN lineage'
             /\ \A id \in DOMAIN lineage : lineage'[id] = lineage[id]
  <2>1. PICK id, up :
          /\ id.tgid = c /\ id.start_time = last_start + 1 /\ id \notin DOMAIN lineage
          /\ \A old \in DOMAIN lineage : old.tgid # c
          /\ up \in DOMAIN lineage /\ up.start_time < id.start_time
          /\ DOMAIN lineage' = DOMAIN lineage \cup {id} /\ lineage'[id] = up
          /\ \A old \in DOMAIN lineage : lineage'[old] = lineage[old]
    BY <1>4, BirthAdds
  <2>2. IsFiniteSet(DOMAIN lineage')
    BY <2>1, FS_AddElement DEF Past
  <2>3. Older' /\ OneEach' /\ InitRuns'
    BY <1>1, <2>1 DEF Past, Older, OneEach, InitRuns
  <2>4. GroupStarts'
    <3>1. /\ last_start' = last_start + 1 /\ DOMAIN group' = DOMAIN group \cup {c}
          /\ group'[c].start = last_start + 1
          /\ \A t \in DOMAIN group : group'[t].start = group[t].start
      BY <1>4 DEF Birth
    <3>2. \A t \in DOMAIN group : group[t].start \in 1 .. last_start
      BY DEF Past, GroupStarts
    <3> QED
      BY <1>2, <3>1, <3>2 DEF GroupStarts
  <2> QED
    BY <2>1, <2>2, <2>3, <2>4 DEF Past
<1> QED
  BY <1>1, <1>3, <1>4

--------------------------------------------------------------------------------
(* The invariant *)

\* A fork that waits in the ring comes before all other events of the child, and
\* what the table may know of it was read from /proc, under its start time.
ForkIsFresh ==
  \A i \in 1 .. Len(ring) : ring[i].kind = "fork" =>
    /\ ~Overwrites(ring[i].child)
    /\ \A j \in 1 .. i - 1 :
         /\ ring[j].tgid # ring[i].child
         /\ ring[j].kind = "fork" => ring[j].child # ring[i].child

\* The parent a record of a process names, or a fork in the ring will give it, is a
\* forebear.
KinTold ==
  /\ \A k \in DOMAIN nodes : Lived(lineage, k.tgid) /\ nodes[k].parent # NoKey =>
       KinOf(lineage, k.tgid, nodes[k].parent.tgid)
  /\ \A i \in 1 .. Len(ring) : ring[i].kind = "fork" /\ Lived(lineage, ring[i].child) =>
       KinOf(lineage, ring[i].child, ring[i].tgid)

\* As is the parent that was read.
ReadOf(t, info) ==
  /\ t \in Tgids /\ Lived(lineage, t) /\ info.start_time \in StartTimes /\ info.ppid \in Nat
  /\ info.ppid # 0 => KinOf(lineage, t, info.ppid)

Reading ==
  /\ stage \in {"attach", "read", "loop"}
  /\ At("attach") => cursor = 0
  /\ ~At("attach") => attached = Kinds
  /\ ~At("loop") => DOMAIN nodes = {} /\ DOMAIN by_tgid = {}
  /\ cursor \in Nat /\ horizon \in Nat
  /\ stat # NoStat => ReadOf(cursor, stat)
  /\ \A t \in DOMAIN procs : ReadOf(t, procs[t]) /\ procs[t] \in ProcInfo

\* No process that started after the horizon falls through: it is in the table, or was
\* read or will be, or its fork is in the ring.
ForkWaits(t) == \E i \in 1 .. Len(ring) : ring[i].kind = "fork" /\ ring[i].child = t

Covered(t) ==
  \/ ForkWaits(t)
  \/ At("loop") /\ t \in DOMAIN by_tgid
  \/ At("read") /\ t \in DOMAIN procs
  \/ At("read") /\ stat # NoStat /\ cursor = t
  \/ At("read") /\ t \in listed /\ t > cursor

AllCovered ==
  ~Lossy /\ "fork" \in attached =>
    \A t \in DOMAIN group : group[t].start > horizon => Covered(t)

StartupInv ==
  /\ TypeInv /\ Sound(nodes, by_tgid)
  /\ PidsGivenOut /\ ForkIsFresh /\ ExitIsLast
  /\ Past /\ KinTold /\ Reading /\ AllCovered

--------------------------------------------------------------------------------
(* The kernel runs on *)

LEMMA KernelKeepsFresh ==
  ASSUME ~PidReuse, TypeInv, PidsGivenOut, ForkIsFresh, TypeInv', UNCHANGED tableVars,
         NEW e \in Event, KernelStep(e)
  PROVE  ForkIsFresh'
<1>1. Grows(e) /\ nodes' = nodes
  BY DEF KernelStep, tableVars
<1>2. /\ Len(ring) \in Nat /\ Len(ring') \in Nat
      /\ \A i \in 1 .. Len(ring') :
           \/ i \in 1 .. Len(ring) /\ ring'[i] = ring[i]
           \/ i = Len(ring) + 1 /\ ring'[i] = e
  BY <1>1, OldOrNew
<1>3. e.kind = "fork" => last_pid < e.child /\ last_pid \in Nat /\ e.child \in Nat
  BY NewIsAbove, PidsAreNumbers DEF KernelStep
<1>4. ASSUME NEW i \in 1 .. Len(ring'), ring'[i].kind = "fork"
      PROVE  /\ Placeholder(ring'[i].child) \notin DOMAIN nodes'
             /\ \A j \in 1 .. i - 1 :
                  /\ ring'[j].tgid # ring'[i].child
                  /\ ring'[j].kind = "fork" => ring'[j].child # ring'[i].child
  <2>1. \A j \in 1 .. i - 1 : j \in 1 .. Len(ring) /\ j \in 1 .. Len(ring') /\ ring'[j] = ring[j]
    BY <1>2
  <2>2. CASE i \in 1 .. Len(ring) /\ ring'[i] = ring[i]
    BY <1>1, <1>4, <2>1, <2>2 DEF ForkIsFresh, Overwrites
  <2>3. CASE i = Len(ring) + 1 /\ ring'[i] = e
    <3>1. \A k \in DOMAIN nodes : k.tgid # e.child
      BY <1>3, <1>4, <2>3, PidsAreNumbers DEF PidsGivenOut
    <3>2. \A j \in 1 .. Len(ring) :
            ring[j].tgid # e.child /\ (ring[j].kind = "fork" => ring[j].child # e.child)
      BY <1>3, <1>4, <2>3, PidsAreNumbers DEF PidsGivenOut
    <3>3. Placeholder(e.child).tgid = e.child
      BY DEF Placeholder
    <3> QED
      BY <1>1, <2>1, <2>3, <3>1, <3>2, <3>3
  <2> QED
    BY <1>2, <2>2, <2>3
<1> QED
  BY <1>4 DEF ForkIsFresh, Overwrites

\* Nobody of before is born again, and the one that is has its forker for kin.
LEMMA KernelKeepsLived ==
  ASSUME ~PidReuse, TypeInv, TypeInv', PidsGivenOut, Past, Kernel, NEW e, KernelStep(e)
  PROVE  /\ \A t \in Nat : t =< last_pid /\ Lived(lineage', t) => Lived(lineage, t)
         /\ \A t : Lived(lineage, t) => Lived(lineage', t)
         /\ \A c, p : KinOf(lineage, c, p) => KinOf(lineage', c, p)
         /\ e.kind = "fork" /\ Lived(lineage', e.child) => KinOf(lineage', e.child, e.tgid)
<1>1. /\ Past' /\ DOMAIN lineage \subseteq DOMAIN lineage'
      /\ \A id \in DOMAIN lineage : lineage'[id] = lineage[id]
  BY KernelKeepsPast
<1>2. \A p \in Nat : p =< last_pid => ~New(p)
  BY NewIsAbove, PidsAreNumbers
<1>3. \A t \in Nat : t =< last_pid /\ Lived(lineage', t) => Lived(lineage, t)
  BY <1>2 DEF Lived, KernelStep
<1>4. ASSUME e.kind = "fork", Lived(lineage', e.child)
      PROVE  KinOf(lineage', e.child, e.tgid)
  <2>1. PICK id \in DOMAIN lineage' : id.tgid = e.child
    BY <1>4 DEF Lived
  <2>2. id \notin DOMAIN lineage
    <3>1. New(e.child)
      BY <1>4 DEF KernelStep
    <3>2. \A old \in DOMAIN lineage : ~New(old.tgid)
      BY <1>2, PidsAreNumbers DEF PidsGivenOut
    <3> QED
      BY <2>1, <3>1, <3>2
  <2>3. lineage'[id] \in DOMAIN lineage /\ lineage'[id].tgid = e.tgid
    BY <2>2 DEF KernelStep
  <2>4. lineage'[id] \in DOMAIN lineage' /\ lineage'[id] # NoKey
    BY <1>1, <2>3, LineageTyped
  <2>5. lineage'[id].start_time < id.start_time
    BY <1>1, <2>4 DEF Past, Older
  <2> DEFINE f == [i \in 0 .. 1 |-> IF i = 0 THEN id ELSE lineage'[id]]
  <2>6. f \in [0 .. 1 -> DOMAIN lineage'] /\ f[0] = id /\ f[1] = lineage'[id]
    BY <2>4
  <2>7. \A i \in 0 .. 1 - 1 : i = 0 /\ i + 1 = 1
    OBVIOUS
  <2> HIDE DEF f
  <2>8. Climbs(lineage', id, lineage'[id], 1)
    BY <2>6, <2>7 DEF Climbs
  <2> QED
    BY <2>1, <2>3, <2>4, <2>5, <2>8 DEF KinOf, Descends
<1> QED
  BY <1>1, <1>3, <1>4, KinLasts DEF Lived

LEMMA KernelKeepsKin ==
  ASSUME ~PidReuse, TypeInv, TypeInv', PidsGivenOut, Past, Kernel, UNCHANGED tableVars,
         KinTold, NEW e \in Event, KernelStep(e)
  PROVE  KinTold'
<1>1. nodes' = nodes /\ Grows(e)
  BY DEF tableVars, KernelStep
<1>2. /\ \A t \in Nat : t =< last_pid /\ Lived(lineage', t) => Lived(lineage, t)
      /\ \A c, p : KinOf(lineage, c, p) => KinOf(lineage', c, p)
      /\ e.kind = "fork" /\ Lived(lineage', e.child) => KinOf(lineage', e.child, e.tgid)
  BY KernelKeepsLived
<1>3. ASSUME NEW k \in DOMAIN nodes', Lived(lineage', k.tgid), nodes'[k].parent # NoKey
      PROVE  KinOf(lineage', k.tgid, nodes'[k].parent.tgid)
  <2>1. Lived(lineage, k.tgid)
    BY <1>1, <1>2, <1>3, PidsAreNumbers DEF PidsGivenOut
  <2> QED
    BY <1>1, <1>2, <1>3, <2>1 DEF KinTold
<1>4. ASSUME NEW i \in 1 .. Len(ring'), ring'[i].kind = "fork", Lived(lineage', ring'[i].child)
      PROVE  KinOf(lineage', ring'[i].child, ring'[i].tgid)
  <2>1. CASE i \in 1 .. Len(ring) /\ ring'[i] = ring[i]
    <3>1. Lived(lineage, ring[i].child)
      BY <1>2, <1>4, <2>1, PidsAreNumbers DEF PidsGivenOut
    <3> QED
      BY <1>2, <1>4, <2>1, <3>1 DEF KinTold
  <2>2. CASE ring'[i] = e
    BY <1>2, <1>4, <2>2
  <2> QED
    BY <1>1, <2>1, <2>2, OldOrNew
<1> QED
  BY <1>3, <1>4 DEF KinTold

LEMMA KernelKeepsCovered ==
  ASSUME TypeInv, Past, Kernel, UNCHANGED tableVars, UNCHANGED <<stage, readVars, horizon>>, Reading,
         AllCovered, NEW e \in Event, KernelStep(e)
  PROVE  AllCovered'
<1>1. /\ by_tgid' = by_tgid /\ stage' = stage /\ cursor' = cursor /\ listed' = listed
      /\ stat' = stat /\ procs' = procs /\ horizon' = horizon /\ attached' = attached
  BY DEF tableVars, readVars, Kernel
<1> SUFFICES ASSUME ~Lossy, "fork" \in attached, NEW t \in DOMAIN group',
                    group'[t].start > horizon
             PROVE  Covered(t)'
  BY <1>1 DEF AllCovered
<1>2. ring \in Seq(Event) /\ Len(ring) \in Nat
  BY DEF TypeInv, RingTyped
<1>3. \A u : ForkWaits(u) => ForkWaits(u)'
  <2>1. CASE ring' = ring
    BY <2>1 DEF ForkWaits
  <2>2. CASE ring' = Append(ring, e)
    <3>1. Len(ring') = Len(ring) + 1 /\ \A i \in 1 .. Len(ring) : ring'[i] = ring[i]
      BY <1>2, <2>2, Appended
    <3> QED
      BY <1>2, <3>1 DEF ForkWaits
  <2> QED
    BY <2>1, <2>2 DEF KernelStep, Grows
<1>4. CASE t \in DOMAIN group
  <2>1. group'[t].start = group[t].start
    BY <1>4, KernelBears DEF Past, SameProcesses, Birth
  <2>2. Covered(t)
    BY <1>4, <2>1 DEF AllCovered
  <2> QED
    BY <1>1, <1>3, <2>2 DEF Covered, At
<1>5. CASE t \notin DOMAIN group
  <2>1. PICK c : Birth(c)
    BY <1>5, KernelBears DEF Past, SameProcesses
  <2>2. t = c
    BY <1>5, <2>1 DEF Birth
  <2>3. PICK d \in Event : d.kind = "fork" /\ d.child = t /\ ring' = Append(ring, d)
    BY <2>1, <2>2 DEF Birth, ForkReported
  <2>4. Len(ring') = Len(ring) + 1 /\ ring'[Len(ring) + 1] = d
    BY <1>2, <2>3, Appended
  <2>5. ForkWaits(t)'
    <3>1. Len(ring) + 1 \in 1 .. Len(ring')
      BY <1>2, <2>4
    <3> QED
      BY <2>3, <2>4, <3>1 DEF ForkWaits
  <2> QED
    BY <2>5 DEF Covered
<1> QED
  BY <1>4, <1>5

LEMMA KernelKeepsStartup ==
  ASSUME ~PidReuse, StartupInv, Kernel, UNCHANGED <<stage, readVars, horizon>>
  PROVE  StartupInv'
<1>1. /\ TypeInv /\ Sound(nodes, by_tgid) /\ PidsGivenOut /\ ForkIsFresh /\ ExitIsLast
      /\ Past /\ KinTold /\ Reading /\ AllCovered
  BY DEF StartupInv
<1>2. TypeInv'
  BY <1>1, TypeInvStep DEF Next
<1>3. UNCHANGED tableVars /\ \E e \in Event : KernelStep(e)
  BY <1>1, KernelSteps DEF TypeInv
<1>4. nodes' = nodes /\ by_tgid' = by_tgid
  BY <1>3 DEF tableVars
<1>5. PICK e \in Event : KernelStep(e)
  BY <1>3
<1>6. PidsGivenOut' /\ ExitIsLast' /\ ForkIsFresh' /\ KinTold' /\ AllCovered'
  BY <1>1, <1>2, <1>3, <1>5, KernelKeepsPids, KernelKeepsExitLast, KernelKeepsFresh,
     KernelKeepsKin, KernelKeepsCovered
<1>7. Past'
  BY <1>1, <1>2, KernelKeepsPast
<1>8. Reading'
  <2>1. \A t, info : ReadOf(t, info) => ReadOf(t, info)'
    BY <1>1, <1>2, <1>5, KernelKeepsLived DEF ReadOf
  <2>2. attached' = attached
    BY DEF Kernel
  <2>3. /\ stage' = stage /\ cursor' = cursor /\ stat' = stat /\ procs' = procs
        /\ horizon' = horizon
    BY DEF readVars
  <2> QED
    BY <1>1, <1>4, <2>1, <2>2, <2>3 DEF Reading, At
<1> QED
  BY <1>1, <1>2, <1>4, <1>6, <1>7, <1>8 DEF StartupInv

--------------------------------------------------------------------------------
(* The event loop *)

\* What a step that leaves the kernel alone need not be asked about.
LEMMA KernelAlone ==
  ASSUME UNCHANGED kernelVars, Past, TypeInv
  PROVE  /\ Past' /\ lineage' = lineage /\ group' = group /\ task' = task
         /\ last_pid' = last_pid /\ attached' = attached /\ last_start' = last_start
<1>1. /\ lineage' = lineage /\ group' = group /\ task' = task
      /\ last_pid' = last_pid /\ attached' = attached /\ last_start' = last_start
  BY DEF kernelVars
<1> QED
  BY <1>1 DEF Past, Older, OneEach, InitRuns, GroupStarts

\* What the handler does to the domain of the index.
LEMMA ConsumeIndexes ==
  ASSUME RingTyped, Consume, NEW t,
         \/ t \in DOMAIN by_tgid /\ ~(Ends(Head(ring)) /\ Head(ring).tgid = t)
         \/ Head(ring).kind = "fork" /\ Head(ring).child = t
  PROVE  t \in DOMAIN by_tgid'
<1> DEFINE e == Head(ring)
<1>1. ring # <<>>
  BY DEF Consume, ConsumeFork, ConsumeExec, ConsumeProcExec, ConsumeExit, Take
<1>2. EventKey.tgid = e.tgid
  BY <1>1, EventKeyType
<1>3. CASE ConsumeFork
  BY <1>3 DEF ConsumeFork, OnFork, Insert
<1>4. CASE ConsumeExec \/ ConsumeProcExec
  <2>1. e.kind # "fork" /\ by_tgid' = EnsuredIndex(EventKey)
    BY <1>4 DEF ConsumeExec, ConsumeProcExec, Take, OnExec, OnProcExec
  <2> QED
    BY <2>1 DEF EnsuredIndex, Insert
<1>5. CASE ConsumeExit
  <2>1. e.kind = "exit" /\ (by_tgid' = by_tgid \/ (e.group_dead /\ by_tgid' = Without(by_tgid, {e.tgid})))
    BY <1>2, <1>5 DEF ConsumeExit, Take, OnExit, tableVars
  <2> QED
    BY <2>1 DEF Without, Ends
<1> QED
  BY <1>3, <1>4, <1>5 DEF Consume

LEMMA ConsumeKeepsFresh ==
  ASSUME TypeInv, ForkIsFresh, ring # <<>>, ring' = Tail(ring), Touched(nodes', Head(ring))
  PROVE  ForkIsFresh'
<1> DEFINE e == Head(ring)
<1>1. /\ Len(ring) \in Nat \ {0} /\ Len(ring') = Len(ring) - 1 /\ e = ring[1]
      /\ \A i \in 1 .. Len(ring') : i + 1 \in 1 .. Len(ring) /\ ring'[i] = ring[i + 1]
  BY OnePlaceNearer
<1> HIDE DEF e
<1>2. Touched(nodes', e)
  BY DEF e
<1> SUFFICES ASSUME NEW i \in 1 .. Len(ring'), ring'[i].kind = "fork"
             PROVE  /\ Placeholder(ring'[i].child) \notin DOMAIN nodes'
                    /\ \A j \in 1 .. i - 1 :
                         /\ ring'[j].tgid # ring'[i].child
                         /\ ring'[j].kind = "fork" => ring'[j].child # ring'[i].child
  BY DEF ForkIsFresh, Overwrites
<1>3. /\ Placeholder(ring'[i].child) \notin DOMAIN nodes
      /\ \A j \in 1 .. (i + 1) - 1 :
           /\ ring[j].tgid # ring'[i].child
           /\ ring[j].kind = "fork" => ring[j].child # ring'[i].child
  BY <1>1 DEF ForkIsFresh, Overwrites
<1>4. e.tgid # ring'[i].child /\ (e.kind = "fork" => e.child # ring'[i].child)
  <2>1. 1 \in 1 .. (i + 1) - 1
    BY <1>1
  <2> QED
    BY <1>1, <1>3, <2>1
<1>5. Placeholder(ring'[i].child) \notin DOMAIN nodes'
  <2>1. Placeholder(ring'[i].child).tgid = ring'[i].child
    BY DEF Placeholder
  <2> QED
    BY <1>2, <1>3, <1>4, <2>1 DEF Touched
<1>6. \A j \in 1 .. i - 1 : j + 1 \in 1 .. (i + 1) - 1 /\ ring'[j] = ring[j + 1]
  BY <1>1
<1> QED
  BY <1>3, <1>5, <1>6

LEMMA ConsumeKeepsKin ==
  ASSUME TypeInv, KinTold, lineage' = lineage, ring # <<>>, ring' = Tail(ring),
         Touched(nodes', Head(ring))
  PROVE  KinTold'
<1> DEFINE e == Head(ring)
<1>1. /\ e = ring[1] /\ 1 \in 1 .. Len(ring)
      /\ \A i \in 1 .. Len(ring') : i + 1 \in 1 .. Len(ring) /\ ring'[i] = ring[i + 1]
  BY OnePlaceNearer
<1> HIDE DEF e
<1>2. Touched(nodes', e)
  BY DEF e
<1>3. ASSUME NEW k \in DOMAIN nodes', Lived(lineage, k.tgid), nodes'[k].parent # NoKey
      PROVE  KinOf(lineage, k.tgid, nodes'[k].parent.tgid)
  <2>1. CASE \E m \in DOMAIN nodes :
               /\ m.tgid = k.tgid /\ nodes[m].parent # NoKey
               /\ nodes[m].parent.tgid = nodes'[k].parent.tgid
    <3>1. PICK m \in DOMAIN nodes :
            /\ m.tgid = k.tgid /\ nodes[m].parent # NoKey
            /\ nodes[m].parent.tgid = nodes'[k].parent.tgid
      BY <2>1
    <3>2. KinOf(lineage, m.tgid, nodes[m].parent.tgid)
      BY <1>3, <3>1 DEF KinTold
    <3> QED
      BY <3>1, <3>2
  <2>2. CASE e.kind = "fork" /\ k.tgid = e.child /\ nodes'[k].parent.tgid = e.tgid
    <3>1. KinOf(lineage, e.child, e.tgid)
      BY <1>1, <1>3, <2>2 DEF KinTold
    <3> QED
      BY <2>2, <3>1
  <2> QED
    BY <1>2, <1>3, <2>1, <2>2 DEF Touched
<1>4. ASSUME NEW i \in 1 .. Len(ring'), ring'[i].kind = "fork", Lived(lineage, ring'[i].child)
      PROVE  KinOf(lineage, ring'[i].child, ring'[i].tgid)
  BY <1>1, <1>4 DEF KinTold
<1> QED
  BY <1>3, <1>4 DEF KinTold

LEMMA ConsumeKeepsCovered ==
  ASSUME TypeInv, ExitIsLast, AllCovered, At("loop"), UNCHANGED <<stage, readVars, horizon>>,
         group' = group, attached' = attached, Consume, ring # <<>>, ring' = Tail(ring)
  PROVE  AllCovered'
<1> DEFINE e == Head(ring)
<1>1. stage' = stage
  OBVIOUS
<1> SUFFICES ASSUME ~Lossy, "fork" \in attached, NEW t \in DOMAIN group,
                    group[t].start > horizon
             PROVE  Covered(t)'
  BY DEF AllCovered
<1>2. /\ Len(ring) \in Nat \ {0} /\ Len(ring') = Len(ring) - 1 /\ e = ring[1]
      /\ 1 \in 1 .. Len(ring)
      /\ \A i \in 1 .. Len(ring') : i + 1 \in 1 .. Len(ring) /\ ring'[i] = ring[i + 1]
  BY OnePlaceNearer
<1> HIDE DEF e
<1>3. RingTyped /\ ~(Ends(e) /\ e.tgid = t)
  BY <1>2 DEF TypeInv, ExitIsLast
<1>4. Covered(t) /\ ~At("read") /\ ~At("attach")
  BY DEF AllCovered, At
<1>5. CASE t \in DOMAIN by_tgid \/ (e.kind = "fork" /\ e.child = t)
  <2>1. t \in DOMAIN by_tgid'
    BY <1>3, <1>5, ConsumeIndexes DEF e
  <2> QED
    BY <1>1, <2>1 DEF Covered, At
<1>6. ASSUME NEW i \in 1 .. Len(ring), ring[i].kind = "fork", ring[i].child = t, i # 1
      PROVE  ForkWaits(t)'
  <2>1. PICK p : p = i - 1
    OBVIOUS
  <2>2. p \in 1 .. Len(ring') /\ p + 1 = i
    BY <1>2, <1>6, <2>1
  <2>3. ring'[p] = ring[i]
    BY <1>2, <2>2
  <2> QED
    BY <1>6, <2>2, <2>3 DEF ForkWaits
<1> QED
  BY <1>2, <1>4, <1>5, <1>6 DEF Covered, ForkWaits

LEMMA LoopKeepsStartup ==
  ASSUME StartupInv, Loop, UNCHANGED <<stage, readVars, horizon>>
  PROVE  StartupInv'
<1>1. /\ TypeInv /\ Sound(nodes, by_tgid) /\ PidsGivenOut /\ ForkIsFresh /\ ExitIsLast
      /\ Past /\ KinTold /\ Reading /\ AllCovered /\ At("loop") /\ RingTyped
  BY DEF StartupInv, Loop, TypeInv
<1>2. TypeInv'
  BY <1>1, TypeInvStep DEF Loop, Next
<1>3. /\ stage' = stage /\ cursor' = cursor /\ stat' = stat /\ procs' = procs
      /\ horizon' = horizon
  BY DEF readVars
<1>4. UNCHANGED kernelVars => Reading'
  <2> SUFFICES ASSUME UNCHANGED kernelVars
               PROVE  Reading'
    OBVIOUS
  <2>1. lineage' = lineage /\ attached' = attached
    BY DEF kernelVars
  <2>2. \A t, info : ReadOf(t, info) => ReadOf(t, info)'
    BY <2>1 DEF ReadOf
  <2> QED
    BY <1>1, <1>3, <2>1, <2>2 DEF Reading, At
<1>5. CASE Consume
  <2>1. /\ ring # <<>> /\ ring' = Tail(ring) /\ UNCHANGED kernelVars
        /\ Touched(nodes', Head(ring))
    BY <1>1, <1>5, ConsumeTouched
  <2>2. Head(ring).kind = "fork" => ~Overwrites(Head(ring).child)
    BY <1>1, <2>1, OnePlaceNearer DEF ForkIsFresh
  <2>3. Sound(nodes', by_tgid')
    BY <1>1, <1>5, <2>2, ConsumeIsDisciplined, StepSound
  <2>4. Past' /\ lineage' = lineage /\ group' = group /\ attached' = attached
    BY <1>1, <2>1, KernelAlone
  <2>5. PidsGivenOut' /\ ExitIsLast'
    BY <1>1, <2>1, ConsumeKeepsPids, ConsumeKeepsExitLast
  <2>6. ForkIsFresh' /\ KinTold' /\ AllCovered'
    BY <1>1, <1>5, <2>1, <2>4, ConsumeKeepsFresh, ConsumeKeepsKin, ConsumeKeepsCovered
  <2> QED
    BY <1>2, <1>4, <2>1, <2>3, <2>4, <2>5, <2>6 DEF StartupInv
<1>6. CASE Expire \/ Tick
  <2>1. /\ UNCHANGED <<kernelVars, ring>> /\ DOMAIN nodes' \subseteq DOMAIN nodes
        /\ \A k \in DOMAIN nodes' :
             /\ nodes'[k].parent = nodes[k].parent
             /\ nodes'[k].exited_at # NotExited => nodes[k].exited_at # NotExited
    BY <1>1, <1>6, TimerTouched
  <2>2. DisciplinedNext /\ by_tgid' = by_tgid
    BY <1>6 DEF Expire, Tick, DisciplinedNext, Reap, Elapse
  <2>3. Sound(nodes', by_tgid')
    BY <1>1, <2>2, StepSound
  <2>4. /\ Past' /\ lineage' = lineage /\ group' = group /\ task' = task
        /\ last_pid' = last_pid /\ ring' = ring /\ attached' = attached
    BY <1>1, <2>1, KernelAlone
  <2>5. PidsGivenOut'
    BY <1>1, <2>1, <2>4 DEF PidsGivenOut
  <2>6. ExitIsLast'
    BY <1>1, <2>1, <2>4 DEF ExitIsLast
  <2>7. ForkIsFresh'
    BY <1>1, <2>1, <2>4 DEF ForkIsFresh, Overwrites
  <2>8. KinTold'
    BY <1>1, <2>1, <2>4 DEF KinTold
  <2>9. AllCovered'
    <3>1. \A t : Covered(t) /\ ~At("read") => Covered(t)'
      BY <1>3, <2>2, <2>4 DEF Covered, ForkWaits, At
    <3> QED
      BY <1>1, <1>3, <2>4, <3>1 DEF AllCovered, At
  <2> QED
    BY <1>2, <1>4, <2>1, <2>3, <2>4, <2>5, <2>6, <2>7, <2>8, <2>9 DEF StartupInv
<1> QED
  BY <1>5, <1>6 DEF Loop

--------------------------------------------------------------------------------
(* main() before the loop *)

\* What is true of the kernel, the table and the ring stays true when none of them
\* changes.
LEMMA QuietKeeps ==
  ASSUME StartupInv, Quiet, attached' \subseteq Kinds
  PROVE  /\ TypeInv' /\ Sound(nodes', by_tgid')
         /\ PidsGivenOut' /\ ForkIsFresh' /\ ExitIsLast' /\ Past' /\ KinTold'
<1>1. /\ TypeInv /\ Sound(nodes, by_tgid) /\ PidsGivenOut /\ ForkIsFresh /\ ExitIsLast
      /\ Past /\ KinTold
  BY DEF StartupInv
<1>2. /\ nodes' = nodes /\ by_tgid' = by_tgid /\ task' = task /\ group' = group
      /\ lineage' = lineage /\ last_start' = last_start /\ last_pid' = last_pid /\ ring' = ring
  BY DEF Quiet, tableVars
<1>3. KernelSound'
  BY <1>1, <1>2 DEF TypeInv, KernelSound, KernelTyped, Leaders, Descended, Identity
<1>4. TableTypeOK' /\ RingTyped'
  BY <1>1, <1>2 DEF TypeInv, TableTypeOK, RingTyped
<1>5. Past'
  BY <1>1, <1>2 DEF Past, Older, OneEach, InitRuns, GroupStarts
<1>6. PidsGivenOut' /\ ForkIsFresh'
  BY <1>1, <1>2 DEF PidsGivenOut, ForkIsFresh, Overwrites
<1>7. ExitIsLast' /\ KinTold'
  BY <1>1, <1>2 DEF ExitIsLast, KinTold
<1> QED
  BY <1>1, <1>2, <1>3, <1>4, <1>5, <1>6, <1>7 DEF TypeInv

\* There is a program left to attach as long as not all are.
LEMMA OneMore ==
  ASSUME attached \subseteq Kinds, attached # Kinds
  PROVE  KindsInOrder[Cardinality(attached) + 1] \in Kinds
<1>1. DOMAIN KindsInOrder = 1 .. 6
  BY DEF KindsInOrder
<1>2. IsFiniteSet(1 .. 6) /\ Cardinality(1 .. 6) = 6
  <2>1. 1 \in Int /\ 6 \in Int
    OBVIOUS
  <2>2. /\ IsFiniteSet(1 .. 6)
        /\ Cardinality(1 .. 6) = IF 1 > 6 THEN 0 ELSE 6 - 1 + 1
    BY <2>1, FS_Interval, Zenon
  <2> QED
    BY <2>2
<1> DEFINE f == [i \in 1 .. 6 |-> KindsInOrder[i]]
<1>3. f \in Surjection(1 .. 6, Kinds)
  BY <1>1 DEF Kinds, Surjection
<1> HIDE DEF f
<1>4. IsFiniteSet(Kinds) /\ Cardinality(Kinds) =< 6
  BY <1>2, <1>3, FS_Surjection
<1>5. Cardinality(Kinds) \in Nat
  BY <1>4, FS_CardinalityType
<1>6. /\ IsFiniteSet(attached) /\ Cardinality(attached) =< Cardinality(Kinds)
      /\ Cardinality(attached) # Cardinality(Kinds)
  BY <1>4, FS_Subset
<1>7. Cardinality(attached) \in Nat
  BY <1>6, FS_CardinalityType
<1>8. Cardinality(attached) + 1 \in 1 .. 6
  BY <1>4, <1>5, <1>6, <1>7
<1> QED
  BY <1>1, <1>8 DEF Kinds

LEMMA AttachKeeps ==
  ASSUME StartupInv, Attach
  PROVE  StartupInv'
<1>1. Quiet /\ attached' \subseteq Kinds
  BY OneMore DEF Attach, StartupInv, TypeInv, KernelSound, KernelTyped
<1>2. /\ stage' = stage /\ At("attach") /\ cursor' = cursor /\ stat' = stat /\ procs' = procs
      /\ lineage' = lineage /\ nodes' = nodes /\ by_tgid' = by_tgid
  BY DEF Attach, readVars, Quiet, tableVars
<1>3. Reading /\ AllCovered /\ GroupStarts /\ stage = "attach"
  BY <1>2 DEF StartupInv, At, Past
<1>4. \A t, info : ReadOf(t, info) => ReadOf(t, info)'
  BY <1>2 DEF ReadOf
<1>5. group' = group /\ ring' = ring /\ listed' = listed /\ last_start \in Nat
  BY SensorAssumption
     DEF Attach, readVars, Quiet, StartupInv, TypeInv, KernelSound, KernelTyped
<1> DEFINE kind == KindsInOrder[Cardinality(attached) + 1]
<1>6. /\ attached' = attached \cup {kind}
      /\ horizon' = IF kind = "fork" THEN last_start ELSE horizon
  BY DEF Attach
<1> HIDE DEF kind
<1>7. Reading'
  BY <1>2, <1>3, <1>4, <1>5, <1>6 DEF Reading, At
<1>8. AllCovered'
  <2>1. CASE kind = "fork"
    <3>1. \A t \in DOMAIN group : ~(group[t].start > last_start)
      BY <1>3, <1>5 DEF GroupStarts
    <3> QED
      BY <1>5, <1>6, <2>1, <3>1 DEF AllCovered
  <2>2. CASE kind # "fork"
    BY <1>2, <1>3, <1>5, <1>6, <2>2 DEF AllCovered, Covered, ForkWaits, At
  <2> QED
    BY <2>1, <2>2
<1> QED
  BY <1>1, <1>7, <1>8, QuietKeeps DEF StartupInv

LEMMA OpenProcKeeps ==
  ASSUME StartupInv, OpenProc
  PROVE  StartupInv'
<1>1. /\ Quiet /\ attached' \subseteq Kinds /\ attached' = Kinds /\ stage' = "read"
      /\ listed' = DOMAIN group /\ stage = "attach" /\ horizon' = 0
  BY DEF OpenProc, Follows, At
<1>2. /\ cursor' = cursor /\ stat' = stat /\ procs' = procs
      /\ lineage' = lineage /\ nodes' = nodes /\ by_tgid' = by_tgid /\ group' = group
  BY DEF OpenProc, Quiet, tableVars
<1>3. Reading /\ cursor = 0 /\ DOMAIN nodes = {} /\ DOMAIN by_tgid = {}
  BY <1>1 DEF StartupInv, Reading, At
<1>4. \A t, info : ReadOf(t, info) => ReadOf(t, info)'
  BY <1>2 DEF ReadOf
<1>5. Reading'
  BY <1>1, <1>2, <1>3, <1>4 DEF Reading, At
<1>6. \A t \in DOMAIN group : t > 0
  BY ProcTableAssumption, PidsAreNumbers DEF StartupInv, TypeInv, KernelSound, KernelTyped
<1>7. AllCovered'
  BY <1>1, <1>2, <1>3, <1>6 DEF AllCovered, Covered, At
<1> QED
  BY <1>1, <1>5, <1>7, QuietKeeps DEF StartupInv

LEMMA OpenProcFailsKeeps ==
  ASSUME StartupInv, OpenProcFails
  PROVE  StartupInv'
<1>1. /\ Quiet /\ attached' = Kinds /\ attached = Kinds /\ stage' = "loop" /\ stage = "attach"
      /\ horizon' = horizon
  BY DEF OpenProcFails, Follows, At
<1>2. /\ cursor' = cursor /\ stat' = stat /\ procs' = procs /\ ring' = ring
      /\ lineage' = lineage /\ nodes' = nodes /\ by_tgid' = by_tgid /\ group' = group
  BY DEF OpenProcFails, Quiet, tableVars, readVars
<1>3. Reading /\ AllCovered
  BY DEF StartupInv
<1>4. \A t, info : ReadOf(t, info) => ReadOf(t, info)'
  BY <1>2 DEF ReadOf
<1>5. Reading'
  BY <1>1, <1>2, <1>3, <1>4 DEF Reading, At
<1>6. AllCovered'
  <2>1. \A t : Covered(t) => Covered(t)'
    BY <1>1, <1>2 DEF Covered, ForkWaits, At
  <2> QED
    BY <1>1, <1>2, <1>3, <2>1 DEF AllCovered
<1> QED
  BY <1>1, <1>5, <1>6, QuietKeeps DEF StartupInv

\* The parent that /proc reports is a forebear.
LEMMA PpidIsKin ==
  ASSUME TypeInv, Past, NEW t \in DOMAIN group
  PROVE  Ppid(t) \in Nat /\ (Ppid(t) # 0 => KinOf(lineage, t, Ppid(t)))
<1> DEFINE id == Identity(t)
           forker == lineage[id]
<1>1. id \in DOMAIN lineage /\ id.tgid = t
  BY DEF TypeInv, KernelSound, Descended, Identity, Id
<1>2. /\ id = Root /\ forker = NoKey
      \/ /\ id # Root /\ forker \in DOMAIN lineage /\ forker.start_time < id.start_time
  BY <1>1 DEF Past, Older
<1>3. Root \in DOMAIN lineage /\ Root.tgid = 1
  BY SensorAssumption, BootIds DEF Past, InitRuns, Root
<1> HIDE DEF id
<1>4. CASE forker = NoKey
  BY <1>4 DEF Ppid, id
<1>5. CASE forker # NoKey
  <2>1. id # Root /\ forker \in DOMAIN lineage /\ forker.start_time < id.start_time
    BY <1>2, <1>5
  <2>2. KinOf(lineage, t, forker.tgid)
    BY <1>1, <2>1, ForkerIsKin
  <2>3. KinOf(lineage, t, 1)
    BY <1>1, <1>3, <2>1, InitIsKin DEF Past
  <2>4. Ppid(t) = forker.tgid \/ Ppid(t) = 1
    BY <1>5 DEF Ppid, id
  <2>5. forker.tgid \in Nat
    BY <2>1, PidsAreNumbers
  <2> QED
    BY <2>2, <2>3, <2>4, <2>5
<1> QED
  BY <1>4, <1>5

LEMMA ReadStatKeeps ==
  ASSUME StartupInv, ReadStat
  PROVE  StartupInv'
<1>1. PICK t \in Upcoming :
        cursor' = t /\ stat' = [ppid |-> Ppid(t), start_time |-> Ticks[group[t].start]]
  BY DEF ReadStat
<1>2. /\ Quiet /\ attached' = attached /\ stage' = stage /\ procs' = procs /\ listed' = listed
      /\ lineage' = lineage /\ nodes' = nodes /\ by_tgid' = by_tgid /\ group' = group
      /\ ring' = ring /\ horizon' = horizon /\ At("read") /\ stat = NoStat
  BY DEF ReadStat, Quiet, tableVars
<1>3. Reading /\ AllCovered /\ TypeInv /\ Past /\ attached \subseteq Kinds
  BY DEF StartupInv, TypeInv, KernelSound, KernelTyped
<1>4. t \in DOMAIN group /\ t > cursor /\ \A u \in listed \cap DOMAIN group : u > cursor => t =< u
  BY DEF Upcoming
<1>5. t \in Tgids /\ t \in Nat /\ cursor \in Nat
  BY <1>3, <1>4, PidsAreNumbers DEF TypeInv, KernelSound, KernelTyped, Reading
<1>6. ReadOf(t, stat')
  <2>1. group[t].start \in 1 .. MaxStart
    BY <1>3, <1>4, SensorAssumption DEF Past, GroupStarts, TypeInv, KernelSound, KernelTyped
  <2>2. Ticks[group[t].start] \in StartTimes
    BY <2>1, StartupAssumption
  <2>3. Lived(lineage, t)
    BY <1>3, <1>4 DEF Lived, TypeInv, KernelSound, Descended, Identity, Id
  <2>4. Ppid(t) \in Nat /\ (Ppid(t) # 0 => KinOf(lineage, t, Ppid(t)))
    BY <1>3, <1>4, PpidIsKin
  <2>5. stat'.ppid = Ppid(t) /\ stat'.start_time = Ticks[group[t].start]
    BY <1>1
  <2> HIDE DEF Ppid
  <2> QED
    BY <1>2, <1>5, <2>2, <2>3, <2>4, <2>5 DEF ReadOf
<1>7. Reading'
  <2>1. \A u, info : ReadOf(u, info) => ReadOf(u, info)'
    BY <1>2 DEF ReadOf
  <2>2. cursor' = t
    BY <1>1
  <2> QED
    BY <1>2, <1>3, <1>5, <1>6, <2>1, <2>2 DEF Reading, ReadOf, At
<1>8. AllCovered'
  <2> SUFFICES ASSUME ~Lossy, "fork" \in attached, NEW u \in DOMAIN group,
                      group[u].start > horizon
               PROVE  Covered(u)'
    BY <1>2 DEF AllCovered
  <2>1. Covered(u) /\ ~At("attach")
    BY <1>2, <1>3 DEF AllCovered, At
  <2>2. stat' # NoStat
    <3>1. DOMAIN stat' = {"ppid", "start_time"} /\ DOMAIN NoStat = {}
      BY <1>1 DEF NoStat
    <3> QED
      BY <3>1
  <2>3. CASE u = t
    BY <1>1, <1>2, <2>2, <2>3 DEF Covered, At
  <2>4. CASE u # t
    <3>1. u \in Nat
      BY <1>3, PidsAreNumbers
    <3>2. u \in listed /\ u > cursor => u > t
      BY <1>4, <1>5, <2>4, <3>1
    <3>3. At("read")'
      BY <1>2 DEF At
    <3> QED
      BY <1>1, <1>2, <2>1, <3>2, <3>3 DEF Covered, ForkWaits, At
  <2> QED
    BY <2>3, <2>4
<1> QED
  BY <1>2, <1>3, <1>7, <1>8, QuietKeeps DEF StartupInv

LEMMA ReadNamesKeeps ==
  ASSUME StartupInv, ReadNames
  PROVE  StartupInv'
<1> DEFINE name == IF cursor \in DOMAIN group THEN group[cursor].image ELSE NoName
           info == [ppid |-> stat.ppid, start_time |-> stat.start_time,
                    comm |-> name, exe |-> name, args |-> name]
<1>1. procs' = Insert(procs, cursor, info) /\ stat' = NoStat /\ At("read") /\ stat # NoStat
  BY DEF ReadNames
<1>2. /\ Quiet /\ attached' = attached /\ stage' = stage /\ cursor' = cursor /\ listed' = listed
      /\ lineage' = lineage /\ nodes' = nodes /\ by_tgid' = by_tgid /\ group' = group
      /\ ring' = ring /\ horizon' = horizon
  BY DEF ReadNames, Quiet, tableVars
<1>3. Reading /\ AllCovered /\ TypeInv /\ attached \subseteq Kinds /\ ReadOf(cursor, stat)
  BY <1>1 DEF StartupInv, TypeInv, KernelSound, KernelTyped, Reading
<1>4. name \in Names \cup {NoName}
  BY <1>3 DEF TypeInv, KernelSound, KernelTyped
<1> HIDE DEF name
<1>5. /\ info.ppid = stat.ppid /\ info.start_time = stat.start_time /\ info \in ProcInfo
  BY <1>3, <1>4 DEF ReadOf, ProcInfo
<1> HIDE DEF info
<1>6. \A t \in DOMAIN procs' : ReadOf(t, procs'[t]) /\ procs'[t] \in ProcInfo
  <2>1. ReadOf(cursor, info)
    BY <1>3, <1>5 DEF ReadOf
  <2> QED
    BY <1>1, <1>3, <1>5, <2>1 DEF Insert, Reading
<1>7. Reading'
  <2>1. \A t, i : ReadOf(t, i) => ReadOf(t, i)'
    BY <1>2 DEF ReadOf
  <2>2. /\ stage' \in {"attach", "read", "loop"} /\ stage' = "read" /\ attached' = Kinds
        /\ DOMAIN nodes' = {} /\ DOMAIN by_tgid' = {} /\ cursor' \in Nat /\ horizon' \in Nat
    BY <1>1, <1>2, <1>3 DEF Reading, At
  <2> QED
    BY <1>1, <1>2, <1>6, <2>2 DEF Reading, ReadOf, At
<1>8. AllCovered'
  <2>1. DOMAIN procs' = DOMAIN procs \cup {cursor}
    BY <1>1 DEF Insert
  <2> QED
    BY <1>1, <1>2, <1>3, <2>1 DEF AllCovered, Covered, ForkWaits, At
<1> QED
  BY <1>2, <1>3, <1>7, <1>8, QuietKeeps DEF StartupInv

\* What was read is a tree: of any set of processes, the parent that was read for
\* the oldest is not in it.
LEMMA ReadIsATree ==
  ASSUME TypeInv, Past, Reading, NEW S \in SUBSET DOMAIN procs, S # {}
  PROVE  \E t \in S : procs[t].ppid \notin S
<1> DEFINE ids == {id \in DOMAIN lineage : id.tgid \in S}
           starts == {id.start_time : id \in ids}
<1>1. \A t \in S : ReadOf(t, procs[t]) /\ t # 0
  BY ProcTableAssumption DEF Reading, ReadOf
<1>2. starts \subseteq Nat /\ starts # {}
  <2>1. PICK t \in S : Lived(lineage, t)
    BY <1>1 DEF ReadOf
  <2> QED
    BY <2>1, LineageTyped DEF Lived
<1>3. PICK s \in starts : \A r \in starts : s =< r
  <2> HIDE DEF starts
  <2> QED
    BY <1>2, LeastNumber
<1>4. PICK id \in ids : id.start_time = s
  BY <1>3
<1>5. id.tgid \in S /\ id \in DOMAIN lineage
  BY <1>4
<1> SUFFICES ASSUME procs[id.tgid].ppid \in S PROVE FALSE
  BY <1>5
<1>6. KinOf(lineage, id.tgid, procs[id.tgid].ppid)
  BY <1>1, <1>5 DEF ReadOf
<1>7. PICK a \in DOMAIN lineage : a.tgid = procs[id.tgid].ppid /\ a.start_time < id.start_time
  BY <1>5, <1>6 DEF KinOf, Descends, Past, OneEach
<1>8. a.start_time \in starts
  BY <1>7
<1> QED
  BY <1>3, <1>4, <1>5, <1>7, <1>8, LineageTyped

LEMMA SeedKeeps ==
  ASSUME StartupInv, Seed
  PROVE  StartupInv'
<1>1. /\ nodes' = SeededFrom(procs) /\ by_tgid' = IndexFrom(procs) /\ stage' = "loop"
      /\ cursor' = 0 /\ listed' = {} /\ procs' = <<>> /\ UNCHANGED kernelVars
      /\ ring' = ring /\ stat' = stat /\ horizon' = horizon /\ At("read") /\ stat = NoStat
      /\ \A u \in listed \cap DOMAIN group : u =< cursor
  BY DEF Seed, Follows
<1>2. /\ TypeInv /\ PidsGivenOut /\ ForkIsFresh /\ ExitIsLast /\ Past /\ KinTold /\ Reading
      /\ AllCovered
  BY DEF StartupInv
<1>3. /\ Past' /\ lineage' = lineage /\ group' = group /\ task' = task
      /\ last_pid' = last_pid /\ attached' = attached /\ last_start' = last_start
  BY <1>1, <1>2, KernelAlone
<1>4. \A t \in DOMAIN procs : ReadOf(t, procs[t]) /\ procs[t] \in ProcInfo
  BY <1>2 DEF Reading
<1>5. Sound(nodes', by_tgid')
  <2>1. DOMAIN procs \subseteq Tgids
    BY <1>4 DEF ReadOf
  <2>2. \A S \in SUBSET DOMAIN procs : S # {} => \E t \in S : procs[t].ppid \notin S
    BY <1>2, ReadIsATree
  <2> QED
    BY <1>1, <1>4, <2>1, <2>2, SeedSound
<1>6. TypeInv'
  <2>1. TableTypeOK'
    BY <1>5 DEF Sound, TableTypeOK, Typed, IndexTyped
  <2>2. KernelSound'
    BY <1>2, <1>3 DEF TypeInv, KernelSound, KernelTyped, Leaders, Descended, Identity
  <2>3. RingTyped'
    BY <1>1, <1>2 DEF TypeInv, RingTyped
  <2> QED
    BY <2>1, <2>2, <2>3 DEF TypeInv
<1> DEFINE Key(t) == SeedKeyIn(procs, t)
<1>7. \A t : Key(t).tgid = t /\ Key(t).start_time = procs[t].start_time
  BY DEF SeedKeyIn
<1>8. /\ DOMAIN nodes' = {Key(t) : t \in DOMAIN procs} /\ DOMAIN by_tgid' = DOMAIN procs
      /\ \A t \in DOMAIN procs :
           /\ nodes'[Key(t)].parent = IF procs[t].ppid \in DOMAIN procs
                                      THEN Key(procs[t].ppid) ELSE NoKey
           /\ nodes'[Key(t)].exited_at = NotExited
  BY <1>1, <1>7 DEF SeededFrom, IndexFrom
<1> HIDE DEF Key
<1>9. ASSUME NEW k \in DOMAIN nodes'
      PROVE  /\ k.tgid \in DOMAIN procs /\ Lived(lineage, k.tgid) /\ k.start_time # 0
             /\ nodes'[k].exited_at = NotExited
             /\ nodes'[k].parent # NoKey => KinOf(lineage, k.tgid, nodes'[k].parent.tgid)
  <2>1. PICK t \in DOMAIN procs : k = Key(t)
    BY <1>8
  <2>2. ReadOf(t, procs[t]) /\ k.tgid = t /\ k.start_time = procs[t].start_time
    BY <1>4, <1>7, <2>1
  <2>3. k.start_time # 0
    BY <2>2, ProcTableAssumption DEF ReadOf
  <2>4. ASSUME nodes'[k].parent # NoKey
        PROVE  KinOf(lineage, t, nodes'[k].parent.tgid)
    <3>1. procs[t].ppid \in DOMAIN procs /\ nodes'[k].parent.tgid = procs[t].ppid
      BY <1>7, <1>8, <2>1, <2>4
    <3>2. procs[t].ppid # 0
      BY <1>4, <3>1, ProcTableAssumption DEF ReadOf
    <3> QED
      BY <2>2, <3>1, <3>2 DEF ReadOf
  <2> QED
    BY <1>8, <2>1, <2>2, <2>3, <2>4 DEF ReadOf
<1>10. PidsGivenOut'
  <2>1. \A k \in DOMAIN nodes' : k.tgid =< last_pid
    BY <1>2, <1>9 DEF PidsGivenOut, Lived
  <2> QED
    BY <1>1, <1>2, <1>3, <2>1 DEF PidsGivenOut
<1>11. ForkIsFresh'
  <2>1. \A c : Placeholder(c) \notin DOMAIN nodes'
    BY <1>9 DEF Placeholder
  <2> QED
    BY <1>1, <1>2, <2>1 DEF ForkIsFresh, Overwrites
<1>12. ExitIsLast'
  BY <1>1, <1>2, <1>3, <1>9 DEF ExitIsLast
<1>13. KinTold'
  BY <1>1, <1>2, <1>3, <1>9 DEF KinTold
<1>14. Reading'
  <2>1. /\ stat' = NoStat /\ DOMAIN procs' = {} /\ attached' = Kinds
        /\ horizon' = horizon /\ horizon \in Nat
    BY <1>1, <1>2, <1>3 DEF Reading, At
  <2> QED
    BY <1>1, <2>1 DEF Reading, At
<1>15. AllCovered'
  <2> SUFFICES ASSUME ~Lossy, "fork" \in attached, NEW t \in DOMAIN group,
                      group[t].start > horizon
               PROVE  Covered(t)'
    BY <1>1, <1>3 DEF AllCovered
  <2>1. Covered(t) /\ stage = "read"
    BY <1>1, <1>2 DEF AllCovered, At
  <2>2. ~(t \in listed /\ t > cursor)
    <3>1. t \in Nat /\ cursor \in Nat
      BY <1>2, PidsAreNumbers DEF Reading
    <3> QED
      BY <1>1, <3>1
  <2> QED
    BY <1>1, <1>8, <2>1, <2>2 DEF Covered, ForkWaits, At
<1> QED
  BY <1>3, <1>5, <1>6, <1>10, <1>11, <1>12, <1>13, <1>14, <1>15 DEF StartupInv

LEMMA StartupInvStep ==
  ASSUME ~PidReuse, StartupInv, [StartupNext]_startupVars
  PROVE  StartupInv'
<1>1. CASE StartupNext
  BY <1>1, KernelKeepsStartup, LoopKeepsStartup, AttachKeeps, OpenProcKeeps, OpenProcFailsKeeps,
     ReadStatKeeps, ReadNamesKeeps, SeedKeeps DEF StartupNext
<1>2. CASE UNCHANGED startupVars
  <2>1. /\ Quiet /\ attached' = attached /\ stage' = stage /\ cursor' = cursor
        /\ listed' = listed /\ stat' = stat /\ procs' = procs /\ horizon' = horizon
    BY <1>2 DEF startupVars, vars, kernelVars, Quiet
  <2>2. /\ lineage' = lineage /\ nodes' = nodes /\ by_tgid' = by_tgid /\ group' = group
        /\ ring' = ring
    BY <2>1 DEF Quiet, tableVars
  <2>3. Reading /\ AllCovered /\ attached' \subseteq Kinds
    BY <2>1 DEF StartupInv, TypeInv, KernelSound, KernelTyped
  <2>4. \A t, info : ReadOf(t, info) => ReadOf(t, info)'
    BY <2>2 DEF ReadOf
  <2>5. Reading'
    BY <2>1, <2>2, <2>3, <2>4 DEF Reading, At
  <2>6. AllCovered'
    BY <2>1, <2>2, <2>3 DEF AllCovered, Covered, ForkWaits, At
  <2> QED
    BY <2>1, <2>3, <2>5, <2>6, QuietKeeps DEF StartupInv
<1> QED
  BY <1>1, <1>2

--------------------------------------------------------------------------------
(* The start *)

LEMMA StartupInvStarts == StartupInit => StartupInv
<1> SUFFICES ASSUME StartupInit
             PROVE  StartupInv
  OBVIOUS
<1>1. /\ TableInit /\ KernelInit /\ attached = {} /\ ring = <<>> /\ stage = "attach" /\ cursor = 0
      /\ stat = NoStat /\ DOMAIN procs = {} /\ horizon = 0
  BY DEF StartupInit
<1>2. /\ KernelSound
      /\ DOMAIN lineage = {BootId(t) : t \in DOMAIN Boot}
      /\ \A t \in DOMAIN Boot : t =< last_pid /\ lineage[BootId(t)] = BootId(Boot[t].ppid)
      /\ DOMAIN task = DOMAIN Boot /\ \A t \in DOMAIN task : task[t].tgid = t
  BY <1>1, KernelInitSound
<1>3. DOMAIN group = DOMAIN Boot /\ \A t \in DOMAIN Boot : group[t].start = Boot[t].start
  BY <1>1 DEF KernelInit
<1>4. Sound(nodes, by_tgid) /\ DOMAIN nodes = {} /\ DOMAIN by_tgid = {}
  BY <1>1, SeededSound, StartupAssumption DEF TableInit, SeededFrom, IndexFrom
<1>5. TypeInv
  <2>1. RingTyped
    BY <1>1, SensorAssumption DEF RingTyped
  <2> QED
    BY <1>2, <1>4, <2>1 DEF TypeInv, Sound, TableTypeOK, Typed, IndexTyped
<1>6. Older
  <2>1. ASSUME NEW t \in DOMAIN Boot
        PROVE  LET id == BootId(t) IN
                 \/ id = Root /\ lineage[id] = NoKey
                 \/ /\ id # Root /\ lineage[id] \in DOMAIN lineage
                    /\ lineage[id].start_time < id.start_time
    <3>1. CASE t = 1
      BY <1>2, <3>1, StartupAssumption DEF Root, BootId
    <3>2. CASE t # 1
      <4>1. /\ Boot[t].ppid \in DOMAIN Boot /\ 1 \in DOMAIN Boot
            /\ Boot[Boot[t].ppid].start < Boot[t].start
        BY <3>2, StartupAssumption, SensorAssumption
      <4>2. BootId(t) # Root
        BY <3>2, <4>1, BootIds DEF Root
      <4>3. /\ lineage[BootId(t)] = BootId(Boot[t].ppid)
            /\ BootId(Boot[t].ppid) \in DOMAIN lineage
        BY <1>2, <4>1
      <4>4. /\ BootId(Boot[t].ppid).start_time = Boot[Boot[t].ppid].start
            /\ BootId(t).start_time = Boot[t].start
        BY <4>1, BootIds DEF Id
      <4> QED
        BY <4>1, <4>2, <4>3, <4>4
    <3> QED
      BY <3>1, <3>2
  <2> QED
    BY <1>2, <2>1 DEF Older
<1>7. OneEach
  BY <1>2, BootIds DEF OneEach
<1>8. InitRuns
  BY <1>2, SensorAssumption DEF InitRuns, Root
<1>9. GroupStarts
  <2>1. \A t \in DOMAIN Boot : Boot[t].start \in 1 .. MaxStart /\ Boot[t].start =< last_start
    BY <1>1, BootIsPast, SensorAssumption
  <2>2. last_start \in Nat
    BY <1>2, SensorAssumption DEF KernelSound, KernelTyped
  <2> QED
    BY <1>3, <2>1, <2>2, SensorAssumption DEF GroupStarts
<1>10. Past
  BY <1>2, <1>6, <1>7, <1>8, <1>9, BootIsFinite DEF Past
<1>11. Len(ring) = 0
  BY <1>1
<1>12. PidsGivenOut
  BY <1>2, <1>4, <1>11, BootIds DEF PidsGivenOut
<1>13. ForkIsFresh /\ ExitIsLast /\ KinTold
  BY <1>4, <1>11 DEF ForkIsFresh, ExitIsLast, KinTold
<1>14. Reading /\ AllCovered
  BY <1>1, <1>4 DEF Reading, AllCovered, At
<1> QED
  BY <1>4, <1>5, <1>10, <1>12, <1>13, <1>14 DEF StartupInv

--------------------------------------------------------------------------------
(* What starting promises *)

\* Wherever the agent is in its start, the table is well-typed and a forest.
THEOREM StartupKeepsForest ==
  ASSUME ~PidReuse PROVE StartupSpec => [](TableTypeOK /\ LinksAgree /\ IndexAgrees /\ Acyclic)
<1>1. StartupInit => StartupInv
  BY StartupInvStarts
<1>2. StartupInv /\ [StartupNext]_startupVars => StartupInv'
  BY StartupInvStep
<1>3. StartupInv => TableTypeOK /\ LinksAgree /\ IndexAgrees /\ Acyclic
  BY InvIsSound DEF StartupInv, TableInv, Forest
<1> QED
  BY <1>1, <1>2, <1>3, PTL DEF StartupSpec

\* Once the events are applied, whoever runs has a record that is not a tombstone; if
\* /proc could not be opened, whoever started once the program for forks was attached.
THEOREM EveryoneIsKnown ==
  ASSUME ~PidReuse, ~Lossy PROVE StartupSpec => []EveryoneKnown
<1>1. StartupInit => StartupInv
  BY StartupInvStarts
<1>2. StartupInv /\ [StartupNext]_startupVars => StartupInv'
  BY StartupInvStep
<1>3. StartupInv => EveryoneKnown
  <2> SUFFICES ASSUME StartupInv, At("loop"), ring = <<>>, NEW t \in DOMAIN group,
                      group[t].start > horizon
               PROVE  LET k == Resolve(Identity(t)) IN
                        k # NoKey /\ k.tgid = t /\ nodes[k].exited_at = NotExited
    BY DEF EveryoneKnown, Settled, CaughtUp
  <2>1. Sound(nodes, by_tgid) /\ ExitIsLast /\ AllCovered /\ NoKey \notin DOMAIN nodes
    BY ProcTableAssumption DEF StartupInv, Sound, Typed
  <2>2. ~ForkWaits(t)
    BY DEF ForkWaits
  <2>3. t \in DOMAIN by_tgid
    <3>1. attached = Kinds /\ "fork" \in Kinds
      BY KindsAre DEF StartupInv, Reading, At
    <3> QED
      BY <2>1, <2>2, <3>1 DEF AllCovered, Covered, At
  <2>4. by_tgid[t] \in DOMAIN nodes /\ by_tgid[t].tgid = t
    BY <2>1, <2>3 DEF Sound, Index, IndexTyped
  <2>5. Identity(t).tgid = t
    BY DEF Identity, Id
  <2>6. Resolve(Identity(t)) \in DOMAIN nodes /\ Resolve(Identity(t)).tgid = t
    BY <2>3, <2>4, <2>5 DEF Resolve, Newest
  <2> QED
    BY <2>1, <2>6 DEF ExitIsLast
<1> QED
  BY <1>1, <1>2, <1>3, PTL DEF StartupSpec

--------------------------------------------------------------------------------
(* The ancestors named *)

\* Up a climb the processes get older, so that none comes twice and the climb is no
\* longer than the lineage has entries.
LEMMA ClimbIsShort ==
  ASSUME TypeInv, Past, NEW n \in Nat, NEW f \in [0 .. n -> DOMAIN lineage],
         \A i \in 0 .. n - 1 : lineage[f[i]] = f[i + 1]
  PROVE  n - 1 =< Cardinality(DOMAIN lineage)
<1> DEFINE T == {d \in Nat : \A i \in 0 .. n :
                   i + d + 1 =< n => f[i + d + 1].start_time < f[i].start_time}
<1>1. \A i \in 0 .. n : f[i] \in DOMAIN lineage /\ f[i].start_time \in Nat
  BY LineageTyped
<1>2. ASSUME NEW i \in 0 .. n, i + 1 =< n
      PROVE  i + 1 \in 0 .. n /\ f[i + 1].start_time < f[i].start_time
  <2>1. i \in 0 .. n - 1 /\ i + 1 \in 0 .. n
    BY <1>2
  <2>2. f[i + 1] \in DOMAIN lineage /\ lineage[f[i]] = f[i + 1]
    BY <2>1
  <2>3. f[i + 1] # NoKey
    BY <2>2, LineageTyped
  <2> QED
    BY <1>1, <2>1, <2>2, <2>3 DEF Past, Older
<1>3. 0 \in T
  <2>1. \A i \in 0 .. n : i + 0 + 1 = i + 1
    OBVIOUS
  <2> QED
    BY <1>2, <2>1
<1>4. ASSUME NEW d \in Nat, d \in T
      PROVE  d + 1 \in T
  <2> SUFFICES ASSUME NEW i \in 0 .. n, i + (d + 1) + 1 =< n
               PROVE  f[i + (d + 1) + 1].start_time < f[i].start_time
    OBVIOUS
  <2>1. i + d + 1 \in 0 .. n /\ (i + d + 1) + 1 = i + (d + 1) + 1 /\ i + d + 1 =< n
    OBVIOUS
  <2>2. f[i + d + 1].start_time < f[i].start_time
    BY <1>4, <2>1
  <2>3. /\ f[(i + d + 1) + 1].start_time < f[i + d + 1].start_time
        /\ (i + d + 1) + 1 \in 0 .. n
    BY <1>2, <2>1
  <2> HIDE DEF T
  <2> QED
    BY <1>1, <2>1, <2>2, <2>3
<1> HIDE DEF T
<1>5. Nat \subseteq T
  BY <1>3, <1>4, Induction
<1>6. \A i, j \in 0 .. n : i < j => f[i] # f[j]
  <2> SUFFICES ASSUME NEW i \in 0 .. n, NEW j \in 0 .. n, i < j
               PROVE  f[i] # f[j]
    OBVIOUS
  <2>1. j - i - 1 \in Nat /\ i + (j - i - 1) + 1 = j /\ j =< n
    OBVIOUS
  <2>2. PICK d \in Nat : d = j - i - 1
    BY <2>1
  <2>3. d \in T /\ i + d + 1 = j
    BY <1>5, <2>1, <2>2
  <2>4. f[j].start_time < f[i].start_time
    BY <2>1, <2>3 DEF T
  <2> QED
    BY <1>1, <2>4
<1>7. f \in Injection(0 .. n, DOMAIN lineage)
  <2>1. \A i, j \in 0 .. n : f[i] = f[j] => i = j
    <3>1. \A i, j \in 0 .. n : i < j \/ j < i \/ i = j
      OBVIOUS
    <3> QED
      BY <1>6, <3>1
  <2> QED
    BY <2>1 DEF Injection, IsInjective
<1>8. IsFiniteSet(DOMAIN lineage)
  BY DEF Past
<1>9. Cardinality(0 .. n) =< Cardinality(DOMAIN lineage) /\ Cardinality(DOMAIN lineage) \in Nat
  BY <1>7, <1>8, FS_Injection, FS_CardinalityType
<1>10. Cardinality(0 .. n) = n + 1
  <2>1. 0 \in Int /\ n \in Int
    OBVIOUS
  <2>2. Cardinality(0 .. n) = IF 0 > n THEN 0 ELSE n - 0 + 1
    BY <2>1, FS_Interval, Zenon
  <2> QED
    BY <2>2
<1> QED
  BY <1>9, <1>10

\* A forebear is met by the walk over the lineage, within its length.
LEMMA KinIsForebear ==
  ASSUME TypeInv, Past, NEW c, NEW p, KinOf(lineage, c, p)
  PROVE  \E id \in DOMAIN lineage, j \in Generations :
           id.tgid = c /\ Forebear(id)[j] # NoKey /\ Forebear(id)[j].tgid = p
<1>1. PICK b \in DOMAIN lineage, a \in DOMAIN lineage :
        b.tgid = c /\ a.tgid = p /\ Descends(lineage, b, a)
  BY DEF KinOf
<1>2. PICK n \in Nat \ {0} : Climbs(lineage, b, a, n)
  BY <1>1 DEF Descends
<1>3. PICK f \in [0 .. n -> DOMAIN lineage] :
        f[0] = b /\ f[n] = a /\ \A i \in 0 .. n - 1 : lineage[f[i]] = f[i + 1]
  BY <1>2 DEF Climbs
<1>4. n - 1 =< Cardinality(DOMAIN lineage) /\ n - 1 \in Nat
  BY <1>3, ClimbIsShort
<1>5. Cardinality(DOMAIN lineage) \in Nat
  BY FS_CardinalityType DEF Past
<1>6. b \in Keys
  BY LineageTyped DEF Keys
<1> DEFINE up == Forebear(b)
           T == {j \in Nat : j =< n - 1 => up[j] = f[j + 1]}
<1>7. up[0] = ForkerOf(b) /\ \A i \in Nat \ {0} : up[i] = ForkerOf(up[i - 1])
  BY <1>6, ForebearWalks
<1> HIDE DEF up
<1>8. 0 \in T
  <2>1. 0 \in 0 .. n - 1 /\ 0 + 1 = 1
    BY <1>4
  <2>2. lineage[b] = f[1]
    BY <1>3, <2>1
  <2> QED
    BY <1>7, <2>2 DEF ForkerOf
<1>9. ASSUME NEW j \in Nat, j \in T
      PROVE  j + 1 \in T
  <2> SUFFICES ASSUME j + 1 =< n - 1
               PROVE  up[j + 1] = f[(j + 1) + 1]
    OBVIOUS
  <2>1. j + 1 \in 0 .. n - 1 /\ j + 1 \in Nat \ {0} /\ (j + 1) - 1 = j /\ j =< n - 1
    OBVIOUS
  <2>2. up[j] = f[j + 1]
    BY <1>9, <2>1
  <2>3. f[j + 1] \in DOMAIN lineage /\ lineage[f[j + 1]] = f[(j + 1) + 1]
    BY <1>3, <2>1
  <2>4. up[j + 1] = ForkerOf(up[j])
    BY <1>7, <2>1
  <2> QED
    BY <2>2, <2>3, <2>4 DEF ForkerOf
<1> HIDE DEF T
<1>10. Nat \subseteq T
  BY <1>8, <1>9, Induction
<1>11. up[n - 1] = a
  <2>1. n - 1 \in T /\ (n - 1) + 1 = n
    BY <1>4, <1>10
  <2>2. up[n - 1] = f[(n - 1) + 1]
    BY <2>1 DEF T
  <2> QED
    BY <1>3, <2>1, <2>2
<1>12. n - 1 \in Generations
  BY <1>4, <1>5 DEF Generations
<1>13. a # NoKey
  BY LineageTyped
<1> QED
  BY <1>1, <1>11, <1>12, <1>13 DEF up

\* Wherever the walk over the records has got to, what it stands on is a forebear
\* of what it stood on before.
LEMMA WalkIsKin ==
  ASSUME StartupInv, NEW t \in DOMAIN group, NEW i \in Nat,
         Ancestry(Identity(t))[i] \in DOMAIN nodes
  PROVE  LET told == Ancestry(Identity(t))
             below == IF i = 0 THEN t ELSE told[i - 1].tgid
         IN KinOf(lineage, below, told[i].tgid)
<1> DEFINE id == Identity(t)
           told == Ancestry(id)
           below(j) == IF j = 0 THEN t ELSE told[j - 1].tgid
           T == {j \in Nat : told[j] \in DOMAIN nodes => KinOf(lineage, below(j), told[j].tgid)}
<1>1. /\ TypeInv /\ Past /\ KinTold /\ Sound(nodes, by_tgid) /\ Typed(nodes)
      /\ NoKey \notin DOMAIN nodes
  BY ProcTableAssumption DEF StartupInv, Sound, Typed
<1>2. id \in DOMAIN lineage /\ id.tgid = t
  BY <1>1 DEF TypeInv, KernelSound, Descended, Identity, Id
<1>3. told[0] = ParentOf(Resolve(id)) /\ \A j \in Nat \ {0} : told[j] = ParentOf(told[j - 1])
  BY <1>1, AncestryWalks
<1>4. Resolve(id) \in DOMAIN nodes => Resolve(id).tgid = t
  BY <1>1, <1>2 DEF Resolve, Newest, Sound, IndexTyped
<1>5. \A k : ParentOf(k) \in DOMAIN nodes =>
        k \in DOMAIN nodes /\ ParentOf(k) = nodes[k].parent /\ nodes[k].parent # NoKey
  BY <1>1 DEF ParentOf
<1>6. \A c, p : KinOf(lineage, c, p) => Lived(lineage, p)
  BY DEF KinOf, Lived
<1> HIDE DEF told, id
<1>7. 0 \in T
  <2> SUFFICES ASSUME told[0] \in DOMAIN nodes
               PROVE  KinOf(lineage, t, told[0].tgid)
    OBVIOUS
  <2>1. Resolve(id) \in DOMAIN nodes /\ nodes[Resolve(id)].parent # NoKey
        /\ told[0] = nodes[Resolve(id)].parent
    BY <1>3, <1>5
  <2>2. Lived(lineage, t)
    BY <1>2 DEF Lived
  <2> QED
    BY <1>1, <1>4, <2>1, <2>2 DEF KinTold
<1>8. ASSUME NEW j \in Nat, j \in T
      PROVE  j + 1 \in T
  <2> SUFFICES ASSUME told[j + 1] \in DOMAIN nodes
               PROVE  KinOf(lineage, told[j].tgid, told[j + 1].tgid)
    BY (j + 1) - 1 = j /\ j + 1 # 0
  <2>1. told[j + 1] = ParentOf(told[j])
    <3>1. j + 1 \in Nat \ {0} /\ (j + 1) - 1 = j
      OBVIOUS
    <3> QED
      BY <1>3, <3>1
  <2>2. /\ told[j] \in DOMAIN nodes /\ told[j + 1] = nodes[told[j]].parent
        /\ nodes[told[j]].parent # NoKey
    BY <1>5, <2>1
  <2>3. Lived(lineage, told[j].tgid)
    BY <1>6, <1>8, <2>2
  <2> QED
    BY <1>1, <2>2, <2>3 DEF KinTold
<1>9. Nat \subseteq T
  <2> HIDE DEF T
  <2> QED
    BY <1>7, <1>8, Induction
<1> QED
  BY <1>9 DEF told, id

\* Every ancestor named is a forebear of the one below it.
THEOREM AncestryIsKin == ASSUME ~PidReuse PROVE StartupSpec => []AncestryKin
<1>1. StartupInit => StartupInv
  BY StartupInvStarts
<1>2. StartupInv /\ [StartupNext]_startupVars => StartupInv'
  BY StartupInvStep
<1>3. StartupInv => AncestryKin
  <2> SUFFICES ASSUME StartupInv, NEW t \in DOMAIN group, NEW i \in Generations,
                      Ancestry(Identity(t))[i] \in DOMAIN nodes
               PROVE  LET told == Ancestry(Identity(t))
                          below == IF i = 0 THEN t ELSE told[i - 1].tgid
                      IN \E id \in DOMAIN lineage, j \in Generations :
                           /\ id.tgid = below /\ Forebear(id)[j] # NoKey
                           /\ Forebear(id)[j].tgid = told[i].tgid
    BY DEF AncestryKin
  <2>1. i \in Nat
    BY FS_CardinalityType DEF Generations, StartupInv, Past
  <2> QED
    BY <2>1, WalkIsKin, KinIsForebear DEF StartupInv
<1> QED
  BY <1>1, <1>2, <1>3, PTL DEF StartupSpec

================================================================================
