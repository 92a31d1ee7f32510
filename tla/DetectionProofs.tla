----------------------------- MODULE DetectionProofs -----------------------------
(******************************************************************************)
(* Proofs about detection as a whole: the engine judges an event by what was   *)
(* true when it happened, however far behind the agent is, and a correlation   *)
(* finds the process it asks for.                                              *)
(******************************************************************************)
EXTENDS Detection, LineageProofs

--------------------------------------------------------------------------------
(* The steps that Sensor does not have *)

\* What is opened and connected to is within the bounds of the model.
Bounded(e) == (e.kind = "open" => e.path \in Written) /\ (e.kind = "connect" => e.dst \in Dests)

\* An open or a connect is told in one event and changes nothing else.
Reported(e) ==
  /\ e.kind \in {"open", "connect"} /\ Bounded(e) /\ UNCHANGED <<tableVars, kernelVars>>
  /\ KernelStep(e) /\ Tells(e)

\* Its event goes by the table.
Passed(e) ==
  /\ e.kind \in {"open", "connect"} /\ UNCHANGED <<tableVars, kernelVars>>
  /\ ring # <<>> /\ e = Head(ring) /\ ring' = Tail(ring)

LEMMA ActsReported ==
  ASSUME Plain, KernelSound, Watching, NEW t \in DOMAIN task, Connect(t) \/ SysEnterOpenat(t)
  PROVE  \E e \in Event : Reported(e)
<1>1. /\ task[t].tgid = t /\ t \in Tgids /\ t \in DOMAIN group /\ DOMAIN group = DOMAIN task
      /\ task[t].start \in StartTimes /\ Id(t, task[t].start) \in DOMAIN lineage
  BY TaskPlain DEF Watching
<1>2. ASSUME NEW e \in Event, e.kind \in {"open", "connect"}, e.tgid = t, e.start = task[t].start,
             Bounded(e), Emit(e) \/ EmitOrDiscard(e), UNCHANGED <<tableVars, kernelVars>>
      PROVE  Reported(e)
  <2>1. ring' = Append(ring, e) /\ Grows(e)
    BY <1>2, EmitDelivers, EmitGrows DEF Plain, Watching
  <2>2. /\ task' = task /\ group' = group /\ lineage' = lineage /\ last_pid' = last_pid
        /\ nodes' = nodes /\ by_tgid' = by_tgid
    BY <1>2 DEF kernelVars, tableVars
  <2>3. ~Promoting(e) /\ ~Ends(e) /\ e.kind # "fork" /\ e.kind # "exec" /\ e.kind # "proc_exec"
    BY <1>2 DEF Promoting, Ends
  <2>4. KernelStep(e)
    BY <1>1, <1>2, <2>1, <2>2, <2>3 DEF KernelStep
  <2>5. KernelView' = After(KernelView, e)
    BY <2>2, <2>3 DEF KernelView, After
  <2>6. Attempts(e)
    BY <2>2, <2>3 DEF Attempts, Trying
  <2>7. Tells(e)
    BY <1>1, <1>2, <2>1, <2>2, <2>3, <2>5, <2>6 DEF Tells
  <2> QED
    BY <1>2, <2>4, <2>7 DEF Reported
<1>3. CASE Connect(t)
  <2>1. PICK dst \in Dests : EmitConnect(t, dst)
    BY <1>3 DEF Connect
  <2> DEFINE e == [kind |-> "connect", tgid |-> t, start |-> task[t].start, dst |-> dst]
  <2>2. Emit(e) /\ UNCHANGED <<tableVars, kernelVars>>
    BY <1>1, <1>3, <2>1 DEF EmitConnect, StartRead, Plain, Connect
  <2>3. e \in Event
    BY <1>1, DetectionAssumption DEF Event
  <2>4. e.kind = "connect" /\ e.tgid = t /\ e.start = task[t].start /\ Bounded(e)
    BY DEF Bounded
  <2> HIDE DEF e
  <2> QED
    BY <1>2, <2>2, <2>3, <2>4
<1>4. CASE SysEnterOpenat(t)
  <2>1. PICK path \in Written : EmitOpen(t, path)
    BY <1>4 DEF SysEnterOpenat
  <2> DEFINE e == [kind |-> "open", tgid |-> t, start |-> task[t].start, path |-> path]
  <2>2. EmitOrDiscard(e) /\ UNCHANGED <<tableVars, kernelVars>>
    BY <1>1, <1>4, <2>1 DEF EmitOpen, StartRead, Plain, SysEnterOpenat
  <2>3. e \in Event
    BY <1>1, DetectionAssumption DEF Event
  <2>4. e.kind = "open" /\ e.tgid = t /\ e.start = task[t].start /\ Bounded(e)
    BY DEF Bounded
  <2> HIDE DEF e
  <2> QED
    BY <1>2, <2>2, <2>3, <2>4
<1> QED
  BY <1>3, <1>4

\* What a step of detection is to the pipeline.
LEMMA StepOfPipeline ==
  ASSUME Plain, KernelSound, RingTyped, Watching, [DetectionNext]_detectionVars
  PROVE  [Next]_vars \/ \E e \in Event : Reported(e) \/ Passed(e)
<1>1. CASE World
  BY <1>1, ActsReported DEF World, Next
<1>2. CASE Arms
  <2>1. ASSUME OpenArm \/ ConnectArm
        PROVE  \E e \in Event : Passed(e)
    <3>1. ring # <<>> /\ Head(ring) \in Event
      BY <2>1, Taken DEF OpenArm, ConnectArm, Take, RingTyped
    <3>2. Passed(Head(ring))
      BY <2>1 DEF OpenArm, ConnectArm, Take, Passed
    <3> QED
      BY <3>1, <3>2
  <2>2. ASSUME ~OpenArm, ~ConnectArm
        PROVE  Next
    BY <1>2, <2>2 DEF Arms, ProcExecArm, ExitArm, Next, Consume
  <2> QED
    BY <2>1, <2>2
<1>3. CASE TimerArm \/ Passing
  BY <1>3 DEF TimerArm, Passing, Next
<1>4. CASE UNCHANGED detectionVars
  BY <1>4 DEF detectionVars
<1> QED
  BY <1>1, <1>2, <1>3, <1>4 DEF DetectionNext

\* The table is untouched, so is what relates it to the ring.
LEMMA OthersKeepPipeline ==
  ASSUME ~PidReuse, PipelineInv, NEW e \in Event, Reported(e) \/ Passed(e)
  PROVE  PipelineInv'
<1>1. /\ TypeInv /\ TableTypeOK /\ KernelSound /\ RingTyped /\ Sound(nodes, by_tgid)
      /\ PidsGivenOut /\ ForkIsFirst /\ ExitIsLast /\ Kinship
  BY DEF PipelineInv, TypeInv
<1>2. /\ UNCHANGED tableVars /\ UNCHANGED kernelVars /\ nodes' = nodes /\ by_tgid' = by_tgid
  BY DEF Reported, Passed, tableVars
<1>3. TableTypeOK' /\ Sound(nodes', by_tgid')
  BY <1>1, <1>2 DEF TableTypeOK
<1>4. KernelSound'
  BY <1>1, <1>2 DEF kernelVars, KernelSound, KernelTyped, Leaders, Descended, Identity
<1>5. RingTyped'
  BY <1>1, RingSteps DEF Reported, Passed, KernelStep
<1>6. TypeInv'
  BY <1>3, <1>4, <1>5 DEF TypeInv
<1>7. CASE Reported(e)
  <2>1. PidsGivenOut' /\ ForkIsFirst' /\ ExitIsLast' /\ Kinship'
    BY <1>1, <1>2, <1>6, <1>7, KernelKeepsPids, KernelKeepsForkFirst, KernelKeepsExitLast,
       KernelKeepsKinship DEF Reported
  <2> QED
    BY <1>3, <1>6, <2>1 DEF PipelineInv
<1>8. CASE Passed(e)
  <2>1. ring # <<>> /\ ring' = Tail(ring)
    BY <1>8 DEF Passed
  <2>2. Touched(nodes', Head(ring))
    BY <1>2, SameTouched
  <2>3. PidsGivenOut' /\ ForkIsFirst' /\ ExitIsLast' /\ Kinship'
    BY <1>1, <1>2, <2>1, <2>2, ConsumeKeepsPids, ConsumeKeepsForkFirst, ConsumeKeepsExitLast,
       ConsumeKeepsKinship
  <2> QED
    BY <1>3, <1>6, <2>3 DEF PipelineInv
<1> QED
  BY <1>7, <1>8

AllBounded == \A i \in 1 .. Len(ring) : Bounded(ring[i])

LEMMA KernelBounded ==
  ASSUME Kernel
  PROVE  \E e : Bounded(e) /\ Grows(e)
<1>1. PICK t \in DOMAIN task :
        \/ Fork(t)
        \/ Clone(t)
        \/ \E path \in Runs : SysEnterExecve(t, path)
        \/ ExecFails(t)
        \/ ExecSucceeds(t)
        \/ Exit(t)
  BY DEF Kernel
<1>2. ASSUME NEW e, e.kind \notin {"open", "connect"}, Emit(e) \/ EmitOrDiscard(e)
      PROVE  Bounded(e) /\ Grows(e)
  BY <1>2, EmitGrows DEF Bounded
<1>3. CASE Fork(t)
  <2>1. PICK c : EmitFork(t, c)
    BY <1>3 DEF Fork
  <2> QED
    BY <1>2, <2>1 DEF EmitFork
<1>4. CASE Clone(t)
  <2>1. PICK c : EmitFork(t, c)
    BY <1>4 DEF Clone
  <2> QED
    BY <1>2, <2>1 DEF EmitFork
<1>5. ASSUME NEW path \in Runs, SysEnterExecve(t, path)
      PROVE  \E e : Bounded(e) /\ Grows(e)
  BY <1>2, <1>5 DEF SysEnterExecve, EmitExec
<1>6. CASE ExecFails(t)
  <2>1. Bounded([kind |-> "exit"])
    BY DEF Bounded
  <2>2. Grows([kind |-> "exit"])
    BY <1>6 DEF ExecFails, Grows
  <2> QED
    BY <2>1, <2>2
<1>7. CASE ExecSucceeds(t)
  BY <1>2, <1>7 DEF ExecSucceeds, EmitProcExec
<1>8. CASE Exit(t)
  BY <1>2, <1>8 DEF Exit, EmitExit
<1> QED
  BY <1>1, <1>3, <1>4, <1>5, <1>6, <1>7, <1>8

LEMMA StaysBounded ==
  ASSUME RingTyped, AllBounded,
         \/ \E e : Bounded(e) /\ Grows(e)
         \/ ring # <<>> /\ ring' = Tail(ring)
         \/ ring' = ring
  PROVE  AllBounded'
<1>1. ASSUME NEW e, Bounded(e), ring' = Append(ring, e)
      PROVE  AllBounded'
  <2>1. \A i \in 1 .. Len(ring') : ring'[i] = e \/ (i \in 1 .. Len(ring) /\ ring'[i] = ring[i])
    BY <1>1 DEF RingTyped
  <2> QED
    BY <1>1, <2>1 DEF AllBounded
<1>2. ASSUME ring # <<>>, ring' = Tail(ring)
      PROVE  AllBounded'
  <2>1. \A i \in 1 .. Len(ring') : i + 1 \in 1 .. Len(ring) /\ ring'[i] = ring[i + 1]
    BY <1>2, Taken DEF RingTyped
  <2> QED
    BY <2>1 DEF AllBounded
<1>3. ASSUME ring' = ring
      PROVE  AllBounded'
  BY <1>3 DEF AllBounded
<1> QED
  BY <1>1, <1>2, <1>3 DEF Grows

\* Every event but a fork carries the key of its process, which no other has.
KeyedInv ==
  PipelineInv /\ Watching /\ Stamped /\ AllBounded /\ IsFiniteSet(DOMAIN lineage)

LEMMA KeyedInvStep ==
  ASSUME Plain, KeyedInv, [DetectionNext]_detectionVars
  PROVE  KeyedInv'
<1>1. /\ PipelineInv /\ Watching /\ Stamped /\ TypeInv /\ KernelSound /\ RingTyped /\ OnePerPid
      /\ attached = Kinds /\ Single /\ AllBounded /\ IsFiniteSet(DOMAIN lineage)
  BY DEF KeyedInv, PipelineInv, TypeInv, Watching
<1>2. PipelineInv'
  BY <1>1, StepOfPipeline, PipelineInvStep, OthersKeepPipeline DEF Plain
<1>3. ASSUME Single', attached' = attached, Silent \/ \E e \in Event : Tells(e),
             \E e : Bounded(e) /\ Grows(e)
      PROVE  KeyedInv'
  <2>1. OnePerPid' /\ Stamped' /\ AllBounded'
    BY <1>1, <1>3, KernelKeepsOnePerPid, KernelKeepsStamped, StaysBounded
  <2>2. DOMAIN lineage' = DOMAIN lineage \/ \E id : DOMAIN lineage' = DOMAIN lineage \cup {id}
    BY <1>3 DEF Tells, Silent, Begets
  <2>3. IsFiniteSet(DOMAIN lineage')
    BY <1>1, <2>2, FS_AddElement
  <2> QED
    BY <1>1, <1>2, <1>3, <2>1, <2>3 DEF KeyedInv, Watching
<1>4. ASSUME UNCHANGED kernelVars
      PROVE  Watching' /\ Single' /\ attached' = attached /\ lineage' = lineage
  BY <1>1, <1>4 DEF kernelVars, Watching, Single, OnePerPid
<1>5. ASSUME ring # <<>>, ring' = Tail(ring), UNCHANGED kernelVars
      PROVE  KeyedInv'
  BY <1>1, <1>2, <1>4, <1>5, TakenKeepsStamped, StaysBounded DEF KeyedInv
<1>6. ASSUME ring' = ring, UNCHANGED kernelVars
      PROVE  KeyedInv'
  <2>1. Stamped' /\ AllBounded'
    BY <1>1, <1>6, StaysBounded DEF Stamped, kernelVars
  <2> QED
    BY <1>2, <1>4, <1>6, <2>1 DEF KeyedInv
<1>7. CASE [Next]_vars
  <2>1. CASE Kernel
    BY <1>1, <1>3, <2>1, KernelTells, KernelBounded
  <2>2. CASE Consume
    BY <1>5, <2>2 DEF Consume, ConsumeFork, ConsumeExec, ConsumeProcExec, ConsumeExit, Take
  <2>3. CASE Expire \/ Tick \/ UNCHANGED vars
    BY <1>6, <2>3 DEF Expire, Tick, vars
  <2> QED
    BY <1>7, <2>1, <2>2, <2>3 DEF Next
<1>8. ASSUME NEW e \in Event, Reported(e)
      PROVE  KeyedInv'
  <2>1. Bounded(e) /\ Grows(e)
    BY <1>8 DEF Reported, KernelStep
  <2> QED
    BY <1>3, <1>4, <1>8, <2>1 DEF Reported
<1>9. ASSUME NEW e \in Event, Passed(e)
      PROVE  KeyedInv'
  BY <1>5, <1>9 DEF Passed
<1> QED
  BY <1>1, <1>7, <1>8, <1>9, StepOfPipeline

\* The dead stay in the lineage.
LEMMA LineageGrows ==
  ASSUME Plain, KeyedInv, [DetectionNext]_detectionVars
  PROVE  DOMAIN lineage \subseteq DOMAIN lineage'
<1>1. KernelSound /\ RingTyped /\ Watching
  BY DEF KeyedInv, PipelineInv, TypeInv
<1>2. CASE Kernel
  BY <1>1, <1>2, KernelSteps DEF KernelStep
<1>3. CASE UNCHANGED kernelVars
  BY <1>3 DEF kernelVars
<1>4. ASSUME [Next]_vars, ~Kernel
      PROVE  UNCHANGED kernelVars
  BY <1>4 DEF Next, Consume, ConsumeFork, ConsumeExec, ConsumeProcExec, ConsumeExit, Take,
     Expire, Tick, vars
<1>5. ASSUME NEW e \in Event, Reported(e) \/ Passed(e)
      PROVE  UNCHANGED kernelVars
  BY <1>5 DEF Reported, Passed
<1> QED
  BY <1>1, <1>2, <1>3, <1>4, <1>5, StepOfPipeline

LEMMA KeyedInvStarts == ASSUME Plain, Init PROVE KeyedInv
<1>1. PipelineInv /\ TypeInv
  BY PipelineInvStarts DEF PipelineInv
<1>2. KernelInit /\ attached = Kinds /\ ring = <<>>
  BY DEF Init
<1>3. /\ DOMAIN lineage = {BootId(t) : t \in DOMAIN Boot}
      /\ \A t \in DOMAIN Boot : BootId(t).tgid = t /\ BootId(t).start_time # 0
  BY <1>2, KernelInitSound, BootIds, SensorAssumption DEF Id
<1>4. Single
  BY <1>2, SensorAssumption DEF KernelInit, Single
<1>5. OnePerPid
  BY <1>3 DEF OnePerPid
<1> QED
  BY <1>1, <1>2, <1>3, <1>4, <1>5, BootIsFinite
     DEF KeyedInv, Watching, Stamped, AllBounded

--------------------------------------------------------------------------------
(* Walks *)

\* K is where a walk is in S, of its first n turns, and it never comes back to S.
Within(K, f, S, n) ==
  /\ \A i \in Nat \ {0} : f[i] \in S => f[i - 1] \in S
  /\ \A i : i \in K <=> i \in 0 .. n /\ f[i] \in S

\* So it is in S from its start up to some length.
LEMMA WalkLength ==
  ASSUME NEW K, NEW f, NEW S, NEW n \in Nat, Within(K, f, S, n)
  PROVE  Cardinality(K) \in Nat /\ K = 0 .. Cardinality(K) - 1
<1> DEFINE T == {m \in Nat : f[m] \in S => \A j \in 0 .. m : f[j] \in S}
<1>0. /\ \A i \in Nat \ {0} : f[i] \in S => f[i - 1] \in S
      /\ \A i : i \in K <=> i \in 0 .. n /\ f[i] \in S
  BY DEF Within
<1>1. 0 \in T
  OBVIOUS
<1>2. ASSUME NEW m \in Nat, m \in T
      PROVE  m + 1 \in T
  <2>1. (m + 1) - 1 = m /\ m + 1 \in Nat \ {0} /\ \A j \in 0 .. m + 1 : j \in 0 .. m \/ j = m + 1
    OBVIOUS
  <2> QED
    BY <1>0, <1>2, <2>1
<1> HIDE DEF T
<1>3. Nat \subseteq T
  BY <1>1, <1>2, Induction
<1>4. K \subseteq Nat /\ \A i \in K : i =< n
  BY <1>0
<1>5. \A i \in K : \A j \in 0 .. i : j \in K
  BY <1>0, <1>3 DEF T
<1>6. CASE K = {}
  <2>1. Cardinality(K) = 0
    BY <1>6, FS_EmptySet
  <2> QED
    BY <1>6, <2>1
<1>7. CASE K # {}
  <2>1. PICK m \in K : \A i \in K : i =< m
    <3> HIDE DEF T
    <3>1. \E m \in K : \A i \in K : i =< m
      BY <1>4, <1>7, GreatestNumber, Zenon
    <3> QED
      BY <3>1
  <2>2. m \in Nat /\ K = 0 .. m
    <3>1. m \in Nat /\ \A i \in K : i \in 0 .. m
      BY <1>4, <2>1
    <3>2. \A i \in 0 .. m : i \in K
      BY <1>5
    <3> QED
      BY <3>1, <3>2
  <2>3. Cardinality(K) = m + 1
    <3>1. 0 \in Int /\ m \in Int
      BY <2>2
    <3>2. Cardinality(0 .. m) = IF 0 > m THEN 0 ELSE m - 0 + 1
      BY <3>1, FS_Interval, Zenon
    <3> QED
      BY <2>2, <3>2
  <2> QED
    BY <2>2, <2>3
<1> QED
  BY <1>6, <1>7

\* The names the engine is told are those of records.
LEMMA ChainNames ==
  ASSUME TypeInv, IsFiniteSet(DOMAIN lineage), NEW key
  PROVE  \A i \in DOMAIN Chain(key) :
           /\ i \in Nat \ {0} /\ Ancestry(key)[i - 1] \in DOMAIN nodes
           /\ Chain(key)[i] = Shown(Ancestry(key)[i - 1])
<1> DEFINE told == Ancestry(key)
           n == Cardinality(DOMAIN lineage)
           S == DOMAIN nodes
           K == {i \in 0 .. n : told[i] \in S}
<1>1. n \in Nat /\ Generations = 0 .. n
  BY FS_CardinalityType DEF Generations
<1>2. \A i \in Nat \ {0} : told[i] = ParentOf(told[i - 1])
  BY AncestryWalks DEF TypeInv, TableTypeOK, Typed
<1>3. NoKey \notin DOMAIN nodes
  BY ProcTableAssumption DEF TypeInv, TableTypeOK
<1> HIDE DEF told, n
<1>4. \A i \in Nat \ {0} : told[i] \in S => told[i - 1] \in S
  BY <1>2, <1>3 DEF ParentOf
<1>5. Cardinality(K) \in Nat /\ K = 0 .. Cardinality(K) - 1
  <2>1. Within(K, told, S, n)
    BY <1>4 DEF Within
  <2> HIDE DEF K, S
  <2> QED
    BY <1>1, <2>1, WalkLength
<1>6. Chain(key) = [i \in 1 .. Cardinality(K) |-> Shown(told[i - 1])]
  BY <1>1 DEF Chain, told
<1>7. \A i \in 1 .. Cardinality(K) : i \in Nat \ {0} /\ i - 1 \in K
  <2> HIDE DEF K
  <2> QED
    BY <1>5
<1> QED
  BY <1>6, <1>7 DEF told

LEMMA NamesShown ==
  ASSUME TypeInv, NEW k \in DOMAIN nodes
  PROVE  /\ nodes[k].exe \in Names \cup {NoName} /\ nodes[k].args \in Names \cup {NoName}
         /\ Shown(k) \in Names \cup {NoName}
<1>1. nodes[k] \in ProcNode
  BY DEF TypeInv, TableTypeOK
<1> QED
  BY <1>1 DEF ProcNode, Shown

\* What evaluate() is asked is what it can be asked.
LEMMA FactsTyped ==
  ASSUME TypeInv, IsFiniteSet(DOMAIN lineage), NEW e \in Event, NEW key,
         e.kind \in {"proc_exec", "open", "connect"}, Bounded(e)
  PROVE  FactsOf(e, Told(e, key)) \in Facts
<1>1. NoKey \notin DOMAIN nodes /\ (Resolve(key) # NoKey => Resolve(key) \in DOMAIN nodes)
  BY ProcTableAssumption DEF TypeInv, TableTypeOK, Resolve
<1> DEFINE told == Told(e, key)
<1>2. /\ told.chain = Chain(key) /\ told.args = Of(key, "args")
      /\ e.kind = "proc_exec" => told.path = e.exe
      /\ e.kind = "open" => told.path = e.path
      /\ e.kind = "connect" => told.path = Of(key, "exe")
  BY DEF Told
<1> HIDE DEF told
<1>3. Of(key, "args") \in Names \cup {NoName} /\ Of(key, "exe") \in Names \cup {NoName}
  BY <1>1, NamesShown DEF Of
<1>4. told.path \in Names \cup Written \cup {NoName}
  BY <1>2, <1>3, EventFields DEF Bounded
<1>5. {told.chain[i] : i \in DOMAIN told.chain} \in SUBSET (Names \cup {NoName})
  BY <1>2, ChainNames, NamesShown
<1> DEFINE f == FactsOf(e, told)
<1>6. f.kind \in {"exec", "write", "connect"}
  BY DEF FactsOf
<1> QED
  BY <1>2, <1>3, <1>4, <1>5, <1>6 DEF Facts, FactsOf, Bounded, told

--------------------------------------------------------------------------------
(* The engine *)

EP == INSTANCE EngineProofs WITH Keys <- ProcKey, NoAlert <- Nothing, NoPath <- Nothing

\* What module Engine assumes of its parameters is so here.
LEMMA EngineIsGiven ==
  /\ Rules \in Seq(EP!RuleType) /\ \A f \in Facts : f.kind \in EP!EventKinds
  /\ MaxHits \in Nat /\ Nothing \notin EP!Paths
<1>1. \A f \in Facts : f.kind \in {"exec", "write", "connect"}
  BY DEF Facts
<1>2. EP!RuleType = E!RuleType /\ EP!Paths = E!Paths
  BY DEF EP!RuleType, E!RuleType, EP!EventKinds, E!EventKinds, EP!Condition, E!Condition,
     EP!NoRule, E!NoRule, EP!Paths, E!Paths
<1> QED
  BY <1>1, <1>2, DetectionAssumption DEF EP!EventKinds

LEMMA SameEngine ==
  /\ E!Init = EP!Init /\ E!Expire = EP!Expire /\ E!Elapse = EP!Elapse
  /\ E!RuleIds = EP!RuleIds /\ E!Alert = EP!Alert
  /\ \A r : E!Correlated(r) = EP!Correlated(r)
  /\ \A f : E!Matched(f) = EP!Matched(f)
  /\ \A key, f : E!Evaluate(key, f) = EP!Evaluate(key, f)
  /\ \A key, r : E!LastHit(key, r) = EP!LastHit(key, r) /\ E!Quotes(key, r) = EP!Quotes(key, r)
<1>1. E!RuleIds = EP!RuleIds /\ E!Alert = EP!Alert /\ \A r : E!Correlated(r) = EP!Correlated(r)
  BY DEF E!RuleIds, EP!RuleIds, E!Alert, EP!Alert, E!Paths, EP!Paths,
     E!Correlated, EP!Correlated, E!NoRule, EP!NoRule
<1>2. \A f : E!Matched(f) = EP!Matched(f)
  BY <1>1 DEF E!Matched, EP!Matched, E!Matches, EP!Matches
<1>3. E!MaxWindow = EP!MaxWindow
  BY <1>1 DEF E!MaxWindow, EP!MaxWindow
<1>4. \A h, r : E!Counts(h, r) = EP!Counts(h, r)
  BY DEF E!Counts, EP!Counts
<1>5. \A key : E!HitsOf(key) = EP!HitsOf(key)
  BY DEF E!HitsOf, EP!HitsOf
<1>6. \A key, r : E!LastHit(key, r) = EP!LastHit(key, r)
  BY <1>4, <1>5 DEF E!LastHit, EP!LastHit
<1>7. \A key, r : E!Quotes(key, r) = EP!Quotes(key, r)
  BY <1>1, <1>6 DEF E!Quotes, EP!Quotes, E!FindPrior, EP!FindPrior, E!LatestHit, EP!LatestHit
<1>8. \A hits : E!Retained(hits) = EP!Retained(hits)
  BY <1>3 DEF E!Retained, EP!Retained, E!Fresh, EP!Fresh
<1>9. \A h : E!Older(h) = EP!Older(h)
  BY <1>3 DEF E!Older, EP!Older
<1>10. E!Expire = EP!Expire /\ E!Elapse = EP!Elapse /\ E!Init = EP!Init
  BY <1>8, <1>9 DEF E!Expire, EP!Expire, E!Elapse, EP!Elapse, E!Init, EP!Init
<1>11. \A key, f : E!Remember(key, f) = EP!Remember(key, f)
  BY <1>2, <1>5 DEF E!Remember, EP!Remember
<1>12. \A key, matched : E!Report(key, matched) = EP!Report(key, matched)
  BY <1>7 DEF E!Report, EP!Report
<1>13. \A key, f : E!Evaluate(key, f) = EP!Evaluate(key, f)
  BY <1>2, <1>5, <1>11, <1>12 DEF E!Evaluate, EP!Evaluate
<1> QED
  BY <1>1, <1>2, <1>6, <1>7, <1>10, <1>13

\* The engine's history is about processes of the lineage.
AskedInv == KeyedInv /\ EP!EngineInv /\ DOMAIN history \subseteq DOMAIN lineage

LEMMA AskedInvStarts == ASSUME Plain, DetectionInit PROVE AskedInv
<1>1. KeyedInv /\ EP!Init
  BY KeyedInvStarts, SameEngine DEF DetectionInit
<1>2. EP!EngineInv
  BY <1>1, EngineIsGiven, EP!EngineInvInit
<1> QED
  BY <1>1, <1>2 DEF AskedInv, EP!Init

\* An event the engine is asked about.
LEMMA Asking ==
  ASSUME AskedInv, ProcExecArm \/ OpenArm \/ ConnectArm
  PROVE  /\ Head(ring) \in Event /\ EventKey \in DOMAIN lineage /\ EventKey \in ProcKey
         /\ EventKey.tgid = Head(ring).tgid
         /\ FactsOf(Head(ring), Told(Head(ring), EventKey)) \in Facts
         /\ E!Evaluate(EventKey, FactsOf(Head(ring), Told(Head(ring), EventKey)))
<1>1. /\ ring # <<>> /\ Head(ring).kind \in {"proc_exec", "open", "connect"}
      /\ E!Evaluate(EventKey, FactsOf(Head(ring), Told(Head(ring), EventKey)))
  BY DEF ProcExecArm, ConsumeProcExec, OpenArm, ConnectArm, Take, Ask
<1>2. TypeInv /\ RingTyped /\ Stamped /\ AllBounded /\ IsFiniteSet(DOMAIN lineage)
  BY DEF AskedInv, KeyedInv, PipelineInv, TypeInv
<1>3. Head(ring) \in Event /\ EventKey \in ProcKey /\ EventKey.tgid = Head(ring).tgid
  BY <1>1, <1>2, EventKeyType
<1>4. Head(ring) = ring[1] /\ 1 \in 1 .. Len(ring)
  BY <1>1, <1>2, Taken DEF RingTyped
<1>5. EventKey \in DOMAIN lineage /\ Bounded(Head(ring))
  BY <1>1, <1>2, <1>4 DEF Stamped, AllBounded, EventKey
<1> QED
  BY <1>1, <1>2, <1>3, <1>5, FactsTyped

\* What the engine does in a step.
LEMMA EngineSteps ==
  ASSUME [DetectionNext]_detectionVars
  PROVE  \/ ProcExecArm \/ OpenArm \/ ConnectArm
         \/ E!Expire \/ E!Elapse
         \/ UNCHANGED engineVars
  BY DEF DetectionNext, World, Quiet, Arms, ExitArm, TimerArm, Passing, detectionVars

LEMMA AskedInvStep ==
  ASSUME Plain, AskedInv, [DetectionNext]_detectionVars
  PROVE  AskedInv'
<1>1. KeyedInv'
  BY KeyedInvStep DEF AskedInv
<1>2. DOMAIN lineage \subseteq DOMAIN lineage'
  BY LineageGrows DEF AskedInv
<1>3. CASE ProcExecArm \/ OpenArm \/ ConnectArm
  <2> DEFINE f == FactsOf(Head(ring), Told(Head(ring), EventKey))
  <2>1. EventKey \in DOMAIN lineage /\ EventKey \in ProcKey /\ f \in Facts /\ EP!Evaluate(EventKey, f)
    BY <1>3, Asking, SameEngine
  <2> HIDE DEF f
  <2>2. EP!EngineInv'
    BY <2>1, EngineIsGiven, EP!EvaluateKeepsInv DEF AskedInv
  <2>3. DOMAIN history' = DOMAIN history \cup {EventKey}
    BY <2>1, EngineIsGiven, EP!RememberKeepsInv DEF AskedInv, EP!Evaluate
  <2> QED
    BY <1>1, <1>2, <2>1, <2>2, <2>3 DEF AskedInv
<1>4. CASE E!Expire
  <2>1. EP!EngineInv'
    BY <1>4, SameEngine, EngineIsGiven, EP!ExpireKeepsInv DEF AskedInv
  <2>2. DOMAIN history' \subseteq DOMAIN history
    BY <1>4 DEF E!Expire
  <2> QED
    BY <1>1, <1>2, <2>1, <2>2 DEF AskedInv
<1>5. CASE E!Elapse
  <2>1. EP!EngineInv'
    BY <1>5, SameEngine, EngineIsGiven, EP!ElapseKeepsInv DEF AskedInv
  <2>2. DOMAIN history' = DOMAIN history
    BY <1>5 DEF E!Elapse
  <2> QED
    BY <1>1, <1>2, <2>1, <2>2 DEF AskedInv
<1>6. CASE UNCHANGED engineVars
  <2>1. history' = history /\ alert' = alert
    BY <1>6 DEF engineVars
  <2>2. EP!EngineInv'
    BY <2>1 DEF AskedInv, EP!EngineInv, EP!EngineTypeOK, EP!OldestFirst
  <2> QED
    BY <1>1, <1>2, <2>1, <2>2 DEF AskedInv
<1> QED
  BY <1>3, <1>4, <1>5, <1>6, EngineSteps

\* Only the arms take an event.
LEMMA OnlyArmsTake ==
  ASSUME Plain, KeyedInv, [DetectionNext]_detectionVars, ring # <<>>, ring' = Tail(ring)
  PROVE  Arms
<1>1. RingTyped /\ KernelSound /\ Watching
  BY DEF KeyedInv, PipelineInv, TypeInv
<1>2. Len(ring') = Len(ring) - 1 /\ Len(ring) \in Nat
  BY <1>1, Taken DEF RingTyped
<1>3. CASE World
  <2>1. \E e \in Event : Grows(e)
    <3>1. CASE Kernel
      BY <1>1, <3>1, KernelSteps DEF KernelStep
    <3>2. ASSUME NEW t \in DOMAIN task, Connect(t) \/ SysEnterOpenat(t)
          PROVE  \E e \in Event : Grows(e)
      BY <1>1, <3>2, ActsReported DEF Reported, KernelStep
    <3> QED
      BY <1>3, <3>1, <3>2 DEF World
  <2>2. FALSE
    <3>1. PICK e \in Event : Grows(e)
      BY <2>1
    <3>2. Len(Append(ring, e)) = Len(ring) + 1
      BY <1>1, Appended DEF RingTyped
    <3>3. ring' = ring \/ ring' = Append(ring, e)
      BY <3>1 DEF Grows
    <3>4. Len(ring') = Len(ring) \/ Len(ring') = Len(ring) + 1
      BY <3>2, <3>3, Zenon
    <3> DEFINE m == Len(ring)
               n == Len(ring')
    <3>5. m \in Nat /\ n = m - 1 /\ (n = m \/ n = m + 1)
      BY <1>2, <3>4
    <3> HIDE DEF m, n
    <3> QED
      BY <3>5
  <2> QED
    BY <2>2
<1>4. CASE TimerArm \/ Passing \/ UNCHANGED detectionVars
  <2>1. ring' = ring
    BY <1>4 DEF TimerArm, Passing, Expire, Tick, detectionVars, vars
  <2> QED
    BY <1>2, <2>1
<1> QED
  BY <1>3, <1>4 DEF DetectionNext

\* A rule that has hit the process finds its prior hit.
LEMMA HitIsQuoted ==
  ASSUME AskedInv, NEW key \in ProcKey, NEW r \in EP!RuleIds, EP!Correlated(r),
         key \in DOMAIN history, EP!LastHit(key, r) # {}
  PROVE  EP!Quotes(key, r) # {}
<1>1. PICK i \in DOMAIN history[key] : EP!Counts(history[key][i], r)
  BY DEF EP!LastHit, EP!HitsOf
<1>2. EP!Eligible(key, r, key, i)
  BY <1>1 DEF EP!Eligible
<1>3. EP!FindPrior(key, r) # {}
  BY <1>2, EngineIsGiven, EP!FindPriorIsYoungest DEF AskedInv
<1> QED
  BY <1>3 DEF EP!Quotes

LEMMA QuotesTyped ==
  ASSUME AskedInv, NEW key \in ProcKey, NEW r \in EP!RuleIds
  PROVE  EP!Quotes(key, r) \subseteq EP!Paths \cup {Nothing}
<1>1. ASSUME NEW h \in EP!FindPrior(key, r)
      PROVE  h.path \in EP!Paths
  <2>1. PICK k, i : EP!Eligible(key, r, k, i) /\ h = history[k][i]
    BY EngineIsGiven, EP!FindPriorIsYoungest DEF AskedInv
  <2>2. k \in DOMAIN history /\ i \in DOMAIN history[k]
    BY <2>1 DEF EP!Eligible
  <2> QED
    BY <2>1, <2>2, EngineIsGiven, EP!HitFields DEF AskedInv, EP!EngineInv
<1> QED
  BY <1>1 DEF EP!Quotes

\* Every probe gives a process the same key, so a rule that asks for the process
\* it has hit before finds it.
THEOREM CorrelationIsMet == ASSUME Plain PROVE DetectionSpec => CorrelationMet
<1> DEFINE f == FactsOf(Head(ring), Told(Head(ring), EventKey))
           Asked(r) ==
             /\ ring # <<>> /\ ring' = Tail(ring)
             /\ Head(ring).kind = "connect"
             /\ E!Correlated(r)
             /\ E!Matches(r, f)
             /\ \E k \in DOMAIN history : k.tgid = Head(ring).tgid /\ E!LastHit(k, r) # {}
           Met == \A r \in E!RuleIds : Asked(r) => alert' # Nothing /\ alert'.rule =< r
<1>1. DetectionInit => AskedInv
  BY AskedInvStarts
<1>2. AskedInv /\ [DetectionNext]_detectionVars => AskedInv'
  BY AskedInvStep
<1>3. ASSUME AskedInv, [DetectionNext]_detectionVars
      PROVE  Met
  <2> SUFFICES ASSUME NEW r \in E!RuleIds, Asked(r)
               PROVE  alert' # Nothing /\ alert'.rule =< r
    OBVIOUS
  <2>1. ConnectArm
    <3>1. Arms
      BY <1>3, OnlyArmsTake DEF AskedInv
    <3> QED
      BY <3>1 DEF Arms, ConsumeFork, ConsumeExec, ProcExecArm, ConsumeProcExec, OpenArm, ExitArm,
         ConsumeExit, Take
  <2>2. /\ EventKey \in DOMAIN lineage /\ EventKey \in ProcKey /\ EventKey.tgid = Head(ring).tgid
        /\ f \in Facts /\ EP!Evaluate(EventKey, f)
    BY <1>3, <2>1, Asking, SameEngine
  <2>3. r \in EP!RuleIds /\ EP!Correlated(r) /\ r \in EP!Matched(f)
    <3>1. r \in E!Matched(f)
      BY DEF E!Matched
    <3> QED
      BY <3>1, SameEngine
  <2>4. EventKey \in DOMAIN history /\ EP!LastHit(EventKey, r) # {}
    <3>1. PICK k \in DOMAIN history : k.tgid = Head(ring).tgid /\ E!LastHit(k, r) # {}
      OBVIOUS
    <3>2. k \in DOMAIN lineage /\ OnePerPid
      BY <1>3 DEF AskedInv, KeyedInv, Watching
    <3>3. k = EventKey
      BY <2>2, <3>1, <3>2 DEF OnePerPid
    <3> QED
      BY <3>1, <3>3, SameEngine
  <2> HIDE DEF f
  <2>5. EP!Quotes(EventKey, r) # {}
    BY <1>3, <2>2, <2>3, <2>4, HitIsQuoted
  <2>6. PICK q \in EP!Matched(f) : \E p \in EP!Quotes(EventKey, q) :
          /\ \A o \in EP!Matched(f) : o < q => EP!Quotes(EventKey, o) = {}
          /\ alert' = [rule |-> q, key |-> EventKey, prior |-> p]
    BY <2>2, <2>3, <2>5 DEF EP!Evaluate, EP!Report
  <2>7. PICK p \in EP!Quotes(EventKey, q) : alert' = [rule |-> q, key |-> EventKey, prior |-> p]
    BY <2>6
  <2>8. q \in EP!RuleIds /\ q \in Nat /\ r \in Nat
    BY <2>3, <2>6, DetectionAssumption DEF EP!Matched, EP!RuleIds
  <2>9. q =< r
    BY <2>3, <2>5, <2>6, <2>8
  <2>10. p \in EP!Paths \cup {Nothing}
    BY <1>3, <2>2, <2>7, <2>8, QuotesTyped
  <2>11. alert' \in EP!Alert
    BY <2>2, <2>7, <2>8, <2>10 DEF EP!Alert
  <2>12. alert' # Nothing
    BY <2>11, SameEngine, DetectionAssumption
  <2> QED
    BY <2>7, <2>9, <2>12
<1>4. DetectionSpec => [][Met]_detectionVars
  <2> HIDE DEF Met
  <2> QED
    BY <1>1, <1>2, <1>3, PTL DEF DetectionSpec
<1> QED
  BY <1>4 DEF CorrelationMet

--------------------------------------------------------------------------------
(* The lines of descent *)

\* Every walk over lineage l stays in it and ends.
Descent(l) ==
  /\ IsFiniteSet(DOMAIN l) /\ DOMAIN l \subseteq ProcKey
  /\ \A k \in DOMAIN l : l[k] \in DOMAIN l \cup {NoKey}
  /\ \A S \in SUBSET (DOMAIN l) : S # {} => \E k \in S : l[k] \notin S

LEMMA DescentGrows ==
  ASSUME NEW l, Descent(l), NEW id \in ProcKey, id \notin DOMAIN l, NEW m,
         DOMAIN m = DOMAIN l \cup {id}, m[id] \in DOMAIN l, \A k \in DOMAIN l : m[k] = l[k]
  PROVE  Descent(m)
<1>1. /\ IsFiniteSet(DOMAIN m) /\ DOMAIN m \subseteq ProcKey
      /\ \A k \in DOMAIN m : m[k] \in DOMAIN m \cup {NoKey}
  BY FS_AddElement DEF Descent
<1>2. NoKey \notin ProcKey
  BY ProcTableAssumption
<1>3. ASSUME NEW S \in SUBSET (DOMAIN m), S # {}
      PROVE  \E k \in S : m[k] \notin S
  <2> DEFINE R == S \ {id}
  <2>1. CASE R = {}
    <3>1. id \in S /\ \A k \in S : k = id
      BY <1>3, <2>1
    <3> QED
      BY <3>1
  <2>2. CASE R # {}
    <3>1. R \in SUBSET (DOMAIN l)
      OBVIOUS
    <3>2. PICK k \in R : l[k] \notin R
      BY <2>2, <3>1 DEF Descent
    <3>3. l[k] # id
      BY <1>2, <3>1, <3>2 DEF Descent
    <3> QED
      BY <3>1, <3>2, <3>3
  <2> QED
    BY <2>1, <2>2
<1> QED
  BY <1>1, <1>3 DEF Descent

LEMMA UpFromStays ==
  ASSUME NEW l, Descent(l), NEW id \in DOMAIN l
  PROVE  /\ UpFrom(l, id)[0] = l[id]
         /\ \A i \in Nat : UpFrom(l, id)[i] \in DOMAIN l \cup {NoKey}
         /\ \A i \in Nat : UpFrom(l, id)[i + 1] =
              IF UpFrom(l, id)[i] \in DOMAIN l THEN l[UpFrom(l, id)[i]] ELSE NoKey
         /\ \A i \in Nat \ {0} : UpFrom(l, id)[i] # NoKey => UpFrom(l, id)[i - 1] # NoKey
<1> DEFINE up == UpFrom(l, id)
           T == {i \in Nat : up[i] \in DOMAIN l \cup {NoKey}}
<1>1. (\A k \in DOMAIN l : l[k] \in Keys) /\ id \in Keys /\ NoKey \notin DOMAIN l
  BY ProcTableAssumption DEF Descent, Keys
<1>2. up[0] = From(l, id) /\ \A i \in Nat \ {0} : up[i] = From(l, up[i - 1])
  BY <1>1, UpFromWalks
<1> HIDE DEF up
<1>3. up[0] = l[id]
  BY <1>2 DEF From
<1>4. \A i \in Nat : up[i + 1] = From(l, up[i])
  <2> TAKE i \in Nat
  <2>1. i + 1 \in Nat \ {0} /\ (i + 1) - 1 = i
    OBVIOUS
  <2> QED
    BY <1>2, <2>1
<1>5. Nat \subseteq T
  <2>1. 0 \in T
    BY <1>3 DEF Descent
  <2>2. \A i \in Nat : i \in T => i + 1 \in T
    BY <1>4 DEF Descent, From
  <2> HIDE DEF T
  <2> QED
    BY <2>1, <2>2, Induction
<1>6. \A i \in Nat \ {0} : up[i] # NoKey => up[i - 1] # NoKey
  BY <1>1, <1>2 DEF From
<1> QED
  BY <1>3, <1>4, <1>5, <1>6 DEF From, up

\* It ends after fewer turns than there are processes.
LEMMA LineEnds ==
  ASSUME NEW l, Descent(l), NEW id \in DOMAIN l
  PROVE  /\ Cardinality(DOMAIN l) \in Nat
         /\ \A i \in Nat : UpFrom(l, id)[i] # NoKey => i < Cardinality(DOMAIN l)
<1> DEFINE up == UpFrom(l, id)
           C == Cardinality(DOMAIN l)
<1>1. C \in Nat
  BY FS_CardinalityType DEF Descent
<1>2. SUFFICES ASSUME NEW n \in Nat, up[n] # NoKey
               PROVE  n + 1 =< C
  BY <1>1
<1>3. /\ \A i \in Nat : up[i] \in DOMAIN l \cup {NoKey}
      /\ \A i \in Nat : up[i] \in DOMAIN l => up[i + 1] = l[up[i]]
      /\ \A i \in Nat \ {0} : up[i] # NoKey => up[i - 1] # NoKey
  BY UpFromStays
<1> HIDE DEF up
<1> DEFINE T == {i \in Nat : i =< n => up[n - i] # NoKey}
<1>4. 0 \in T
  BY <1>2
<1>5. ASSUME NEW i \in Nat, i \in T
      PROVE  i + 1 \in T
  <2> SUFFICES ASSUME i + 1 =< n
               PROVE  up[n - (i + 1)] # NoKey
    OBVIOUS
  <2>1. n - i \in Nat \ {0} /\ (n - i) - 1 = n - (i + 1) /\ i =< n
    OBVIOUS
  <2> QED
    BY <1>3, <1>5, <2>1
<1> HIDE DEF T
<1>6. Nat \subseteq T
  BY <1>4, <1>5, Induction
<1>7. \A i \in 0 .. n : up[i] \in DOMAIN l
  <2> TAKE i \in 0 .. n
  <2>1. n - i \in Nat /\ n - i =< n /\ n - (n - i) = i /\ i \in Nat
    OBVIOUS
  <2> QED
    BY <1>3, <1>6, <2>1 DEF T
<1>8. ASSUME NEW i \in 0 .. n, NEW j \in 0 .. n, i < j, up[i] = up[j]
      PROVE  FALSE
  <2> DEFINE S == {k \in DOMAIN l : \E m \in i .. j - 1 : k = up[m]}
  <2>1. up[i] \in S
    BY <1>7, <1>8
  <2>2. PICK k \in S : l[k] \notin S
    BY <2>1 DEF Descent
  <2>3. PICK m \in i .. j - 1 : k = up[m]
    BY <2>2
  <2>4. m \in Nat /\ m \in 0 .. n /\ m + 1 \in 0 .. n /\ (m + 1 \in i .. j - 1 \/ m + 1 = j)
    OBVIOUS
  <2>5. l[k] = up[m + 1] /\ up[m + 1] \in DOMAIN l
    BY <1>3, <1>7, <2>3, <2>4
  <2> QED
    BY <1>8, <2>1, <2>2, <2>4, <2>5
<1> DEFINE f == [i \in 0 .. n |-> up[i]]
<1>9. f \in Injection(0 .. n, DOMAIN l)
  <2>1. \A i, j \in 0 .. n : f[i] = f[j] => i = j
    <3>1. \A i, j \in 0 .. n : i < j \/ j < i \/ i = j
      OBVIOUS
    <3> QED
      BY <1>8, <3>1
  <2> QED
    BY <1>7, <2>1 DEF Injection, IsInjective
<1>10. Cardinality(0 .. n) =< C
  <2>1. IsFiniteSet(DOMAIN l)
    BY DEF Descent
  <2> HIDE DEF f
  <2> QED
    BY <1>9, <2>1, FS_Injection
<1>11. Cardinality(0 .. n) = n + 1
  <2>1. 0 \in Int /\ n \in Int
    OBVIOUS
  <2>2. Cardinality(0 .. n) = IF 0 > n THEN 0 ELSE n - 0 + 1
    BY <2>1, FS_Interval, Zenon
  <2> QED
    BY <2>2
<1> QED
  BY <1>10, <1>11

\* How many forebears a process has, and their pids, the one that forked it first.
LengthIn(l, id) == Cardinality({i \in 0 .. Cardinality(DOMAIN l) : UpFrom(l, id)[i] # NoKey})
LineIn(l, id) == [j \in 1 .. LengthIn(l, id) |-> UpFrom(l, id)[j - 1].tgid]

LEMMA LineIs ==
  ASSUME NEW l, Descent(l), NEW id \in DOMAIN l
  PROVE  /\ LengthIn(l, id) \in Nat
         /\ \A i \in Nat : UpFrom(l, id)[i] # NoKey <=> i < LengthIn(l, id)
<1> DEFINE up == UpFrom(l, id)
           C == Cardinality(DOMAIN l)
           S == DOMAIN l
           K == {i \in 0 .. C : up[i] # NoKey}
<1>1. C \in Nat /\ \A i \in Nat : up[i] # NoKey => i < C
  BY LineEnds
<1>2. NoKey \notin S
  BY ProcTableAssumption DEF Descent
<1>3. \A i \in Nat : up[i] # NoKey <=> up[i] \in S
  BY <1>2, UpFromStays
<1>4. \A i \in Nat \ {0} : up[i] # NoKey => up[i - 1] # NoKey
  BY UpFromStays
<1>5. LengthIn(l, id) = Cardinality(K)
  BY DEF LengthIn
<1> HIDE DEF up, C, S
<1>6. Within(K, up, S, C)
  <2>1. \A i \in Nat \ {0} : up[i] \in S => up[i - 1] \in S
    BY <1>3, <1>4
  <2>2. \A i : i \in K <=> i \in 0 .. C /\ up[i] \in S
    BY <1>1, <1>3
  <2> QED
    BY <2>1, <2>2 DEF Within
<1>7. \A i \in Nat : i \in K <=> up[i] # NoKey
  BY <1>1
<1> HIDE DEF K
<1>8. Cardinality(K) \in Nat /\ K = 0 .. Cardinality(K) - 1
  BY <1>1, <1>6, WalkLength
<1>9. \A i \in Nat : i \in K <=> i < Cardinality(K)
  BY <1>8
<1> QED
  BY <1>5, <1>7, <1>8, <1>9 DEF up

\* A process has the forebears it was born with.
LEMMA LineKept ==
  ASSUME NEW l, Descent(l), NEW m, Descent(m), NEW id \in DOMAIN l,
         \A k \in DOMAIN l : k \in DOMAIN m /\ m[k] = l[k]
  PROVE  /\ \A i \in Nat : UpFrom(m, id)[i] = UpFrom(l, id)[i]
         /\ LineIn(m, id) = LineIn(l, id)
<1> DEFINE f == UpFrom(l, id)
           g == UpFrom(m, id)
           T == {i \in Nat : g[i] = f[i]}
           a == LengthIn(l, id)
           b == LengthIn(m, id)
<1>0. id \in DOMAIN m /\ NoKey \notin DOMAIN l /\ NoKey \notin DOMAIN m
  BY ProcTableAssumption DEF Descent
<1>1. /\ f[0] = l[id] /\ \A i \in Nat : f[i] \in DOMAIN l \cup {NoKey}
      /\ \A i \in Nat : f[i + 1] = IF f[i] \in DOMAIN l THEN l[f[i]] ELSE NoKey
  BY UpFromStays
<1>2. /\ g[0] = m[id]
      /\ \A i \in Nat : g[i + 1] = IF g[i] \in DOMAIN m THEN m[g[i]] ELSE NoKey
  BY <1>0, UpFromStays
<1>3. /\ a \in Nat /\ \A i \in Nat : f[i] # NoKey <=> i < a
      /\ b \in Nat /\ \A i \in Nat : g[i] # NoKey <=> i < b
  BY <1>0, LineIs
<1>4. LineIn(l, id) = [j \in 1 .. a |-> f[j - 1].tgid] /\ LineIn(m, id) = [j \in 1 .. b |-> g[j - 1].tgid]
  BY DEF LineIn
<1> HIDE DEF f, g, a, b
<1>5. Nat \subseteq T
  <2>1. 0 \in T
    BY <1>1, <1>2
  <2>2. \A i \in Nat : i \in T => i + 1 \in T
    BY <1>0, <1>1, <1>2
  <2> HIDE DEF T
  <2> QED
    BY <2>1, <2>2, Induction
<1>6. \A i \in Nat : g[i] = f[i]
  BY <1>5
<1>7. a = b
  <2>1. ~(a < b) /\ ~(b < a)
    BY <1>3, <1>6
  <2> QED
    BY <1>3, <2>1
<1>8. \A j \in 1 .. a : g[j - 1] = f[j - 1]
  BY <1>3, <1>6
<1> QED
  BY <1>4, <1>6, <1>7, <1>8 DEF f, g

LEMMA DescentStarts == ASSUME Watched, Init PROVE Descent(lineage)
<1>1. KernelInit /\ attached = Kinds /\ DOMAIN Snapshot = DOMAIN Boot
  BY DEF Init, Watched
<1>2. /\ DOMAIN lineage = {BootId(t) : t \in DOMAIN Boot}
      /\ \A t \in DOMAIN Boot : lineage[BootId(t)] = BootId(Boot[t].ppid)
  BY <1>1, KernelInitSound
<1>3. \A t \in DOMAIN Boot : BootId(t) \in ProcKey /\ BootId(t).tgid = t
  BY BootIds DEF Id
<1>4. \A t : t \notin DOMAIN Boot => BootId(t) = NoKey
  BY DEF BootId
<1> HIDE DEF BootId
<1>5. /\ IsFiniteSet(DOMAIN lineage) /\ DOMAIN lineage \subseteq ProcKey
      /\ \A k \in DOMAIN lineage : lineage[k] \in DOMAIN lineage \cup {NoKey}
  BY <1>2, <1>3, <1>4, BootIsFinite
<1>6. ASSUME NEW S \in SUBSET (DOMAIN lineage), S # {}
      PROVE  \E k \in S : lineage[k] \notin S
  <2> DEFINE P == {t \in DOMAIN Boot : BootId(t) \in S}
  <2>1. P \in SUBSET (DOMAIN Snapshot) /\ P # {}
    BY <1>1, <1>2, <1>6
  <2>2. PICK t \in P : Snapshot[t].ppid \notin P
    BY <2>1, ProcTableAssumption DEF SnapshotIsATree
  <2>3. t \in DOMAIN Boot /\ BootId(t) \in S /\ Boot[t].ppid = Snapshot[t].ppid
    BY <1>1, <2>2, SensorAssumption
  <2>4. NoKey \notin S
    BY <1>5, ProcTableAssumption
  <2>5. BootId(Boot[t].ppid) \notin S
    BY <1>4, <2>2, <2>3, <2>4
  <2> QED
    BY <1>2, <2>3, <2>5
<1> QED
  BY <1>5, <1>6 DEF Descent

\* The lineage after a step: the same, or with one process more, whose parent it
\* has.
LEMMA LineageStep ==
  ASSUME Plain, KeyedInv, [DetectionNext]_detectionVars
  PROVE  \/ lineage' = lineage
         \/ \E id \in ProcKey :
              /\ id \notin DOMAIN lineage /\ DOMAIN lineage' = DOMAIN lineage \cup {id}
              /\ lineage'[id] \in DOMAIN lineage /\ \A k \in DOMAIN lineage : lineage'[k] = lineage[k]
<1>1. KernelSound /\ RingTyped /\ Watching /\ PidsGivenOut
  BY DEF KeyedInv, PipelineInv, TypeInv
<1>2. CASE Kernel
  <2>1. Silent \/ \E e \in Event : Tells(e)
    BY <1>1, <1>2, KernelTells
  <2>2. PICK e \in Event : KernelStep(e)
    BY <1>1, <1>2, KernelSteps
  <2>3. ASSUME NEW d \in Event, Begets(d)
        PROVE  \E id \in ProcKey :
                 /\ id \notin DOMAIN lineage /\ DOMAIN lineage' = DOMAIN lineage \cup {id}
                 /\ lineage'[id] \in DOMAIN lineage
                 /\ \A k \in DOMAIN lineage : lineage'[k] = lineage[k]
    <3>1. PICK id \in ProcKey :
            /\ id.tgid = d.child /\ New(d.child)
            /\ DOMAIN lineage' = DOMAIN lineage \cup {id}
            /\ \A k \in DOMAIN lineage : k # id => lineage'[k] = lineage[k]
      BY <2>3 DEF Begets
    <3>2. id \notin DOMAIN lineage
      BY <1>1, <3>1, PidsAreNumbers DEF New, Plain, PidsGivenOut, KeyedInv, PipelineInv
    <3>3. lineage'[id] \in DOMAIN lineage
      BY <2>2, <3>1, <3>2 DEF KernelStep
    <3> QED
      BY <3>1, <3>2, <3>3
  <2> QED
    BY <2>1, <2>3 DEF Silent, Tells
<1>3. ASSUME UNCHANGED kernelVars
      PROVE  lineage' = lineage
  BY <1>3 DEF kernelVars
<1>4. ASSUME [Next]_vars, ~Kernel
      PROVE  UNCHANGED kernelVars
  BY <1>4 DEF Next, Consume, ConsumeFork, ConsumeExec, ConsumeProcExec, ConsumeExit, Take,
     Expire, Tick, vars
<1>5. ASSUME NEW e \in Event, Reported(e) \/ Passed(e)
      PROVE  UNCHANGED kernelVars
  BY <1>5 DEF Reported, Passed
<1>6. [Next]_vars \/ \E e \in Event : Reported(e) \/ Passed(e)
  BY <1>1, StepOfPipeline
<1>7. Kernel \/ UNCHANGED kernelVars
  BY <1>4, <1>5, <1>6
<1> QED
  BY <1>2, <1>3, <1>7

LEMMA DescentStep ==
  ASSUME Plain, KeyedInv, Descent(lineage), [DetectionNext]_detectionVars
  PROVE  /\ Descent(lineage')
         /\ \A id \in DOMAIN lineage :
              id \in DOMAIN lineage' /\ LineIn(lineage', id) = LineIn(lineage, id)
<1>1. Descent(lineage')
  <2>1. CASE lineage' = lineage
    BY <2>1
  <2>2. CASE \E id \in ProcKey :
              /\ id \notin DOMAIN lineage /\ DOMAIN lineage' = DOMAIN lineage \cup {id}
              /\ lineage'[id] \in DOMAIN lineage /\ \A k \in DOMAIN lineage : lineage'[k] = lineage[k]
    BY <2>2, DescentGrows
  <2> QED
    BY <2>1, <2>2, LineageStep
<1>2. \A k \in DOMAIN lineage : k \in DOMAIN lineage' /\ lineage'[k] = lineage[k]
  BY LineageStep
<1> QED
  BY <1>1, <1>2, LineKept

--------------------------------------------------------------------------------
(* The pipeline's invariant *)

LEMMA FollowedStep ==
  ASSUME Watched, LineageInv, KeyedInv, [DetectionNext]_detectionVars
  PROVE  LineageInv'
<1>1. /\ KernelSound /\ RingTyped /\ Watching /\ Followed /\ PipelineInv /\ Plain
      /\ Stamped /\ Untouched /\ OneRecord /\ Parents /\ Indexed /\ Mirror
  BY DEF LineageInv, PipelineInv, TypeInv, Watched, Followed
<1>2. KeyedInv'
  BY <1>1, KeyedInvStep
<1>3. PipelineInv' /\ Watching'
  BY <1>2 DEF KeyedInv
<1>4. ASSUME NEW e \in Event, Reported(e)
      PROVE  Followed'
  BY <1>1, <1>4, KernelKeepsFollowed DEF Reported
<1>5. ASSUME NEW e \in Event, Passed(e)
      PROVE  Followed'
  <2>1. /\ ring # <<>> /\ e = Head(ring) /\ ring' = Tail(ring) /\ UNCHANGED kernelVars
        /\ nodes' = nodes /\ by_tgid' = by_tgid /\ lineage' = lineage
        /\ e.kind \in {"open", "connect"}
    BY <1>5 DEF Passed, tableVars, kernelVars
  <2>2. TableView' = After(TableView, Head(ring))
    BY <2>1 DEF TableView, After, Ends
  <2>3. Mirror' /\ Stamped'
    BY <1>1, <2>1, <2>2, MirrorMovesOn, TakenKeepsStamped
  <2>4. Untouched'
    <3>1. \A i \in 1 .. Len(ring') : i + 1 \in 1 .. Len(ring) /\ ring'[i] = ring[i + 1]
      BY <1>1, <2>1, Taken DEF RingTyped
    <3> QED
      BY <1>1, <3>1 DEF Untouched
  <2>5. OneRecord' /\ Parents' /\ Indexed'
    BY <1>1, <2>1 DEF OneRecord, Parents, Indexed
  <2> QED
    BY <2>3, <2>4, <2>5 DEF Followed
<1> QED
  BY <1>1, <1>3, <1>4, <1>5, StepOfPipeline, LineageInvStep DEF LineageInv

--------------------------------------------------------------------------------
(* What one would know who had heard the events so far *)

\* The executable of each pid, and the arguments of its last attempt to exec.
Belief == [Tgids -> Names \cup {NoName}]

HeardExe(x, e) ==
  IF e.kind = "fork" THEN [x EXCEPT ![e.child] = x[e.tgid]]
  ELSE IF e.kind = "proc_exec" THEN [x EXCEPT ![e.tgid] = e.exe]
  ELSE x

HeardArgs(a, e) ==
  IF e.kind = "fork" THEN [a EXCEPT ![e.child] = NoName]
  ELSE IF e.kind = "exec" THEN [a EXCEPT ![e.tgid] = e.args]
  ELSE a

Judged(e) == e.kind \in {"proc_exec", "open", "connect"}

\* How things stand at event e of a process with this line, by belief x.
TruthBy(x, e, line) ==
  LET chain == [j \in DOMAIN line |-> x[line[j]]]
      real(path) == [actor |-> x[e.tgid], chain |-> chain, path |-> path]
  IN CASE e.kind = "proc_exec" ->
            [actor |-> x[e.tgid], chain |-> chain, path |-> e.exe, args |-> e.exe]
       [] e.kind = "open" -> real(e.path)
       [] e.kind = "connect" -> real(x[e.tgid])

\* Beliefs before each event of ring r and after the last.
Thinks(x, a, r) ==
  /\ x \in [1 .. Len(r) + 1 -> Belief] /\ a \in [1 .. Len(r) + 1 -> Belief]
  /\ \A i \in 1 .. Len(r) :
       x[i + 1] = HeardExe(x[i], r[i]) /\ a[i + 1] = HeardArgs(a[i], r[i])

\* Table n has records that say what is believed.
TableIs(x, a, n) ==
  \A k \in DOMAIN n : n[k].exe \in Names /\ n[k].exe = x[k.tgid] /\ n[k].args = a[k.tgid]

\* In the kernel things are as is believed.
KernelIs(x, a, l, im, g, tk) ==
  /\ DOMAIN im = DOMAIN l /\ \A id \in DOMAIN l : im[id] = x[id.tgid]
  /\ \A t \in DOMAIN g : x[t] = g[t].image
  /\ \A t \in DOMAIN tk : tk[t].execing # NoName => a[t] = tk[t].execing

\* The truths of the ring's events are those believed before each of them.
TruthsAre(x, a, r, tr, l) ==
  \A i \in 1 .. Len(r) :
    /\ Judged(r[i]) => tr[i] = TruthBy(x[i], r[i], LineIn(l, Id(r[i].tgid, r[i].start)))
    /\ r[i].kind = "proc_exec" => a[i][r[i].tgid] = r[i].exe

Believed ==
  /\ Len(truths) = Len(ring) /\ \E S : truths \in Seq(S)
  /\ \E x, a :
       /\ Thinks(x, a, ring)
       /\ TableIs(x[1], a[1], nodes)
       /\ KernelIs(x[Len(ring) + 1], a[Len(ring) + 1], lineage, images, group, task)
       /\ TruthsAre(x, a, ring, truths, lineage)

LEMMA HeardTyped ==
  ASSUME NEW e \in Event, NEW x \in Belief
  PROVE  HeardExe(x, e) \in Belief /\ HeardArgs(x, e) \in Belief
<1>1. \A t \in Tgids : x[t] \in Names \cup {NoName}
  BY DEF Belief
<1> QED
  BY <1>1, EventFields DEF HeardExe, HeardArgs, Belief

\* The truth at an event about to be emitted.
LEMMA TruthIs ==
  ASSUME KeyedInv, Descent(lineage), NEW x, NEW a,
         KernelIs(x, a, lineage, images, group, task),
         NEW e \in Event, Judged(e), e.tgid \in DOMAIN group, Id(e.tgid, e.start) \in DOMAIN lineage
  PROVE  TruthOf(e) = TruthBy(x, e, LineIn(lineage, Id(e.tgid, e.start)))
<1> DEFINE id == Identity(e.tgid)
           n == LengthIn(lineage, id)
           up == UpFrom(lineage, id)
           chain == [j \in DOMAIN LineIn(lineage, id) |-> x[LineIn(lineage, id)[j]]]
<1>1. id \in DOMAIN lineage /\ id.tgid = e.tgid
  BY DEF KeyedInv, PipelineInv, TypeInv, KernelSound, Descended, Identity, Id
<1>2. id = Id(e.tgid, e.start)
  BY <1>1 DEF KeyedInv, Watching, OnePerPid, Id
<1>3. up = Forebear(id) /\ n = Cardinality({i \in Generations : Forebear(id)[i] # NoKey})
  BY DEF UpFrom, Forebear, LengthIn, Generations
<1>4. images[id] = x[e.tgid]
  BY <1>1 DEF KernelIs
<1>5. LineIn(lineage, id) = [j \in 1 .. n |-> up[j - 1].tgid]
  BY DEF LineIn
<1>6. NoKey \notin DOMAIN lineage
  BY ProcTableAssumption DEF Descent
<1>7. /\ n \in Nat /\ \A i \in Nat : up[i] # NoKey <=> i < n
      /\ \A i \in Nat : up[i] \in DOMAIN lineage \cup {NoKey}
  BY <1>1, LineIs, UpFromStays
<1> HIDE DEF id, n, up
<1>8. \A j \in 1 .. n : up[j - 1] \in DOMAIN lineage
  <2> TAKE j \in 1 .. n
  <2>1. j - 1 \in Nat /\ j - 1 < n
    BY <1>7
  <2> QED
    BY <1>7, <2>1
<1>9. \A j \in 1 .. n : images[up[j - 1]] = x[LineIn(lineage, id)[j]]
  BY <1>5, <1>8 DEF KernelIs
<1>10. RealChain(id) = [j \in 1 .. n |-> images[up[j - 1]]]
  BY <1>3 DEF RealChain
<1>11. chain = [j \in 1 .. n |-> x[LineIn(lineage, id)[j]]]
  BY <1>5
<1>12. RealChain(id) = chain
  BY <1>9, <1>10, <1>11
<1> HIDE DEF chain
<1>13. e.kind = "proc_exec" =>
         /\ TruthOf(e) = [actor |-> images[id], chain |-> RealChain(id), path |-> e.exe, args |-> e.exe]
         /\ TruthBy(x, e, LineIn(lineage, id)) =
              [actor |-> x[e.tgid], chain |-> chain, path |-> e.exe, args |-> e.exe]
  BY DEF TruthOf, TruthBy, id, chain
<1>14. e.kind = "open" =>
         /\ TruthOf(e) = [actor |-> images[id], chain |-> RealChain(id), path |-> e.path]
         /\ TruthBy(x, e, LineIn(lineage, id)) =
              [actor |-> x[e.tgid], chain |-> chain, path |-> e.path]
  BY DEF TruthOf, TruthBy, id, chain
<1>15. e.kind = "connect" =>
         /\ TruthOf(e) = [actor |-> images[id], chain |-> RealChain(id), path |-> images[id]]
         /\ TruthBy(x, e, LineIn(lineage, id)) =
              [actor |-> x[e.tgid], chain |-> chain, path |-> x[e.tgid]]
  BY DEF TruthOf, TruthBy, id, chain
<1> QED
  BY <1>2, <1>4, <1>12, <1>13, <1>14, <1>15 DEF Judged

\* The last images after a step of the kernel.
Pictured ==
  images' = [id \in DOMAIN lineage' |->
               IF id \in Alive' THEN group'[id.tgid].image ELSE images[id]]

LEMMA PicturesAre ==
  ASSUME KeyedInv', Pictured
  PROVE  /\ DOMAIN images' = DOMAIN lineage'
         /\ \A id \in DOMAIN lineage' :
              images'[id] = IF id.tgid \in DOMAIN group' THEN group'[id.tgid].image ELSE images[id]
<1>1. Alive' = {Id(t, group'[t].start) : t \in DOMAIN group'}
  BY DEF Alive, Identity
<1>2. \A t \in DOMAIN group' : Id(t, group'[t].start) \in DOMAIN lineage'
  BY DEF KeyedInv, PipelineInv, TypeInv, KernelSound, Descended, Identity
<1>3. \A id \in DOMAIN lineage' : \A other \in DOMAIN lineage' : other.tgid = id.tgid => other = id
  BY DEF KeyedInv, Watching, OnePerPid
<1>4. \A t, st : Id(t, st).tgid = t
  BY DEF Id
<1>5. \A id \in DOMAIN lineage' : id \in Alive' <=> id.tgid \in DOMAIN group'
  BY <1>1, <1>2, <1>3, <1>4
<1> QED
  BY <1>5 DEF Pictured

LEMMA KernelHears ==
  ASSUME KeyedInv, KeyedInv', Pictured, NEW e \in Event, Tells(e),
         NEW x \in Belief, NEW a \in Belief, KernelIs(x, a, lineage, images, group, task)
  PROVE  /\ KernelIs(HeardExe(x, e), HeardArgs(a, e), lineage', images', group', task')
         /\ e.kind = "proc_exec" => a[e.tgid] = e.exe
<1> DEFINE y == HeardExe(x, e)
           c == HeardArgs(a, e)
<1>1. /\ e.tgid \in DOMAIN group /\ KernelView' = After(KernelView, e)
      /\ IF e.kind = "fork" THEN Begets(e) ELSE lineage' = lineage
      /\ Attempts(e)
  BY DEF Tells
<1>2. /\ e.kind \in {"fork", "exec", "proc_exec", "exit", "open", "connect"} /\ e.tgid \in Tgids
      /\ e.kind = "fork" => e.child \in Tgids
  BY EventFields
<1>3. \A t \in DOMAIN group : t \in Tgids
  BY DEF KeyedInv, PipelineInv, TypeInv, KernelSound, KernelTyped
<1>4. \A t \in Tgids :
        /\ y[t] = IF e.kind = "fork" /\ t = e.child THEN x[e.tgid]
                  ELSE IF e.kind = "proc_exec" /\ t = e.tgid THEN e.exe ELSE x[t]
        /\ c[t] = IF e.kind = "fork" /\ t = e.child THEN NoName
                  ELSE IF e.kind = "exec" /\ t = e.tgid THEN e.args ELSE a[t]
  BY <1>2 DEF HeardExe, HeardArgs, Belief
<1> HIDE DEF y, c
<1>5. /\ DOMAIN KernelView = DOMAIN group /\ \A t \in DOMAIN group : KernelView[t] = x[t]
      /\ DOMAIN KernelView' = DOMAIN group' /\ \A t \in DOMAIN group' : KernelView'[t] = group'[t].image
  BY DEF KernelView, KernelIs
<1>6. /\ e.kind = "fork" => e.child \in DOMAIN group'
      /\ e.kind = "proc_exec" => e.tgid \in DOMAIN group'
      /\ \A t \in DOMAIN group' : group'[t].image = y[t]
  <2> DEFINE v == KernelView
             w == KernelView'
  <2>1. w = After(v, e) /\ e.tgid \in DOMAIN v
    BY <1>1, <1>5
  <2>2. DOMAIN v = DOMAIN group /\ \A t \in DOMAIN v : v[t] = x[t] /\ t \in Tgids
    BY <1>3, <1>5
  <2>3. DOMAIN w = DOMAIN group' /\ \A t \in DOMAIN w : group'[t].image = w[t]
    BY <1>5
  <2> HIDE DEF v, w
  <2>4. CASE e.kind = "fork"
    <3>1. w = Insert(v, e.child, v[e.tgid])
      BY <2>1, <2>4 DEF After
    <3>2. DOMAIN w = DOMAIN v \cup {e.child}
          /\ \A t \in DOMAIN w : w[t] = IF t = e.child THEN v[e.tgid] ELSE v[t]
      BY <3>1 DEF Insert
    <3> QED
      BY <1>2, <1>4, <2>1, <2>2, <2>3, <2>4, <3>2
  <2>5. CASE e.kind = "proc_exec"
    <3>1. w = [v EXCEPT ![e.tgid] = e.exe]
      BY <2>1, <2>5 DEF After
    <3> QED
      BY <1>4, <2>1, <2>2, <2>3, <2>5, <3>1
  <2>6. CASE e.kind # "fork" /\ e.kind # "proc_exec"
    <3>1. w = v \/ w = Without(v, {e.tgid})
      BY <2>1, <2>6 DEF After
    <3>2. \A t \in DOMAIN w : t \in DOMAIN v /\ w[t] = v[t]
      BY <3>1 DEF Without
    <3> QED
      BY <1>4, <2>2, <2>3, <2>6, <3>2
  <2> QED
    BY <2>4, <2>5, <2>6
<1>7. \A id \in DOMAIN lineage' : id \in DOMAIN lineage \/ (e.kind = "fork" /\ id.tgid = e.child)
  BY <1>1 DEF Begets
<1>8. \A id \in DOMAIN lineage : id.tgid \in Tgids
  BY DEF KeyedInv, PipelineInv, TypeInv, KernelSound, KernelTyped, ProcKey
<1>9. \A id \in DOMAIN lineage' : images'[id] = y[id.tgid]
  <2> TAKE id \in DOMAIN lineage'
  <2>1. CASE id.tgid \in DOMAIN group'
    BY <1>6, <2>1, PicturesAre
  <2>2. CASE id.tgid \notin DOMAIN group'
    <3>1. id \in DOMAIN lineage /\ images'[id] = images[id]
      BY <1>6, <1>7, <2>2, PicturesAre
    <3>2. images[id] = x[id.tgid]
      BY <3>1 DEF KernelIs
    <3> QED
      BY <1>4, <1>6, <1>8, <2>2, <3>1, <3>2
  <2> QED
    BY <2>1, <2>2
<1>10. \A t \in DOMAIN task : t \in Tgids
  BY DEF KeyedInv, PipelineInv, TypeInv, KernelSound, KernelTyped
<1>11. e.kind = "fork" => e.child \notin DOMAIN task
  BY <1>1, PidsAreNumbers DEF Begets, New, KeyedInv, PipelineInv, PidsGivenOut
<1>12. \A t \in DOMAIN task' : task'[t].execing # NoName => c[t] = task'[t].execing
  <2> SUFFICES ASSUME NEW t \in DOMAIN task', task'[t].execing # NoName
               PROVE  c[t] = task'[t].execing
    OBVIOUS
  <2>1. IF e.kind = "exec" /\ t = e.tgid THEN task'[t].execing = e.args
        ELSE t \in DOMAIN task /\ task'[t].execing = task[t].execing
    BY <1>1 DEF Attempts, Trying
  <2>2. CASE e.kind = "exec" /\ t = e.tgid
    BY <1>2, <1>4, <2>1, <2>2
  <2>3. CASE ~(e.kind = "exec" /\ t = e.tgid)
    <3>1. t \in DOMAIN task /\ task[t].execing # NoName /\ task'[t].execing = task[t].execing
      BY <2>1, <2>3
    <3>2. a[t] = task[t].execing
      BY <3>1 DEF KernelIs
    <3> QED
      BY <1>4, <1>10, <1>11, <2>3, <3>1, <3>2
  <2> QED
    BY <2>2, <2>3
<1>13. e.kind = "proc_exec" => a[e.tgid] = e.exe
  BY <1>1 DEF Attempts, Trying, KernelIs
<1> QED
  BY <1>6, <1>9, <1>12, <1>13, PicturesAre DEF KernelIs, y, c

LEMMA SilenceHeard ==
  ASSUME KeyedInv', Pictured, Silent, NEW x, NEW a, KernelIs(x, a, lineage, images, group, task)
  PROVE  KernelIs(x, a, lineage', images', group', task')
<1>1. lineage' = lineage /\ KernelView' = KernelView
  BY DEF Silent
<1>2. /\ DOMAIN group' = DOMAIN group /\ \A t \in DOMAIN group : group'[t].image = group[t].image
  <2>1. /\ DOMAIN KernelView = DOMAIN group /\ \A t \in DOMAIN group : KernelView[t] = group[t].image
        /\ DOMAIN KernelView' = DOMAIN group'
        /\ \A t \in DOMAIN group' : KernelView'[t] = group'[t].image
    BY DEF KernelView
  <2> QED
    BY <1>1, <2>1
<1>3. \A id \in DOMAIN lineage' : images'[id] = x[id.tgid]
  BY <1>1, <1>2, PicturesAre DEF KernelIs
<1>4. \A t \in DOMAIN task' : task'[t].execing # NoName => a[t] = task'[t].execing
  BY DEF Silent, Trying, KernelIs
<1> QED
  BY <1>2, <1>3, <1>4, PicturesAre DEF KernelIs

\* One more event to hear.
LEMMA ThinksGrows ==
  ASSUME NEW r \in Seq(Event), NEW e \in Event, NEW x, NEW a, Thinks(x, a, r)
  PROVE  \E y, c :
           /\ Thinks(y, c, Append(r, e))
           /\ \A i \in 1 .. Len(r) + 1 : y[i] = x[i] /\ c[i] = a[i]
           /\ y[Len(r) + 2] = HeardExe(x[Len(r) + 1], e) /\ c[Len(r) + 2] = HeardArgs(a[Len(r) + 1], e)
<1> DEFINE n == Len(r)
           q == Append(r, e)
           last == HeardExe(x[n + 1], e)
           final == HeardArgs(a[n + 1], e)
           y == [i \in 1 .. n + 2 |-> IF i = n + 2 THEN last ELSE x[i]]
           c == [i \in 1 .. n + 2 |-> IF i = n + 2 THEN final ELSE a[i]]
<1>1. n \in Nat /\ Len(q) = n + 1 /\ q[n + 1] = e /\ \A i \in 1 .. n : q[i] = r[i]
  BY Appended
<1>2. /\ \A i \in 1 .. n + 1 : x[i] \in Belief /\ a[i] \in Belief
      /\ \A i \in 1 .. n : x[i + 1] = HeardExe(x[i], r[i]) /\ a[i + 1] = HeardArgs(a[i], r[i])
  BY DEF Thinks
<1> HIDE DEF n, q
<1>3. last \in Belief /\ final \in Belief
  BY <1>1, <1>2, HeardTyped
<1>4. last = HeardExe(x[n + 1], e) /\ final = HeardArgs(a[n + 1], e)
  OBVIOUS
<1> HIDE DEF last, final
<1>5. /\ \A i \in 1 .. n + 1 : y[i] = x[i] /\ c[i] = a[i]
      /\ y[n + 2] = last /\ c[n + 2] = final
  BY <1>1
<1>6. y \in [1 .. n + 2 -> Belief] /\ c \in [1 .. n + 2 -> Belief]
  <2>1. \A i \in 1 .. n + 2 : i = n + 2 \/ i \in 1 .. n + 1
    BY <1>1
  <2> QED
    BY <1>2, <1>3, <2>1
<1> HIDE DEF y, c
<1>7. ASSUME NEW i \in 1 .. Len(q)
      PROVE  y[i + 1] = HeardExe(y[i], q[i]) /\ c[i + 1] = HeardArgs(c[i], q[i])
  <2>1. CASE i = n + 1
    <3>1. i + 1 = n + 2 /\ i \in 1 .. n + 1
      BY <1>1, <2>1
    <3> QED
      BY <1>1, <1>4, <1>5, <2>1, <3>1
  <2>2. CASE i # n + 1
    <3>1. i \in 1 .. n /\ i \in 1 .. n + 1 /\ i + 1 \in 1 .. n + 1
      BY <1>1, <2>2
    <3> QED
      BY <1>1, <1>2, <1>5, <3>1
  <2> QED
    BY <2>1, <2>2
<1>8. Len(q) + 1 = n + 2
  BY <1>1
<1>9. Thinks(y, c, q)
  BY <1>6, <1>7, <1>8 DEF Thinks
<1> QED
  BY <1>4, <1>5, <1>9 DEF n, q

\* One event less to hear.
LEMMA ThinksMovesOn ==
  ASSUME NEW r \in Seq(Event), r # <<>>, NEW x, NEW a, Thinks(x, a, r)
  PROVE  \E y, c :
           /\ Thinks(y, c, Tail(r))
           /\ \A i \in 1 .. Len(r) : y[i] = x[i + 1] /\ c[i] = a[i + 1]
<1> DEFINE n == Len(r)
           q == Tail(r)
           y == [i \in 1 .. n |-> x[i + 1]]
           c == [i \in 1 .. n |-> a[i + 1]]
<1>1. n \in Nat \ {0} /\ Len(q) = n - 1 /\ \A i \in 1 .. n - 1 : q[i] = r[i + 1]
  BY Taken
<1>2. /\ \A i \in 1 .. n + 1 : x[i] \in Belief /\ a[i] \in Belief
      /\ \A i \in 1 .. n : x[i + 1] = HeardExe(x[i], r[i]) /\ a[i + 1] = HeardArgs(a[i], r[i])
  BY DEF Thinks
<1> HIDE DEF n, q
<1>3. y \in [1 .. n -> Belief] /\ c \in [1 .. n -> Belief]
  <2>1. \A i \in 1 .. n : i + 1 \in 1 .. n + 1
    BY <1>1
  <2> QED
    BY <1>2, <2>1
<1>4. \A i \in 1 .. n : y[i] = x[i + 1] /\ c[i] = a[i + 1]
  OBVIOUS
<1> HIDE DEF y, c
<1>5. ASSUME NEW i \in 1 .. Len(q)
      PROVE  y[i + 1] = HeardExe(y[i], q[i]) /\ c[i + 1] = HeardArgs(c[i], q[i])
  <2>1. i \in 1 .. n /\ i + 1 \in 1 .. n /\ i \in 1 .. n - 1
    BY <1>1
  <2>2. q[i] = r[i + 1] /\ y[i + 1] = x[(i + 1) + 1] /\ c[i + 1] = a[(i + 1) + 1]
        /\ y[i] = x[i + 1] /\ c[i] = a[i + 1]
    BY <1>1, <1>4, <2>1
  <2> QED
    BY <1>2, <2>1, <2>2
<1>6. Len(q) + 1 = n
  BY <1>1
<1>7. Thinks(y, c, q)
  BY <1>3, <1>5, <1>6 DEF Thinks
<1> QED
  BY <1>4, <1>7 DEF n, q

\* Of a step that event e tells.
LEMMA BelievedTells ==
  ASSUME KeyedInv, KeyedInv', Descent(lineage), Believed, Pictured, UNCHANGED tableVars,
         \A id \in DOMAIN lineage :
           id \in DOMAIN lineage' /\ LineIn(lineage', id) = LineIn(lineage, id),
         NEW e \in Event, Tells(e), truths' = Append(truths, TruthOf(e))
  PROVE  Believed'
<1> DEFINE n == Len(ring)
           v == TruthOf(e)
           line(l, d) == LineIn(l, Id(d.tgid, d.start))
<1>1. ring \in Seq(Event) /\ ring' = Append(ring, e) /\ e.tgid \in DOMAIN group /\ nodes' = nodes
  BY DEF KeyedInv, PipelineInv, TypeInv, RingTyped, Tells, tableVars
<1>2. PICK S : truths \in Seq(S)
  BY DEF Believed
<1>3. PICK x, a :
        /\ Thinks(x, a, ring)
        /\ TableIs(x[1], a[1], nodes)
        /\ KernelIs(x[Len(ring) + 1], a[Len(ring) + 1], lineage, images, group, task)
        /\ TruthsAre(x, a, ring, truths, lineage)
  BY DEF Believed
<1>4. Len(truths) = n
  BY DEF Believed
<1>5. /\ n \in Nat /\ Len(ring') = n + 1 /\ ring'[n + 1] = e
      /\ \A i \in 1 .. n : ring'[i] = ring[i]
  BY <1>1, Appended
<1>6. /\ truths' \in Seq(S \cup {v}) /\ Len(truths') = n + 1 /\ truths'[n + 1] = v
      /\ \A i \in 1 .. n : truths'[i] = truths[i]
  <2> HIDE DEF v
  <2>1. truths' = Append(truths, v)
    BY DEF v
  <2> QED
    BY <1>2, <1>4, <2>1
<1>7. PICK y, c :
        /\ Thinks(y, c, Append(ring, e))
        /\ \A i \in 1 .. Len(ring) + 1 : y[i] = x[i] /\ c[i] = a[i]
        /\ y[Len(ring) + 2] = HeardExe(x[Len(ring) + 1], e)
        /\ c[Len(ring) + 2] = HeardArgs(a[Len(ring) + 1], e)
  BY <1>1, <1>3, ThinksGrows
<1>8. x[n + 1] \in Belief /\ a[n + 1] \in Belief
  BY <1>3, <1>5 DEF Thinks
<1> HIDE DEF v
<1>9. Judged(e) => v = TruthBy(x[n + 1], e, line(lineage, e))
  BY <1>1, <1>3, TruthIs DEF Judged, Tells, v
<1>10. /\ KernelIs(HeardExe(x[n + 1], e), HeardArgs(a[n + 1], e), lineage', images', group', task')
       /\ e.kind = "proc_exec" => a[n + 1][e.tgid] = e.exe
  BY <1>3, <1>8, KernelHears
<1>11. \A i \in 1 .. n : Judged(ring[i]) => line(lineage', ring[i]) = line(lineage, ring[i])
  BY DEF Judged, KeyedInv, Stamped
<1>12. Judged(e) => line(lineage', e) = line(lineage, e)
  BY DEF Judged, Tells
<1>13. Thinks(y, c, ring')
  BY <1>1, <1>7
<1>14. y[1] = x[1] /\ c[1] = a[1] /\ y[n + 1] = x[n + 1] /\ c[n + 1] = a[n + 1]
       /\ \A i \in 1 .. n : y[i] = x[i] /\ c[i] = a[i]
  <2>1. 1 \in 1 .. n + 1 /\ n + 1 \in 1 .. n + 1 /\ \A i \in 1 .. n : i \in 1 .. n + 1
    BY <1>5
  <2> QED
    BY <1>7, <2>1
<1>15. y[Len(ring') + 1] = HeardExe(x[n + 1], e) /\ c[Len(ring') + 1] = HeardArgs(a[n + 1], e)
  <2>1. Len(ring') + 1 = n + 2
    BY <1>5
  <2> QED
    BY <1>7, <2>1
<1> HIDE DEF n, line
<1>16. TruthsAre(y, c, ring', truths', lineage')
  <2>1. ASSUME NEW i \in 1 .. Len(ring')
        PROVE  /\ Judged(ring'[i]) => truths'[i] = TruthBy(y[i], ring'[i], line(lineage', ring'[i]))
               /\ ring'[i].kind = "proc_exec" => c[i][ring'[i].tgid] = ring'[i].exe
    <3>1. CASE i = n + 1
      BY <1>5, <1>6, <1>9, <1>10, <1>12, <1>14, <3>1
    <3>2. CASE i # n + 1
      <4>1. i \in 1 .. n
        BY <1>5, <3>2
      <4>2. /\ Judged(ring[i]) => truths[i] = TruthBy(x[i], ring[i], line(lineage, ring[i]))
            /\ ring[i].kind = "proc_exec" => a[i][ring[i].tgid] = ring[i].exe
        BY <1>3, <4>1 DEF TruthsAre, n, line
      <4> QED
        BY <1>5, <1>6, <1>11, <1>14, <4>1, <4>2
    <3> QED
      BY <3>1, <3>2
  <2> QED
    BY <2>1 DEF TruthsAre, line
<1>17. TableIs(y[1], c[1], nodes')
  BY <1>1, <1>3, <1>14
<1>18. KernelIs(y[Len(ring') + 1], c[Len(ring') + 1], lineage', images', group', task')
  BY <1>10, <1>15
<1>19. Len(truths') = Len(ring')
  BY <1>5, <1>6
<1> QED
  BY <1>6, <1>13, <1>16, <1>17, <1>18, <1>19 DEF Believed

\* Of a step of which there is nothing to tell.
LEMMA BelievedSilent ==
  ASSUME KeyedInv', Believed, Pictured, UNCHANGED tableVars, Silent, truths' = truths
  PROVE  Believed'
<1>1. ring' = ring /\ lineage' = lineage /\ nodes' = nodes
  BY DEF Silent, tableVars
<1>2. PICK x, a :
        /\ Thinks(x, a, ring)
        /\ TableIs(x[1], a[1], nodes)
        /\ KernelIs(x[Len(ring) + 1], a[Len(ring) + 1], lineage, images, group, task)
        /\ TruthsAre(x, a, ring, truths, lineage)
  BY DEF Believed
<1>3. KernelIs(x[Len(ring) + 1], a[Len(ring) + 1], lineage', images', group', task')
  BY <1>2, SilenceHeard
<1>4. Len(truths) = Len(ring) /\ \E S : truths \in Seq(S)
  BY DEF Believed
<1> QED
  BY <1>1, <1>2, <1>3, <1>4 DEF Believed

\* The table hears an event as the belief does.
LEMMA TableHears ==
  ASSUME TypeInv, NEW e \in Event, NEW x \in Belief, NEW a \in Belief, TableIs(x, a, nodes),
         Hears(e) \/ (e.kind \in {"open", "connect"} /\ nodes' = nodes)
  PROVE  TableIs(HeardExe(x, e), HeardArgs(a, e), nodes')
<1> DEFINE y == HeardExe(x, e)
           c == HeardArgs(a, e)
<1>1. /\ e.kind \in {"fork", "exec", "proc_exec", "exit", "open", "connect"} /\ e.tgid \in Tgids
      /\ e.kind = "fork" => e.child \in Tgids
      /\ e.kind = "proc_exec" => e.exe \in Names
  BY EventFields
<1>2. \A t \in Tgids :
        /\ y[t] = IF e.kind = "fork" /\ t = e.child THEN x[e.tgid]
                  ELSE IF e.kind = "proc_exec" /\ t = e.tgid THEN e.exe ELSE x[t]
        /\ c[t] = IF e.kind = "fork" /\ t = e.child THEN NoName
                  ELSE IF e.kind = "exec" /\ t = e.tgid THEN e.args ELSE a[t]
  BY <1>1 DEF HeardExe, HeardArgs, Belief
<1>3. \A k \in DOMAIN nodes :
        k.tgid \in Tgids /\ nodes[k].exe \in Names /\ nodes[k].exe = x[k.tgid] /\ nodes[k].args = a[k.tgid]
  BY DEF TableIs, TypeInv, TableTypeOK, ProcKey
<1> HIDE DEF y, c
<1>4. CASE Hears(e)
  <2> SUFFICES ASSUME NEW k \in DOMAIN nodes'
               PROVE  /\ nodes'[k].exe \in Names /\ nodes'[k].exe = y[k.tgid]
                      /\ nodes'[k].args = c[k.tgid]
    BY DEF TableIs, y, c
  <2>1. CASE e.kind = "fork" /\ k.tgid = e.child
    <3>1. nodes'[k].args = NoName /\ \E m \in DOMAIN nodes : m.tgid = e.tgid /\ nodes'[k].exe = nodes[m].exe
      BY <1>4, <2>1 DEF Hears
    <3>2. y[k.tgid] = x[e.tgid] /\ c[k.tgid] = NoName
      BY <1>1, <1>2, <2>1
    <3> QED
      BY <1>3, <3>1, <3>2
  <2>2. CASE ~(e.kind = "fork" /\ k.tgid = e.child)
    <3>1. PICK m \in DOMAIN nodes :
            /\ m.tgid = k.tgid
            /\ nodes'[k].exe = IF e.kind = "proc_exec" /\ k.tgid = e.tgid THEN e.exe ELSE nodes[m].exe
            /\ nodes'[k].args = IF e.kind = "exec" /\ k.tgid = e.tgid THEN e.args ELSE nodes[m].args
      BY <1>4, <2>2 DEF Hears
    <3>2. /\ k.tgid \in Tgids /\ nodes[m].exe \in Names
          /\ nodes[m].exe = x[k.tgid] /\ nodes[m].args = a[k.tgid]
      BY <1>3, <3>1
    <3>3. /\ y[k.tgid] = IF e.kind = "proc_exec" /\ k.tgid = e.tgid THEN e.exe ELSE x[k.tgid]
          /\ c[k.tgid] = IF e.kind = "exec" /\ k.tgid = e.tgid THEN e.args ELSE a[k.tgid]
      BY <1>2, <2>2, <3>2
    <3> QED
      BY <1>1, <3>1, <3>2, <3>3
  <2> QED
    BY <2>1, <2>2
<1>5. CASE e.kind \in {"open", "connect"} /\ nodes' = nodes
  <2>1. \A t \in Tgids : y[t] = x[t] /\ c[t] = a[t]
    BY <1>2, <1>5
  <2> QED
    BY <1>3, <1>5, <2>1 DEF TableIs, y, c
<1> QED
  BY <1>4, <1>5

\* The table hears every event it applies.
LEMMA ConsumeHears == ASSUME LineageInv, Consume PROVE Hears(Head(ring))
<1>1. ring # <<>> /\ UNCHANGED kernelVars
  BY DEF Consume, ConsumeFork, ConsumeExec, ConsumeProcExec, ConsumeExit, Take
<1>2. Follows(Head(ring))
  BY <1>1, ForkFollows, ExecFollows, ProcExecFollows, ExitFollows
     DEF Consume, ConsumeFork, ConsumeExec, ConsumeProcExec, ConsumeExit, Take
<1> QED
  BY <1>2 DEF Follows

\* Of an event that was taken.
LEMMA BelievedMovesOn ==
  ASSUME TypeInv, Believed, ring # <<>>, ring' = Tail(ring), truths' = Tail(truths),
         UNCHANGED <<kernelVars, images>>,
         Hears(Head(ring)) \/ (Head(ring).kind \in {"open", "connect"} /\ nodes' = nodes)
  PROVE  Believed'
<1> DEFINE n == Len(ring)
           e == Head(ring)
<1>1. ring \in Seq(Event) /\ lineage' = lineage /\ group' = group /\ task' = task /\ images' = images
  BY DEF TypeInv, RingTyped, kernelVars
<1>2. PICK S : truths \in Seq(S)
  BY DEF Believed
<1>3. PICK x, a :
        /\ Thinks(x, a, ring)
        /\ TableIs(x[1], a[1], nodes)
        /\ KernelIs(x[Len(ring) + 1], a[Len(ring) + 1], lineage, images, group, task)
        /\ TruthsAre(x, a, ring, truths, lineage)
  BY DEF Believed
<1>4. /\ n \in Nat \ {0} /\ Len(ring') = n - 1 /\ e = ring[1] /\ e \in Event
      /\ \A i \in 1 .. n - 1 : ring'[i] = ring[i + 1]
  BY <1>1, Taken
<1>5. Len(truths) = n
  BY DEF Believed
<1>6. /\ truths' \in Seq(S) /\ Len(truths') = n - 1
      /\ \A i \in 1 .. n - 1 : truths'[i] = truths[i + 1]
  <2> HIDE DEF n
  <2>1. truths # <<>>
    BY <1>4, <1>5
  <2> QED
    BY <1>2, <1>4, <1>5, <2>1
<1>7. PICK y, c :
        /\ Thinks(y, c, Tail(ring))
        /\ \A i \in 1 .. Len(ring) : y[i] = x[i + 1] /\ c[i] = a[i + 1]
  BY <1>1, <1>3, ThinksMovesOn
<1>8. /\ x[1] \in Belief /\ a[1] \in Belief
      /\ x[2] = HeardExe(x[1], e) /\ a[2] = HeardArgs(a[1], e)
  <2>1. 1 \in 1 .. n /\ 1 \in 1 .. n + 1 /\ 1 + 1 = 2
    BY <1>4
  <2> QED
    BY <1>3, <1>4, <2>1 DEF Thinks
<1>9. TableIs(x[2], a[2], nodes')
  BY <1>3, <1>4, <1>8, TableHears
<1> HIDE DEF n
<1>10. y[1] = x[2] /\ c[1] = a[2] /\ y[Len(ring') + 1] = x[n + 1] /\ c[Len(ring') + 1] = a[n + 1]
  <2>1. /\ 1 \in 1 .. n /\ 1 + 1 = 2 /\ Len(ring') + 1 \in 1 .. n
        /\ (Len(ring') + 1) + 1 = n + 1
    BY <1>4
  <2> QED
    BY <1>7, <2>1 DEF n
<1>11. TruthsAre(y, c, ring', truths', lineage')
  <2>1. ASSUME NEW i \in 1 .. Len(ring')
        PROVE  /\ Judged(ring'[i]) => truths'[i] = TruthBy(y[i], ring'[i], LineIn(lineage', Id(ring'[i].tgid, ring'[i].start)))
               /\ ring'[i].kind = "proc_exec" => c[i][ring'[i].tgid] = ring'[i].exe
    <3>1. i \in 1 .. n - 1 /\ i \in 1 .. n /\ i + 1 \in 1 .. n
      BY <1>4
    <3>2. /\ ring'[i] = ring[i + 1] /\ truths'[i] = truths[i + 1]
          /\ y[i] = x[i + 1] /\ c[i] = a[i + 1]
      BY <1>4, <1>6, <1>7, <3>1 DEF n
    <3> QED
      BY <1>1, <1>3, <3>1, <3>2 DEF TruthsAre, n
  <2> QED
    BY <2>1 DEF TruthsAre
<1>12. KernelIs(y[Len(ring') + 1], c[Len(ring') + 1], lineage', images', group', task')
  BY <1>1, <1>3, <1>10 DEF n
<1>13. Thinks(y, c, ring') /\ TableIs(y[1], c[1], nodes')
  BY <1>7, <1>9, <1>10
<1>14. Len(truths') = Len(ring')
  BY <1>4, <1>6
<1> QED
  BY <1>6, <1>11, <1>12, <1>13, <1>14 DEF Believed

\* Of the timer's steps and the passing of time.
LEMMA BelievedKept ==
  ASSUME Believed, UNCHANGED <<kernelVars, ring, truths, images>>,
         \A k \in DOMAIN nodes' :
           k \in DOMAIN nodes /\ nodes'[k].exe = nodes[k].exe /\ nodes'[k].args = nodes[k].args
  PROVE  Believed'
<1>1. PICK x, a :
        /\ Thinks(x, a, ring)
        /\ TableIs(x[1], a[1], nodes)
        /\ KernelIs(x[Len(ring) + 1], a[Len(ring) + 1], lineage, images, group, task)
        /\ TruthsAre(x, a, ring, truths, lineage)
  BY DEF Believed
<1>2. TableIs(x[1], a[1], nodes')
  BY <1>1 DEF TableIs
<1>3. Len(truths) = Len(ring) /\ \E S : truths \in Seq(S)
  BY DEF Believed
<1>4. /\ ring' = ring /\ truths' = truths /\ images' = images
      /\ lineage' = lineage /\ group' = group /\ task' = task
  BY DEF kernelVars
<1> QED
  BY <1>1, <1>2, <1>3, <1>4 DEF Believed

LEMMA TimerKeepsNames ==
  ASSUME TypeInv, Expire \/ Tick
  PROVE  /\ UNCHANGED <<kernelVars, ring>>
         /\ \A k \in DOMAIN nodes' :
              k \in DOMAIN nodes /\ nodes'[k].exe = nodes[k].exe /\ nodes'[k].args = nodes[k].args
<1>1. \A k \in DOMAIN nodes : nodes[k] \in ProcNode
  BY DEF TypeInv, TableTypeOK
<1>2. CASE Expire
  BY <1>1, <1>2 DEF Expire, Reap, ProcNode
<1>3. CASE Tick
  BY <1>1, <1>3 DEF Tick, Elapse, ProcNode
<1> QED
  BY <1>2, <1>3

--------------------------------------------------------------------------------
(* What the engine is told is what was so *)

LEMMA ChainIsTrue ==
  ASSUME LineageInv, Descent(lineage), NEW id \in DOMAIN lineage,
         Resolve(id) \in DOMAIN nodes, Resolve(id).tgid = id.tgid,
         NEW x, NEW a, TableIs(x, a, nodes)
  PROVE  Chain(id) = [j \in DOMAIN LineIn(lineage, id) |-> x[LineIn(lineage, id)[j]]]
<1> DEFINE told == Ancestry(id)
           real == Forebear(id)
           n == LengthIn(lineage, id)
           K == {i \in Generations : told[i] \in DOMAIN nodes}
           J == {i \in Generations : real[i] # NoKey}
<1>1. TypeInv /\ Kinship
  BY DEF LineageInv, PipelineInv
<1>2. real = UpFrom(lineage, id)
  BY DEF Forebear, UpFrom
<1>3. \A i \in Nat : real[i] # NoKey => told[i] \in DOMAIN nodes
  BY NoneMissing
<1>4. \A i \in Nat : told[i] \in DOMAIN nodes => real[i] \in DOMAIN lineage /\ told[i].tgid = real[i].tgid
  BY <1>1, WalksAgree
<1>5. NoKey \notin DOMAIN lineage
  BY ProcTableAssumption DEF Descent
<1>6. n = Cardinality(J)
  BY <1>2 DEF LengthIn, Generations
<1>7. Chain(id) = [j \in 1 .. Cardinality(K) |-> Shown(told[j - 1])]
  BY DEF Chain
<1>8. n \in Nat /\ \A i \in Nat : real[i] # NoKey <=> i < n
  BY <1>2, LineIs
<1>9. LineIn(lineage, id) = [j \in 1 .. n |-> real[j - 1].tgid]
  BY <1>2 DEF LineIn
<1>10. Generations \subseteq Nat
  BY DEF Generations
<1> HIDE DEF told, real, n
<1>11. K = J
  BY <1>3, <1>4, <1>5, <1>10
<1>12. \A j \in 1 .. n : Shown(told[j - 1]) = x[real[j - 1].tgid]
  <2> TAKE j \in 1 .. n
  <2>1. j - 1 \in Nat /\ j - 1 < n
    BY <1>8
  <2>2. told[j - 1] \in DOMAIN nodes /\ told[j - 1].tgid = real[j - 1].tgid
    BY <1>3, <1>4, <1>8, <2>1
  <2>3. nodes[told[j - 1]].exe \in Names /\ nodes[told[j - 1]].exe = x[real[j - 1].tgid]
    BY <2>2 DEF TableIs
  <2> QED
    BY <2>3, DetectionAssumption DEF Shown
<1> HIDE DEF K, J
<1>13. Chain(id) = [j \in 1 .. n |-> Shown(told[j - 1])]
  BY <1>6, <1>7, <1>11
<1> QED
  BY <1>9, <1>12, <1>13

\* The engine is told of the event at the head of the ring what was so when it
\* was emitted.
LEMMA ToldIsTrue ==
  ASSUME LineageInv, KeyedInv, Descent(lineage), Believed, ring # <<>>, Judged(Head(ring))
  PROVE  \A f \in DOMAIN Head(truths) : Told(Head(ring), EventKey)[f] = Head(truths)[f]
<1> DEFINE e == Head(ring)
           key == EventKey
           r == by_tgid[e.tgid]
<1>1. PICK x, a :
        /\ Thinks(x, a, ring)
        /\ TableIs(x[1], a[1], nodes)
        /\ KernelIs(x[Len(ring) + 1], a[Len(ring) + 1], lineage, images, group, task)
        /\ TruthsAre(x, a, ring, truths, lineage)
  BY DEF Believed
<1>2. e = ring[1] /\ 1 \in 1 .. Len(ring)
  BY Taken DEF LineageInv, PipelineInv, TypeInv, RingTyped
<1>3. Head(truths) = truths[1]
  <2>1. PICK S : truths \in Seq(S)
    BY DEF Believed
  <2>2. Len(truths) = Len(ring)
    BY DEF Believed
  <2> QED
    BY <1>2, <2>1, <2>2
<1>4. /\ key \in ProcKey /\ key.tgid = e.tgid
      /\ e.tgid \in DOMAIN by_tgid /\ r \in DOMAIN nodes /\ r.tgid = e.tgid
      /\ \A k \in DOMAIN nodes : k.tgid = e.tgid => k = r
      /\ key \in DOMAIN lineage
  BY HeadIsKnown DEF Judged
<1>5. key = Id(e.tgid, e.start)
  BY DEF EventKey
<1>6. NoKey \notin DOMAIN nodes
  BY ProcTableAssumption DEF LineageInv, PipelineInv, Sound, Typed
<1>7. Resolve(key) = r
  BY <1>4 DEF Resolve, Newest
<1> DEFINE line == LineIn(lineage, key)
           chain == [j \in DOMAIN line |-> x[1][line[j]]]
           who == x[1][e.tgid]
<1>8. /\ Head(truths) = TruthBy(x[1], e, line)
      /\ e.kind = "proc_exec" => a[1][e.tgid] = e.exe
  BY <1>1, <1>2, <1>3, <1>5 DEF TruthsAre
<1>9. nodes[r].exe \in Names /\ nodes[r].exe = who /\ nodes[r].args = a[1][e.tgid]
  BY <1>1, <1>4 DEF TableIs
<1>10. Actor(key) = who /\ Of(key, "exe") = who /\ Of(key, "args") = a[1][e.tgid]
  BY <1>4, <1>6, <1>7, <1>9, DetectionAssumption DEF Actor, Of, Shown
<1>11. Chain(key) = chain
  BY <1>1, <1>4, <1>7, ChainIsTrue
<1> DEFINE told == Told(e, key)
<1>12. /\ told.actor = who /\ told.chain = chain /\ told.args = a[1][e.tgid]
       /\ e.kind = "proc_exec" => told.path = e.exe
       /\ e.kind = "open" => told.path = e.path
       /\ e.kind = "connect" => told.path = who
  BY <1>10, <1>11 DEF Told
<1>13. /\ e.kind = "proc_exec" => TruthBy(x[1], e, line) = [actor |-> who, chain |-> chain, path |-> e.exe, args |-> e.exe]
       /\ e.kind = "open" => TruthBy(x[1], e, line) = [actor |-> who, chain |-> chain, path |-> e.path]
       /\ e.kind = "connect" => TruthBy(x[1], e, line) = [actor |-> who, chain |-> chain, path |-> who]
  BY DEF TruthBy
<1>14. e.kind \in {"proc_exec", "open", "connect"}
  BY DEF Judged
<1> HIDE DEF told, chain, who, line, key, e
<1> SUFFICES \A f \in DOMAIN Head(truths) : told[f] = Head(truths)[f]
  BY DEF told, key, e
<1> QED
  BY <1>8, <1>12, <1>13, <1>14

--------------------------------------------------------------------------------
(* Nothing wrong is ever told *)

TruthInv == LineageInv /\ KeyedInv /\ Descent(lineage) /\ Believed /\ FactsTrue

\* At the start the belief is what was read from /proc.
LEMMA BelievedStarts == ASSUME Watched, DetectionInit PROVE Believed
<1> DEFINE x == [t \in Tgids |-> IF t \in DOMAIN Boot THEN Boot[t].image ELSE NoName]
           a == [t \in Tgids |-> IF t \in DOMAIN Boot THEN Snapshot[t].args ELSE NoName]
<1>1. /\ TableInit /\ KernelInit /\ attached = Kinds /\ ring = <<>> /\ truths = <<>>
      /\ images = [id \in Alive |-> group[id.tgid].image] /\ DOMAIN Snapshot = DOMAIN Boot
  BY DEF DetectionInit, Init, Watched
<1>2. \A t \in DOMAIN Boot :
        /\ t \in Tgids /\ Boot[t].image \in Names /\ Snapshot[t].exe = Boot[t].image
        /\ Snapshot[t].args \in Names \cup {NoName}
        /\ SeedKey(t).tgid = t
  BY <1>1, SensorAssumption, ProcTableAssumption DEF ProcInfo, SeedKey, SeedKeyIn
<1>3. x \in Belief /\ a \in Belief
  BY <1>2 DEF Belief
<1>4. \A t \in DOMAIN Boot : x[t] = Boot[t].image /\ a[t] = Snapshot[t].args
  BY <1>2
<1> HIDE DEF x, a
<1>5. /\ DOMAIN nodes = {SeedKey(t) : t \in DOMAIN Boot}
      /\ \A t \in DOMAIN Boot :
           nodes[SeedKey(t)].exe = Snapshot[t].exe /\ nodes[SeedKey(t)].args = Snapshot[t].args
  BY <1>1, <1>2 DEF TableInit, SeededFrom, SeedKey
<1>6. TableIs(x, a, nodes)
  <2> HIDE DEF SeedKey
  <2> QED
    BY <1>2, <1>4, <1>5 DEF TableIs
<1>7. /\ DOMAIN task = DOMAIN Boot /\ \A t \in DOMAIN Boot : task[t].execing = NoName
      /\ DOMAIN group = DOMAIN Boot
      /\ \A t \in DOMAIN Boot : group[t].start = Boot[t].start /\ group[t].image = Boot[t].image
  BY <1>1 DEF KernelInit
<1>8. DOMAIN lineage = {BootId(t) : t \in DOMAIN Boot}
  BY <1>1, KernelInitSound
<1>9. \A t \in DOMAIN Boot : BootId(t) = Identity(t) /\ BootId(t).tgid = t
  BY <1>7, BootIds DEF Identity
<1> HIDE DEF BootId
<1>10. Alive = DOMAIN lineage
  BY <1>7, <1>8, <1>9 DEF Alive
<1>11. KernelIs(x, a, lineage, images, group, task)
  BY <1>1, <1>4, <1>7, <1>8, <1>9, <1>10 DEF KernelIs
<1> DEFINE xs == [i \in {1} |-> x]
           as == [i \in {1} |-> a]
<1>12. Thinks(xs, as, ring)
  BY <1>1, <1>3 DEF Thinks
<1>13. TruthsAre(xs, as, ring, truths, lineage)
  BY <1>1 DEF TruthsAre
<1>14. xs[1] = x /\ as[1] = a /\ xs[Len(ring) + 1] = x /\ as[Len(ring) + 1] = a
  BY <1>1
<1> HIDE DEF xs, as
<1>15. Len(truths) = Len(ring) /\ truths \in Seq({})
  BY <1>1
<1> QED
  BY <1>6, <1>11, <1>12, <1>13, <1>14, <1>15 DEF Believed

\* The kernel's steps, and the opens and connects.
LEMMA WorldKeepsBelieved ==
  ASSUME Watched, TruthInv, KeyedInv', World
  PROVE  Believed'
<1>1. /\ LineageInv /\ KeyedInv /\ Descent(lineage) /\ Believed
      /\ KernelSound /\ RingTyped /\ Watching /\ Plain
  BY DEF TruthInv, LineageInv, PipelineInv, TypeInv, Watched
<1>2. Pictured
  BY DEF World, Pictured
<1>3. \A id \in DOMAIN lineage :
        id \in DOMAIN lineage' /\ LineIn(lineage', id) = LineIn(lineage, id)
  BY <1>1, DescentStep DEF DetectionNext
<1>4. UNCHANGED tableVars /\ (Silent \/ \E e \in Event : Tells(e))
  <2>1. CASE Kernel
    BY <1>1, <2>1, KernelTells, KernelSteps
  <2>2. CASE \E t \in DOMAIN task : Connect(t) \/ SysEnterOpenat(t)
    BY <1>1, <2>2, ActsReported DEF Reported
  <2> QED
    BY <2>1, <2>2 DEF World
<1>5. CASE Silent
  <2>1. ring' = ring /\ Len(ring) \in Nat
    BY <1>1, <1>5 DEF Silent, RingTyped
  <2>2. truths' = truths
    BY <2>1 DEF World
  <2> QED
    BY <1>1, <1>2, <1>4, <1>5, <2>2, BelievedSilent
<1>6. ASSUME NEW e \in Event, Tells(e)
      PROVE  Believed'
  <2>1. ring' = Append(ring, e)
    BY <1>6 DEF Tells
  <2>2. Len(ring') > Len(ring) /\ ring'[Len(ring')] = e
    BY <1>1, <2>1, Appended DEF RingTyped
  <2>3. truths' = Append(truths, TruthOf(e))
    BY <2>2 DEF World
  <2> QED
    BY <1>1, <1>2, <1>3, <1>4, <1>6, <2>3, BelievedTells
<1> QED
  BY <1>4, <1>5, <1>6

\* The arms of the event loop.
LEMMA ArmsKeepTruth ==
  ASSUME Watched, TruthInv, Arms
  PROVE  Believed' /\ FactsTrue'
<1>1. LineageInv /\ KeyedInv /\ Descent(lineage) /\ Believed /\ TypeInv
  BY DEF TruthInv, LineageInv, PipelineInv
<1>2. ring # <<>> /\ ring' = Tail(ring) /\ UNCHANGED kernelVars /\ truths' = Tail(truths)
      /\ UNCHANGED images
  BY DEF Arms, OpenArm, ConnectArm, ProcExecArm, ExitArm, ConsumeFork, ConsumeExec,
         ConsumeProcExec, ConsumeExit, Take
<1>3. Hears(Head(ring)) \/ (Head(ring).kind \in {"open", "connect"} /\ nodes' = nodes)
  <2>1. CASE OpenArm \/ ConnectArm
    BY <2>1 DEF OpenArm, ConnectArm, Take, tableVars
  <2>2. CASE Consume
    BY <1>1, <2>2, ConsumeHears
  <2> QED
    BY <2>1, <2>2 DEF Arms, ProcExecArm, ExitArm, Consume
<1>4. Believed'
  <2>1. UNCHANGED <<kernelVars, images>>
    BY <1>2
  <2> QED
    BY <1>1, <1>2, <1>3, <2>1, BelievedMovesOn
<1>5. ASSUME Judged(Head(ring)), Ask(Told(Head(ring), EventKey))
      PROVE  FactsTrue'
  <2>1. \A f \in DOMAIN Head(truths) : Told(Head(ring), EventKey)[f] = Head(truths)[f]
    BY <1>1, <1>2, <1>5, ToldIsTrue
  <2>2. wrong' = {f \in DOMAIN Head(truths) : Told(Head(ring), EventKey)[f] # Head(truths)[f]}
    BY <1>5 DEF Ask
  <2> QED
    BY <2>1, <2>2 DEF FactsTrue
<1>6. CASE ProcExecArm \/ OpenArm \/ ConnectArm
  <2>1. Ask(Told(Head(ring), EventKey))
    BY <1>6 DEF ProcExecArm, OpenArm, ConnectArm
  <2>2. Take("proc_exec") \/ Take("open") \/ Take("connect")
    BY <1>6 DEF ProcExecArm, OpenArm, ConnectArm, ConsumeProcExec
  <2>3. Judged(Head(ring))
    BY <2>2 DEF Take, Judged
  <2> QED
    BY <1>4, <1>5, <2>1, <2>3
<1>7. ASSUME ~(ProcExecArm \/ OpenArm \/ ConnectArm)
      PROVE  FactsTrue'
  BY <1>7 DEF Arms, Quiet, ExitArm, TruthInv, FactsTrue
<1> QED
  BY <1>4, <1>6, <1>7

LEMMA TruthInvStep ==
  ASSUME Watched, TruthInv, [DetectionNext]_detectionVars
  PROVE  TruthInv'
<1>1. /\ Plain /\ LineageInv /\ KeyedInv /\ Descent(lineage) /\ Believed /\ FactsTrue /\ TypeInv
  BY DEF TruthInv, Watched, LineageInv, PipelineInv
<1>2. LineageInv' /\ KeyedInv' /\ Descent(lineage')
  BY <1>1, FollowedStep, KeyedInvStep, DescentStep
<1>3. CASE World
  BY <1>1, <1>2, <1>3, WorldKeepsBelieved DEF TruthInv, World, Quiet, FactsTrue
<1>4. CASE Arms
  BY <1>2, <1>4, ArmsKeepTruth DEF TruthInv
<1>5. CASE TimerArm \/ Passing
  <2>1. (Expire \/ Tick) /\ UNCHANGED ghostVars
    BY <1>5 DEF TimerArm, Passing
  <2>2. UNCHANGED <<kernelVars, ring>> /\ UNCHANGED <<truths, images>> /\ wrong' = wrong
    BY <1>1, <2>1, TimerKeepsNames DEF ghostVars
  <2>3. \A k \in DOMAIN nodes' :
          k \in DOMAIN nodes /\ nodes'[k].exe = nodes[k].exe /\ nodes'[k].args = nodes[k].args
    BY <1>1, <2>1, TimerKeepsNames
  <2>4. Believed'
    <3>1. UNCHANGED <<kernelVars, ring, truths, images>>
      BY <2>2
    <3> QED
      BY <1>1, <2>3, <3>1, BelievedKept
  <2> QED
    BY <1>1, <1>2, <2>2, <2>4 DEF TruthInv, FactsTrue
<1>6. CASE UNCHANGED detectionVars
  <2>1. /\ UNCHANGED <<kernelVars, ring, truths, images>> /\ nodes' = nodes /\ wrong' = wrong
    BY <1>6 DEF detectionVars, vars, tableVars, ghostVars
  <2>2. Believed'
    BY <1>1, <2>1, BelievedKept
  <2> QED
    BY <1>1, <1>2, <2>1, <2>2 DEF TruthInv, FactsTrue
<1> QED
  BY <1>3, <1>4, <1>5, <1>6 DEF DetectionNext

\* Whatever the kernel has done since, the engine judges each exec, open and
\* connect by the actor, the whole chain and the path as they were at that event,
\* and an exec by its own arguments.
THEOREM FactsAreTrue == ASSUME Watched PROVE DetectionSpec => []FactsTrue
<1>1. DetectionInit => TruthInv
  <2> SUFFICES ASSUME DetectionInit
               PROVE  TruthInv
    OBVIOUS
  <2>1. Init /\ wrong = {} /\ Plain
    BY DEF DetectionInit, Watched
  <2> QED
    BY <2>1, LineageInvStarts, KeyedInvStarts, DescentStarts, BelievedStarts DEF TruthInv, FactsTrue
<1>2. TruthInv /\ [DetectionNext]_detectionVars => TruthInv'
  BY TruthInvStep
<1>3. TruthInv => FactsTrue
  BY DEF TruthInv
<1> QED
  BY <1>1, <1>2, <1>3, PTL DEF DetectionSpec

================================================================================
