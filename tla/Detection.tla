------------------------------- MODULE Detection -------------------------------
(******************************************************************************)
(* Detection in nazar as a whole: the kernel, the probes and the process table *)
(* of module Sensor, the openat and connect probes of src/nazar-ebpf/src/     *)
(* main.rs beside them, and the engine of module Engine, which the arms of     *)
(* the event loop (src/nazar-agent/src/main.rs) ask about each exec, open and  *)
(* connect with what the table says at that moment.                           *)
(*                                                                            *)
(* Between a kernel step and the arm that applies its event, the kernel runs   *)
(* on.  truths has, for each event in the ring, how things stood when it was   *)
(* emitted, and images the last image of every process, dead ones included;    *)
(* the program knows neither.                                                 *)
(*                                                                            *)
(* Neither probe reports the agent itself, and the agent is not a task of this *)
(* kernel.  Opens that do not ask to write, of which there is no event, and    *)
(* ports are left out.                                                        *)
(******************************************************************************)
EXTENDS Sensor

CONSTANTS
  Rules,      \* the rules, in the order of the file
  Written,    \* bound: the paths files are opened by
  Dests,      \* bound: the addresses connected to
  Nothing,    \* no path and no address, no alert, no truth
  Active,     \* bound: the pids whose processes open and connect
  MaxHits     \* bound: the entries of the history kept for one process

VARIABLES
  history, alert,  \* the engine's
  truths,          \* how things stood at each event of the ring
  images,          \* the last image of each process
  wrong            \* what the engine was told wrongly about the last event

engineVars == <<history, alert>>
ghostVars == <<truths, images, wrong>>
detectionVars == <<vars, engineVars, ghostVars>>

\* EventFacts, with the names of the chain as a set: no rule asks for more.
Facts ==
  [kind : {"exec", "write", "connect"}, path : Names \cup Written \cup {NoName},
   ancestry : SUBSET (Names \cup {NoName}), args : Names \cup {NoName}, dst : Dests \cup {Nothing}]

E == INSTANCE Engine WITH Keys <- ProcKey, NoAlert <- Nothing, NoPath <- Nothing

\* Every name is one, and the rules are as load() accepts them.
ASSUME DetectionAssumption ==
  /\ NoName \notin Names
  /\ Written \subseteq STRING /\ Dests \subseteq STRING
  /\ Rules \in Seq(E!RuleType) /\ MaxHits \in Nat
  /\ Nothing \notin E!Paths /\ Nothing \notin E!Alert

\* The identities of the live processes.
Alive == {Identity(t) : t \in DOMAIN group}

DetectionInit ==
  /\ Init
  /\ E!Init
  /\ truths = <<>>
  /\ images = [id \in Alive |-> group[id.tgid].image]
  /\ wrong = {}

--------------------------------------------------------------------------------
(* The openat and connect probes *)

\* Mutant: a cgroup program cannot tell which task runs.
EmitConnectNoStart(t, dst) ==
  Emit([kind |-> "connect", tgid |-> task[t].tgid, start |-> 0, dst |-> dst])

EmitConnect(t, dst) ==
  \E s \in StartRead(t) :
    Emit([kind |-> "connect", tgid |-> task[t].tgid, start |-> s, dst |-> dst])

EmitOpen(t, path) ==
  \E s \in StartRead(t) :
    EmitOrDiscard([kind |-> "open", tgid |-> task[t].tgid, start |-> s, path |-> path])

Acts(t) == task[t].tgid \in Active /\ task[t].execing = NoName

Connect(t) ==
  /\ Acts(t)
  /\ \E dst \in Dests : EmitConnect(t, dst)
  /\ UNCHANGED <<tableVars, kernelVars>>

SysEnterOpenat(t) ==
  /\ Acts(t)
  /\ \E path \in Written : EmitOpen(t, path)
  /\ UNCHANGED <<tableVars, kernelVars>>

--------------------------------------------------------------------------------
(* What the engine is told *)

\* The executable, or the command name of a process whose executable is unknown.
Shown(k) == IF nodes[k].exe # NoName THEN nodes[k].exe ELSE nodes[k].comm

\* Engine::chain(), nearest ancestor first.
Chain(key) ==
  LET known == {i \in Generations : Ancestry(key)[i] \in DOMAIN nodes}
  IN [i \in 1 .. Cardinality(known) |-> Shown(Ancestry(key)[i - 1])]

Of(key, field) == IF Resolve(key) = NoKey THEN NoName ELSE nodes[Resolve(key)][field]
Actor(key) == IF Resolve(key) = NoKey THEN NoName ELSE Shown(Resolve(key))

\* on_exec(), on_write() and on_connect() give the path; a connection has its
\* process's executable for a path.
Told(e, key) ==
  [actor |-> Actor(key), chain |-> Chain(key), args |-> Of(key, "args"),
   path |-> CASE e.kind = "proc_exec" -> e.exe
              [] e.kind = "open" -> e.path
              [] e.kind = "connect" -> Of(key, "exe")]

FactsOf(e, told) ==
  [kind |-> CASE e.kind = "proc_exec" -> "exec" [] e.kind = "open" -> "write" [] OTHER -> e.kind,
   path |-> told.path, args |-> told.args, ancestry |-> {told.chain[i] : i \in DOMAIN told.chain},
   dst |-> IF e.kind = "connect" THEN e.dst ELSE Nothing]

\* evaluate(), and whether it was told the truth.
Ask(told) ==
  /\ E!Evaluate(EventKey, FactsOf(Head(ring), told))
  /\ wrong' = {x \in DOMAIN Head(truths) : told[x] # Head(truths)[x]}

Quiet == UNCHANGED <<engineVars, wrong>>

--------------------------------------------------------------------------------
(* The arms of the event loop *)

\* Mutant: the table is updated before the engine is asked.
ProcExecArmUpdatesFirst ==
  /\ ConsumeProcExec
  /\ \E e \in {Head(ring)}, key \in {EventKey} : Ask(Told(e, key)')

\* The engine is asked about the table the exec found.
ProcExecArm == ConsumeProcExec /\ Ask(Told(Head(ring), EventKey))

OpenArm == Take("open") /\ Ask(Told(Head(ring), EventKey)) /\ UNCHANGED tableVars
ConnectArm == Take("connect") /\ Ask(Told(Head(ring), EventKey)) /\ UNCHANGED tableVars
ExitArm == ConsumeExit /\ E!Expire /\ UNCHANGED wrong

Arms ==
  /\ \/ (ConsumeFork \/ ConsumeExec) /\ Quiet
     \/ ProcExecArm
     \/ OpenArm
     \/ ConnectArm
     \/ ExitArm
  /\ truths' = Tail(truths)
  /\ UNCHANGED images

TimerArm == Expire /\ E!Expire /\ UNCHANGED ghostVars

\* One clock for tombstones and hits.
Passing == Tick /\ E!Elapse /\ UNCHANGED ghostVars

--------------------------------------------------------------------------------
(* The kernel, and how things stood *)

\* The images of the forebears of a process, the one that forked it first.
RealChain(id) ==
  LET real == {i \in Generations : Forebear(id)[i] # NoKey}
  IN [i \in 1 .. Cardinality(real) |-> images[Forebear(id)[i - 1]]]

\* Of an exec the arguments are part of it; of the other events they are not:
\* the record's are those of the last attempt to exec, and none after a fork.
TruthOf(e) ==
  LET id == Identity(e.tgid)
      real(path) == [actor |-> images[id], chain |-> RealChain(id), path |-> path]
  IN CASE e.kind = "proc_exec" ->
            [actor |-> images[id], chain |-> RealChain(id), path |-> e.exe, args |-> e.exe]
       [] e.kind = "open" -> real(e.path)
       [] e.kind = "connect" -> real(images[id])
       [] OTHER -> Nothing

World ==
  /\ \/ Kernel
     \/ \E t \in DOMAIN task : Connect(t) \/ SysEnterOpenat(t)
  /\ truths' = IF Len(ring') > Len(ring) THEN Append(truths, TruthOf(ring'[Len(ring')])) ELSE truths
  /\ images' = [id \in DOMAIN lineage' |->
                  IF id \in Alive' THEN group'[id.tgid].image ELSE images[id]]
  /\ Quiet

DetectionNext == World \/ Arms \/ TimerArm \/ Passing

DetectionSpec == DetectionInit /\ [][DetectionNext]_detectionVars

--------------------------------------------------------------------------------
(* What detection promises *)

\* Whatever the kernel has done since, the engine judges each exec, open and
\* connect by the actor, the whole chain and the path as they were at that
\* event, and an exec by its own arguments (main.rs asks before on_proc_exec,
\* and the probe of the attempt comes before the one of its success).
FactsTrue == wrong = {}

\* A process that a rule has hit is not lost to a correlated rule that asks for
\* the same process: a matching event of the same process within the window is
\* reported, by that rule or an earlier one.  The prior hit is looked for only under
\* "the same `(tgid, start_time)`" (README.md:90), so every probe has to give a
\* process the same key.
CorrelationMet ==
  [][\A r \in E!RuleIds :
       /\ ring # <<>> /\ ring' = Tail(ring)
       /\ Head(ring).kind = "connect"
       /\ E!Correlated(r)
       /\ E!Matches(r, FactsOf(Head(ring), Told(Head(ring), EventKey)))
       /\ \E k \in DOMAIN history : k.tgid = Head(ring).tgid /\ E!LastHit(k, r) # {}
       => alert' # Nothing /\ alert'.rule =< r]_detectionVars

================================================================================
