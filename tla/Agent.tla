--------------------------------- MODULE Agent ---------------------------------
(******************************************************************************)
(* The life of nazar-agent (src/nazar-agent/src/main.rs): load the object,     *)
(* look up the kernel's offsets (module Btf), fill the deny list, attach the   *)
(* programs one by one, open the ring, load the rules, and loop until a signal *)
(* (module EventLoop), beside kernel programs that run on every CPU from the   *)
(* moment each is attached (modules Events and ExecGuard).                     *)
(*                                                                            *)
(* Any step that can fail ends the program, and with it every attachment:      *)
(* nothing is pinned.  The contents of the ring and of the table are not in    *)
(* this model; module Startup has what the order of attaching and reading      *)
(* /proc does to the table.                                                    *)
(******************************************************************************)
EXTENDS Btf, ExecGuard, EventLoop

CONSTANTS
  Programs,   \* the programs in the order they are attached, the guard last
  MaxDeny,    \* max_entries of EXEC_DENYLIST
  DenyLists   \* what NAZAR_DENY may say

ASSUME AgentAssumption ==
  /\ Programs \in Seq(STRING) /\ Programs # <<>>
  /\ MaxDeny \in Nat
  /\ DenyLists \subseteq Seq(Paths)

VARIABLES
  attached,  \* how many of Programs are attached
  todo,      \* the paths of NAZAR_DENY that have not been inserted yet
  asked      \* all of them, for the properties

agentVars == <<attached, todo, asked>>
vars == <<btfVars, eventVars, guardVars, loopVars, agentVars>>

Init ==
  /\ BtfInit
  /\ EventsInit
  /\ LoopInit
  /\ phase = "offsets"
  /\ offset = Unknown
  /\ enforce = FALSE
  /\ denylist = {}
  /\ attached = 0
  /\ todo = <<>>
  /\ asked = {}

--------------------------------------------------------------------------------
(* Up to the loop *)

\* The error leaves main(), which drops the object and detaches its programs.
Abort ==
  /\ phase' = "aborted"
  /\ attached' = 0
  /\ UNCHANGED <<btfVars, eventVars, guardVars, ready, renewed, due, sigterm, todo, asked>>

LookUp ==
  /\ In("offsets")
  /\ Len(answers) < Len(Queries)
  /\ Advance \/ Answer
  /\ UNCHANGED <<eventVars, guardVars, loopVars, agentVars>>

LookUpFails ==
  /\ In("offsets")
  /\ Len(answers) < Len(Queries)
  /\ Bails
  /\ Abort

\* The last offset is bprm->filename.  The parser and its file go out of scope.
SetOffsets ==
  /\ In("offsets")
  /\ Len(answers) = Len(Queries)
  /\ offset' = answers[Len(answers)]
  /\ enforce' \in BOOLEAN
  /\ section' = <<>> /\ off' = 0 /\ answers' = <<>>
  /\ phase' = "denylist"
  /\ \E list \in DenyLists :
       todo' = list /\ asked' = {list[i] : i \in DOMAIN list}
  /\ UNCHANGED <<eventVars, denylist, ready, renewed, due, sigterm, attached>>

Short(path) == Stem[path] = path
Room(key) == key \in denylist \/ Cardinality(denylist) < MaxDeny

\* One path of the list; one that is too long is skipped.
DenyNext ==
  LET key == Key(Head(todo), "zero") IN
  /\ In("denylist")
  /\ todo # <<>>
  /\ Short(Head(todo)) => Room(key)
  /\ denylist' = IF Short(Head(todo)) THEN denylist \cup {key} ELSE denylist
  /\ todo' = Tail(todo)
  /\ UNCHANGED <<btfVars, eventVars, offset, enforce, loopVars, attached, asked>>

DenylistFull ==
  /\ In("denylist")
  /\ todo # <<>>
  /\ Short(Head(todo)) /\ ~Room(Key(Head(todo), "zero"))
  /\ Abort

Attach ==
  /\ In("attach") \/ (In("denylist") /\ todo = <<>>)
  /\ attached < Len(Programs)
  /\ attached' = attached + 1
  /\ phase' = "attach"
  /\ UNCHANGED <<btfVars, eventVars, guardVars, ready, renewed, due, sigterm, todo, asked>>

\* Registering the descriptor polls it once.
OpenRing ==
  /\ In("attach")
  /\ attached = Len(Programs)
  /\ phase' = "setup"
  /\ wakeup' = TRUE
  /\ UNCHANGED <<btfVars, slots, call, stats, drops, guardVars, ready, renewed, due, sigterm, agentVars>>

\* /proc has been read, the rules are loaded, the interval and the stream for
\* SIGTERM exist, and the first turn of the select is polled.
StartLoop ==
  /\ In("setup")
  /\ phase' = "select"
  /\ due' = TRUE
  /\ UNCHANGED <<btfVars, eventVars, guardVars, ready, renewed, sigterm, agentVars>>

\* The object or a program is refused, tracefs cannot be entered, a cgroup or the
\* rules cannot be read.
StepFails ==
  /\ phase \in {"offsets", "attach", "setup"}
  /\ Abort

\* A signal nobody listens for yet ends the process.
KillEarly ==
  /\ phase \in {"offsets", "denylist", "attach", "setup"}
  /\ phase' = "killed"
  /\ attached' = 0
  /\ UNCHANGED <<btfVars, eventVars, guardVars, ready, renewed, due, sigterm, todo, asked>>

Terminate ==
  /\ phase \in LoopPhases
  /\ sigterm' = TRUE
  /\ UNCHANGED <<btfVars, eventVars, guardVars, phase, ready, renewed, due, agentVars>>

Setup ==
  \/ LookUp
  \/ LookUpFails
  \/ SetOffsets
  \/ DenyNext
  \/ DenylistFull
  \/ Attach
  \/ OpenRing
  \/ StartLoop

--------------------------------------------------------------------------------
(* The loop and the kernel programs beside it *)

Rest == UNCHANGED <<btfVars, guardVars, agentVars>>

Loop == (Drain \/ ClearReady) /\ Rest

\* The programs are detached when main() returns.
Stop ==
  /\ Shutdown
  /\ attached' = IF phase' = "stopped" THEN 0 ELSE attached
  /\ UNCHANGED <<btfVars, guardVars, todo, asked>>

GuardAttached == attached = Len(Programs)

Starts(c) ==
  \/ attached > 0 /\ Probe(c) /\ UNCHANGED guardVars
  \/ GuardAttached /\ c \in Guarded /\ \E path \in Paths, prev \in {Allow, Deny} : TryBprm(c, path, prev)

Goes(c) ==
  \/ (Submit(c) \/ Load(c) \/ StoreAndEnd(c)) /\ UNCHANGED guardVars
  \/ Decide(c)
  \/ StoreAndPass(c)
  \/ Return(c)

Kernel(c) == (Starts(c) \/ Goes(c)) /\ UNCHANGED <<btfVars, loopVars, agentVars>>

Next ==
  \/ Setup
  \/ StepFails
  \/ KillEarly
  \/ Terminate
  \/ (OnInterrupt \/ OnSigterm \/ OnTimer \/ OnReadable) /\ Rest
  \/ Loop
  \/ Stop
  \/ (DriverTurn \/ IntervalTick) /\ Rest
  \/ \E c \in Cpus : Kernel(c)

Spec == Init /\ [][Next]_vars

\* The agent goes on; a program the kernel has started comes to its end; the
\* driver runs; and a branch of the select that is ready again and again is
\* polled first at some time, because the order is random.  Nothing is assumed
\* of the signals, of the interval or of when probes run.
FairSpec ==
  /\ Spec
  /\ WF_vars(Setup) /\ WF_vars(Loop) /\ WF_vars(Stop)
  /\ WF_vars(DriverTurn /\ Rest)
  /\ \A c \in Cpus : WF_vars(Goes(c) /\ UNCHANGED <<btfVars, loopVars, agentVars>>)
  /\ SF_vars(OnSigterm /\ Rest) /\ SF_vars(OnTimer /\ Rest) /\ SF_vars(OnReadable /\ Rest)

--------------------------------------------------------------------------------
(* What the agent promises *)

\* The paths the user wants denied, as far as the list can hold them.
Denied == {path \in asked : Short(path)}

\* A program that comes to look denies the file exactly when it enforces and the
\* user listed the path, or what fits of it; an earlier denial is never taken back;
\* and after a file passed because the ring was full the count of losses is not zero.
\* So the guard never decides by part of the list, nor by what an earlier record left
\* behind the path in the buffer that is its key (loader, main.rs; try_bprm(),
\* nazar-ebpf).  Of the programs that do not come to look, and of the paths that do
\* not fit, ExactOneWay has what the documents say.
GuardExact ==
  \A c \in Cpus : At(c, "returned") =>
    LET x == call[c]
        denies == x.prev = Allow /\ x.basis = "list" /\ enforce /\ Stem[x.path] \in Denied
    IN /\ x.ret = IF denies THEN Deny ELSE x.prev
       /\ x.basis = "full" => stats > 0

Asks(c) == At(c, "returned") /\ call[c].prev = Allow

\* README.md:118: nazar_bprm "returns `-EPERM` when the resolved path is in the deny
\* list" (of those that fit, README.md:105, and could be read).
ListedDenied ==
  \A c \in Cpus : Asks(c) /\ enforce /\ call[c].path \in Denied /\ call[c].basis # "unread" =>
    call[c].ret = Deny

\* README.md:163 calls NAZAR_DENY a "list of exact paths to deny", and KNOWN_GAPS.md:104
\* says that "Enforcement is exact-match only".
OnlyListedDenied == \A c \in Cpus : Asks(c) /\ call[c].ret = Deny => call[c].path \in asked

\* Enforcement is never inexact both ways at once: no listed file passes, or no
\* other is denied.  Each of the two sentences alone implies it, so that a state
\* in which it fails refutes both of them.
ExactOneWay == ListedDenied \/ OnlyListedDenied

================================================================================
