------------------------------ MODULE AgentProofs ------------------------------
(* Theorems about the agent and the kernel programs beside it (module Agent),   *)
(* for any number of CPUs, any ring, any lists and any kernel types.            *)
EXTENDS Agent, NaturalRecursion, FiniteSetTheorems, TLAPS

--------------------------------------------------------------------------------
(* The programs on their CPUs *)

\* Where a CPU is outside of bump().
Free == {"idle", "filling", "returned"}
Asked == Paths \cup {NoPath}

Calls ==
  [at : {"idle"}]
    \cup [at : {"filling", "load"}, path : Asked]
    \cup [at : {"store"}, path : Asked, seen : Nat]
    \cup [at : {"returned"}, path : Paths, prev : {Allow, Deny}, ret : {Allow, Deny}, basis : Bases]

CountTyped == call \in [Cpus -> Calls] /\ stats \in Nat /\ drops \in Nat

\* The ways a step can change what a CPU does and the two counts.
Enters(c) == call[c].at = "idle" /\ \E x \in Calls : x.at = "load" /\ call' = [call EXCEPT ![c] = x]
             /\ drops' = drops + 1 /\ stats' = stats
Loads(c) == call[c].at = "load" /\ \E x \in Calls : x.at = "store" /\ x.seen = stats
            /\ call' = [call EXCEPT ![c] = x] /\ drops' = drops /\ stats' = stats
Stores(c) == call[c].at = "store" /\ \E x \in Calls : x.at \in Free
             /\ call' = [call EXCEPT ![c] = x] /\ drops' = drops /\ stats' = call[c].seen + 1
Moves(c) == call[c].at \in Free /\ \E x \in Calls : x.at \in Free
            /\ call' = [call EXCEPT ![c] = x] /\ drops' = drops /\ stats' = stats

LEMMA FailsOrMoves ==
  ASSUME CountTyped, NEW c \in Cpus, NEW path \in Asked, Reserve(c, path), call[c].at = "idle"
  PROVE  Enters(c) \/ Moves(c)
<1>1. CASE drops' = drops + 1 /\ call' = [call EXCEPT ![c] = [at |-> "load", path |-> path]]
  <2>1. [at |-> "load", path |-> path] \in Calls BY DEF Calls
  <2>2. stats' = stats BY DEF Reserve
  <2> QED BY <1>1, <2>1, <2>2 DEF Enters
<1>2. CASE drops' = drops /\ call' = [call EXCEPT ![c] = [at |-> "filling", path |-> path]]
  <2>1. [at |-> "filling", path |-> path] \in Calls BY DEF Calls
  <2>2. stats' = stats BY DEF Reserve
  <2> QED BY <1>2, <2>1, <2>2 DEF Moves, Free
<1> QED BY <1>1, <1>2 DEF Reserve

LEMMA ReturnedTyped ==
  ASSUME NEW path \in Paths, NEW prev \in {Allow, Deny}, NEW ret \in {Allow, Deny}, NEW basis \in Bases
  PROVE  Returned(path, prev, ret, basis) \in Calls /\ Returned(path, prev, ret, basis).at \in Free
BY DEF Returned, Calls, Free

LEMMA CommitMoves ==
  ASSUME CountTyped, NEW c \in Cpus, NEW state, NEW next \in Calls, next.at \in Free,
         call[c].at \in Free, Commit(c, state, next)
  PROVE  Moves(c)
BY DEF Commit, Moves

LEMMA DecideCommits ==
  ASSUME NEW c, Decide(c)
  PROVE  \E state \in {"ready", "discarded"}, ret \in {Allow, Deny}, basis \in Bases :
           Commit(c, state, Returned(call[c].path, Allow, ret, basis))
BY DEF Decide, Bases

\* What a program does is one of the four.
LEMMA KernelSteps ==
  ASSUME CountTyped, NEW c \in Cpus, Kernel(c)
  PROVE  Enters(c) \/ Loads(c) \/ Stores(c) \/ Moves(c)
<1>idle. Idle \in Calls /\ Idle.at \in Free BY DEF Idle, Calls, Free
<1>1. CASE Probe(c)
  BY <1>1, FailsOrMoves DEF Probe, At, Asked
<1>2. ASSUME NEW path \in Paths, NEW prev \in {Allow, Deny}, TryBprm(c, path, prev) PROVE Enters(c) \/ Moves(c)
  <2>0. call[c].at = "idle" BY <1>2 DEF TryBprm, At
  <2>1. CASE Reserve(c, path) BY <2>0, <2>1, FailsOrMoves DEF Asked
  <2>2. CASE call' = [call EXCEPT ![c] = Returned(path, prev, prev, "earlier")] /\ UNCHANGED <<slots, wakeup, stats, drops>>
    BY <2>0, <2>2, ReturnedTyped DEF Moves, Free, Bases
  <2>3. CASE call' = [call EXCEPT ![c] = Returned(path, Allow, Allow, "unread")] /\ UNCHANGED <<slots, wakeup, stats, drops>>
    BY <2>0, <2>3, ReturnedTyped DEF Moves, Free, Bases
  <2> QED BY <1>2, <2>1, <2>2, <2>3 DEF TryBprm
<1>3. CASE Submit(c)
  BY <1>3, <1>idle, CommitMoves DEF Submit, At, Free
<1>4. CASE Load(c)
  <2>1. call[c].at = "load" BY <1>4 DEF Load, At
  <2>2. call[c] \in Calls BY DEF CountTyped
  <2>3. call[c].path \in Asked BY <2>1, <2>2 DEF Calls
  <2>4. [at |-> "store", path |-> call[c].path, seen |-> stats] \in Calls BY <2>3 DEF Calls, CountTyped
  <2>5. call' = [call EXCEPT ![c] = [at |-> "store", path |-> call[c].path, seen |-> stats]]
    BY <1>4 DEF Load, CountTyped
  <2> QED BY <1>4, <2>1, <2>4, <2>5 DEF Loads, Load
<1>5. CASE StoreAndEnd(c)
  BY <1>5, <1>idle DEF StoreAndEnd, Store, Stores, At
<1>6. CASE Decide(c)
  <2>0. call[c].at = "filling" BY <1>6 DEF Decide, At
  <2>1. call[c].path \in Paths
    <3>1. call[c] \in Calls BY DEF CountTyped
    <3>2. call[c].path \in Asked BY <2>0, <3>1 DEF Calls
    <3> QED BY <1>6, <3>2 DEF Decide, Asked
  <2>2. PICK state \in {"ready", "discarded"}, ret \in {Allow, Deny}, basis \in Bases :
          Commit(c, state, Returned(call[c].path, Allow, ret, basis))
    BY <1>6, DecideCommits
  <2> QED BY <2>0, <2>1, <2>2, ReturnedTyped, CommitMoves DEF Free
<1>7. CASE StoreAndPass(c)
  <2>0. call[c].at = "store" BY <1>7 DEF StoreAndPass, At
  <2>1. call[c].path \in Paths
    <3>1. call[c] \in Calls BY DEF CountTyped
    <3>2. call[c].path \in Asked BY <2>0, <3>1 DEF Calls
    <3> QED BY <1>7, <3>2 DEF StoreAndPass, Asked
  <2> QED BY <1>7, <2>0, <2>1, ReturnedTyped DEF StoreAndPass, Store, Stores, Bases
<1>8. CASE Return(c)
  BY <1>8, <1>idle DEF Return, Moves, At, Free
<1> QED BY <1>1, <1>2, <1>3, <1>4, <1>5, <1>6, <1>7, <1>8 DEF Kernel, Starts, Goes

\* Only the programs change what is counted.
LEMMA OthersCountNothing ==
  ASSUME Next, \A c \in Cpus : ~Kernel(c)
  PROVE  UNCHANGED <<call, stats, drops>>
<1>1. CASE Setup
  BY <1>1 DEF Setup, LookUp, LookUpFails, SetOffsets, DenyNext, DenylistFull, Attach, OpenRing, StartLoop,
              Abort, eventVars
<1>2. CASE StepFails \/ KillEarly \/ Terminate
  BY <1>2 DEF StepFails, KillEarly, Terminate, Abort, eventVars
<1>3. CASE OnInterrupt \/ OnSigterm \/ OnTimer \/ OnReadable
  BY <1>3 DEF OnInterrupt, OnSigterm, OnTimer, OnReadable, eventVars
<1>4. CASE Loop
  BY <1>4 DEF Loop, Drain, ClearReady, Take, eventVars
<1>5. CASE Stop
  BY <1>5 DEF Stop, Shutdown, Take, eventVars
<1>6. CASE DriverTurn \/ IntervalTick
  BY <1>6 DEF DriverTurn, IntervalTick, eventVars
<1> QED BY <1>1, <1>2, <1>3, <1>4, <1>5, <1>6 DEF Next

--------------------------------------------------------------------------------
(* The count *)

\* Besides the promise: what a CPU has seen and will store is no more than the
\* losses of the others, whatever has been stored since.
CountInv ==
  /\ CountTyped
  /\ CountHonest
  /\ \A c \in Cpus : call[c].at = "store" => call[c].seen + Cardinality(Bumping) =< drops

LEMMA BumpingFinite ==
  ASSUME NEW S, S \subseteq Cpus
  PROVE  IsFiniteSet(S) /\ Cardinality(S) \in Nat
BY EventsAssumption, FS_Subset, FS_CardinalityType

LEMMA CountInit == Init => CountInv
<1> SUFFICES ASSUME Init PROVE CountInv OBVIOUS
<1>1. call = [c \in Cpus |-> Idle] /\ stats = 0 /\ drops = 0 BY DEF Init, EventsInit
<1>2. Idle \in Calls /\ Idle.at = "idle" BY DEF Idle, Calls
<1>3. CountTyped BY <1>1, <1>2 DEF CountTyped
<1>4. Bumping = {} BY <1>1, <1>2 DEF Bumping
<1>5. Cardinality(Bumping) = 0 BY <1>4, FS_EmptySet
<1> QED BY <1>1, <1>2, <1>3, <1>5 DEF CountInv, CountHonest

LEMMA CountStep == CountInv /\ [Next]_vars => CountInv'
<1> SUFFICES ASSUME CountInv, [Next]_vars PROVE CountInv' OBVIOUS
<1> USE DEF CountInv
<1> DEFINE B == Bumping
<1>b. B \subseteq Cpus /\ B' \subseteq Cpus BY DEF Bumping
<1>n. Cardinality(B) \in Nat /\ Cardinality(B') \in Nat /\ IsFiniteSet(B) BY <1>b, BumpingFinite
<1>t. \A c \in Cpus : call[c] \in Calls BY DEF CountTyped
<1>s. \A c \in Cpus : call[c].at = "store" => call[c].seen \in Nat BY <1>t DEF Calls
<1>1. CASE UNCHANGED <<call, stats, drops>>
  <2>1. Bumping' = Bumping BY <1>1 DEF Bumping
  <2> QED BY <1>1, <2>1 DEF CountTyped, CountHonest
<1>2. ASSUME NEW c \in Cpus, Enters(c) PROVE CountInv'
  <2>1. PICK x \in Calls : x.at = "load" /\ call' = [call EXCEPT ![c] = x] BY <1>2 DEF Enters
  <2>2. CountTyped' BY <1>2, <2>1 DEF CountTyped, Enters
  <2>3. \A d \in Cpus : call'[d] = IF d = c THEN x ELSE call[d] BY <2>1 DEF CountTyped
  <2>4. c \notin B /\ B' = B \cup {c} BY <1>2, <2>1, <2>3 DEF Bumping, Enters
  <2>5. Cardinality(B') = Cardinality(B) + 1 BY <1>n, <2>4, FS_AddElement
  <2> QED BY <1>2, <1>n, <1>s, <2>1, <2>2, <2>3, <2>5 DEF Enters, CountHonest, CountTyped
<1>3. ASSUME NEW c \in Cpus, Loads(c) PROVE CountInv'
  <2>1. PICK x \in Calls : x.at = "store" /\ x.seen = stats /\ call' = [call EXCEPT ![c] = x] BY <1>3 DEF Loads
  <2>2. CountTyped' BY <1>3, <2>1 DEF CountTyped, Loads
  <2>3. \A d \in Cpus : call'[d] = IF d = c THEN x ELSE call[d] BY <2>1 DEF CountTyped
  <2>4. B' = B BY <1>3, <2>1, <2>3 DEF Bumping, Loads
  <2> QED BY <1>3, <1>n, <1>s, <2>1, <2>2, <2>3, <2>4 DEF Loads, CountHonest, CountTyped
<1>4. ASSUME NEW c \in Cpus, Stores(c) PROVE CountInv'
  <2>1. PICK x \in Calls : x.at \in Free /\ call' = [call EXCEPT ![c] = x] BY <1>4 DEF Stores
  <2>2. CountTyped' BY <1>4, <1>s, <2>1 DEF CountTyped, Stores
  <2>3. \A d \in Cpus : call'[d] = IF d = c THEN x ELSE call[d] BY <2>1 DEF CountTyped
  <2>4. c \in B /\ B' = B \ {c} BY <1>4, <2>1, <2>3 DEF Bumping, Stores, Free
  <2>5. Cardinality(B') = Cardinality(B) - 1 BY <1>n, <2>4, FS_RemoveElement
  <2> QED BY <1>4, <1>n, <1>s, <2>1, <2>2, <2>3, <2>5 DEF Stores, CountHonest, CountTyped, Free
<1>5. ASSUME NEW c \in Cpus, Moves(c) PROVE CountInv'
  <2>1. PICK x \in Calls : x.at \in Free /\ call' = [call EXCEPT ![c] = x] BY <1>5 DEF Moves
  <2>2. CountTyped' BY <1>5, <2>1 DEF CountTyped, Moves
  <2>3. \A d \in Cpus : call'[d] = IF d = c THEN x ELSE call[d] BY <2>1 DEF CountTyped
  <2>4. B' = B BY <1>5, <2>1, <2>3 DEF Bumping, Moves, Free
  <2> QED BY <1>5, <1>n, <1>s, <2>1, <2>2, <2>3, <2>4 DEF Moves, CountHonest, CountTyped, Free
<1>6. CASE UNCHANGED vars
  BY <1>1, <1>6 DEF vars, eventVars
<1>7. CASE Next
  BY <1>1, <1>2, <1>3, <1>4, <1>5, <1>7, OthersCountNothing, KernelSteps
<1> QED BY <1>6, <1>7

\* The drop report (CountHonest), for any number of CPUs and of losses.
THEOREM CountIsHonest == Spec => []CountHonest
<1>1. CountInv => CountHonest BY DEF CountInv
<1> QED BY CountInit, CountStep, <1>1, PTL DEF Spec

--------------------------------------------------------------------------------
(* The wake-up *)

Slot == [cpu : Cpus, state : {"busy", "ready", "discarded"}]

\* Before the loop waits the same must hold as while it does; and between an
\* empty ring and clear_ready() it is the readiness that came since that counts.
WakeInv ==
  /\ slots \in Seq(Slot)
  /\ wakeup \in BOOLEAN /\ ready \in BOOLEAN /\ renewed \in BOOLEAN
  /\ phase \in {"setup", "select"} /\ Takeable => ready \/ wakeup
  /\ phase = "clear" /\ Takeable => renewed \/ wakeup

\* Of all records only the first can be taken, and its commit wakes the reader.
LEMMA CommitWakes ==
  ASSUME slots \in Seq(Slot), wakeup \in BOOLEAN,
         NEW c \in Cpus, NEW state \in {"ready", "discarded"}, NEW next, Commit(c, state, next)
  PROVE  /\ slots' \in Seq(Slot)
         /\ wakeup' \in BOOLEAN
         /\ wakeup => wakeup'
         /\ Takeable' => Takeable \/ wakeup'
<1>1. PICK i \in Mine(c) : slots' = [slots EXCEPT ![i].state = state] /\ wakeup' = (wakeup \/ i = 1)
  BY DEF Commit
<1>2. i \in 1 .. Len(slots) BY <1>1 DEF Mine
<1>3. slots[i] \in Slot BY <1>2
<1>4. slots' = [slots EXCEPT ![i] = [slots[i] EXCEPT !.state = state]] BY <1>1
<1>5. [slots[i] EXCEPT !.state = state] \in Slot BY <1>3 DEF Slot
<1>6. slots' \in Seq(Slot) /\ Len(slots') = Len(slots) BY <1>2, <1>4, <1>5
<1>7. CASE i = 1 BY <1>1, <1>6, <1>7
<1>8. CASE i # 1
  <2>1. slots # <<>> /\ slots' # <<>> BY <1>2, <1>6
  <2>2. Head(slots') = Head(slots) BY <1>2, <1>4, <1>6, <1>8, <2>1
  <2> QED BY <1>1, <1>6, <2>1, <2>2 DEF Takeable
<1> QED BY <1>7, <1>8

LEMMA ReserveTakesNothing ==
  ASSUME slots \in Seq(Slot), wakeup \in BOOLEAN, NEW c \in Cpus, NEW path, Reserve(c, path)
  PROVE  slots' \in Seq(Slot) /\ wakeup' = wakeup /\ (Takeable' => Takeable)
<1>1. CASE slots' = Append(slots, [cpu |-> c, state |-> "busy"])
  <2>1. [cpu |-> c, state |-> "busy"] \in Slot BY DEF Slot
  <2>2. slots' \in Seq(Slot) BY <1>1, <2>1
  <2>3. CASE slots = <<>> 
    <3>1. Head(slots') = [cpu |-> c, state |-> "busy"] BY <1>1, <2>1, <2>3
    <3> QED BY <2>2, <3>1 DEF Takeable, Reserve
  <2>4. CASE slots # <<>>
    <3>1. Head(slots') = Head(slots) BY <1>1, <2>1, <2>4
    <3> QED BY <2>2, <2>4, <3>1 DEF Takeable, Reserve
  <2> QED BY <2>3, <2>4
<1>2. CASE UNCHANGED slots BY <1>2 DEF Reserve, Takeable
<1> QED BY <1>1, <1>2 DEF Reserve

LEMMA KernelWakes ==
  ASSUME slots \in Seq(Slot), wakeup \in BOOLEAN, NEW c \in Cpus, Kernel(c)
  PROVE  /\ slots' \in Seq(Slot)
         /\ wakeup' \in BOOLEAN
         /\ wakeup => wakeup'
         /\ Takeable' => Takeable \/ wakeup'
<1> DEFINE Woken == /\ slots' \in Seq(Slot)
                    /\ wakeup' \in BOOLEAN
                    /\ wakeup => wakeup'
                    /\ Takeable' => Takeable \/ wakeup'
<1> SUFFICES Woken OBVIOUS
<1>0. ASSUME UNCHANGED <<slots, wakeup>> PROVE Woken BY <1>0 DEF Takeable
<1>1. CASE Probe(c) BY <1>1, ReserveTakesNothing DEF Probe
<1>2. ASSUME NEW path \in Paths, NEW prev \in {Allow, Deny}, TryBprm(c, path, prev) PROVE Woken
  <2>1. CASE Reserve(c, path) BY <2>1, ReserveTakesNothing
  <2>2. CASE UNCHANGED <<slots, wakeup>> BY <1>0, <2>2
  <2> QED BY <1>2, <2>1, <2>2 DEF TryBprm
<1>3. CASE Submit(c) BY <1>3, CommitWakes DEF Submit
<1>4. CASE Load(c) \/ StoreAndEnd(c) \/ StoreAndPass(c) \/ Return(c)
  BY <1>0, <1>4 DEF Load, StoreAndEnd, StoreAndPass, Store, Return
<1>5. CASE Decide(c)
  <2>1. PICK state \in {"ready", "discarded"}, ret \in {Allow, Deny}, basis \in Bases :
          Commit(c, state, Returned(call[c].path, Allow, ret, basis))
    BY <1>5, DecideCommits
  <2> QED BY <2>1, CommitWakes
<1> QED BY <1>1, <1>2, <1>3, <1>4, <1>5 DEF Kernel, Starts, Goes

LEMMA WakeInit == Init => WakeInv
<1> SUFFICES ASSUME Init PROVE WakeInv OBVIOUS
<1>1. slots = <<>> /\ ~Takeable BY DEF Init, EventsInit, Takeable
<1>2. slots \in Seq(Slot) BY <1>1
<1>3. wakeup = FALSE /\ ready = FALSE /\ renewed = FALSE BY DEF Init, EventsInit, LoopInit
<1> QED BY <1>1, <1>2, <1>3 DEF WakeInv

LEMMA WakeStep == WakeInv /\ [Next]_vars => WakeInv'
<1> SUFFICES ASSUME WakeInv, [Next]_vars PROVE WakeInv' OBVIOUS
<1> USE DEF WakeInv
<1>1. CASE Setup
  <2>1. CASE LookUp BY <2>1 DEF LookUp, loopVars, eventVars, Takeable
  <2>2. CASE LookUpFails \/ DenylistFull BY <2>2 DEF LookUpFails, DenylistFull, Abort, eventVars, Takeable
  <2>3. CASE SetOffsets BY <2>3 DEF SetOffsets, eventVars, Takeable
  <2>4. CASE DenyNext BY <2>4 DEF DenyNext, eventVars, loopVars, Takeable
  <2>5. CASE Attach BY <2>5 DEF Attach, eventVars, Takeable
  <2>6. CASE OpenRing BY <2>6 DEF OpenRing, Takeable
  <2>7. CASE StartLoop BY <2>7 DEF StartLoop, In, eventVars, Takeable
  <2> QED BY <1>1, <2>1, <2>2, <2>3, <2>4, <2>5, <2>6, <2>7 DEF Setup
<1>2. CASE StepFails \/ KillEarly BY <1>2 DEF StepFails, KillEarly, Abort, eventVars, Takeable
<1>3. CASE Terminate BY <1>3 DEF Terminate, eventVars, Takeable
<1>4. CASE OnInterrupt \/ OnSigterm \/ OnTimer \/ OnReadable
  BY <1>4 DEF OnInterrupt, OnSigterm, OnTimer, OnReadable, eventVars, Takeable
<1>5. CASE Loop
  <2>1. CASE ClearReady BY <2>1 DEF ClearReady, In, eventVars, Takeable
  <2>2. CASE Drain /\ Takeable
    BY <2>2 DEF Drain, Take, In, Takeable
  <2>3. CASE Drain /\ ~Takeable
    BY <2>3 DEF Drain, eventVars, Takeable
  <2> QED BY <1>5, <2>1, <2>2, <2>3 DEF Loop
<1>6. CASE Stop
  <2>1. CASE Takeable BY <1>6, <2>1 DEF Stop, Shutdown, Take, In, Takeable
  <2>2. CASE ~Takeable BY <1>6, <2>2 DEF Stop, Shutdown, eventVars, In, Takeable
  <2> QED BY <2>1, <2>2
<1>7. CASE DriverTurn BY <1>7 DEF DriverTurn, Takeable
<1>8. CASE IntervalTick BY <1>8 DEF IntervalTick, eventVars, Takeable
<1>9. ASSUME NEW c \in Cpus, Kernel(c) PROVE WakeInv'
  <2>1. UNCHANGED <<phase, ready, renewed>> BY <1>9 DEF Kernel, loopVars
  <2> QED BY <1>9, <2>1, KernelWakes
<1>10. CASE UNCHANGED vars BY <1>10 DEF vars, eventVars, loopVars, Takeable
<1> QED BY <1>1, <1>2, <1>3, <1>4, <1>5, <1>6, <1>7, <1>8, <1>9, <1>10 DEF Next

\* No record waits in the ring with nobody to wake the reader (NoLostWakeup),
\* for any number of CPUs and any ring.
THEOREM NoWakeupIsLost == Spec => []NoLostWakeup
<1>1. WakeInv => NoLostWakeup BY DEF WakeInv, NoLostWakeup, In
<1> QED BY WakeInit, WakeStep, <1>1, PTL DEF Spec

--------------------------------------------------------------------------------
(* The guard *)

Early == {"offsets", "denylist"}

Pending(list) == {list[i] : i \in DOMAIN list}
Keys(S) == {Key(p, "zero") : p \in {q \in S : Short(q)}}

\* The deny list holds all that was asked for.
Complete == denylist = Keys(asked)

Busy == \E c \in Cpus : call[c].at # "idle"

\* The list is complete before anything is attached, and stays so while a program
\* is attached or runs, though the agent be gone.
ListInv ==
  /\ attached \in Nat
  /\ asked \subseteq Paths
  /\ enforce \in BOOLEAN
  /\ phase = "offsets" => denylist = {}
  /\ phase = "denylist" => todo \in Seq(Paths) /\ denylist \cup Keys(Pending(todo)) = Keys(asked)
  /\ phase \in Early => attached = 0 /\ ~Busy
  /\ phase \notin Early \cup {"aborted", "killed"} => Complete
  /\ attached > 0 \/ Busy => Complete

GuardInv == CountTyped /\ ListInv /\ GuardExact

LEMMA PendingTail ==
  ASSUME NEW S, NEW list \in Seq(S), list # <<>>
  PROVE  Pending(list) = {Head(list)} \cup Pending(Tail(list))
<1>1. Head(list) = list[1] /\ Len(Tail(list)) = Len(list) - 1 /\ Len(list) \in Nat /\ Len(list) > 0 OBVIOUS
<1>2. \A i \in 1 .. Len(Tail(list)) : Tail(list)[i] = list[i + 1] OBVIOUS
<1>3. DOMAIN list = 1 .. Len(list) /\ DOMAIN Tail(list) = 1 .. Len(Tail(list)) OBVIOUS
<1>4. ASSUME NEW i \in DOMAIN list PROVE list[i] \in {Head(list)} \cup Pending(Tail(list))
  <2>1. CASE i = 1 BY <1>1, <2>1
  <2>2. CASE i # 1
    <3>1. i - 1 \in DOMAIN Tail(list) /\ Tail(list)[i - 1] = list[i] BY <1>1, <1>2, <1>3, <2>2
    <3> QED BY <3>1 DEF Pending
  <2> QED BY <2>1, <2>2
<1>5. ASSUME NEW i \in DOMAIN Tail(list) PROVE Tail(list)[i] \in Pending(list)
  <2>1. i + 1 \in DOMAIN list /\ Tail(list)[i] = list[i + 1] BY <1>1, <1>2, <1>3
  <2> QED BY <2>1 DEF Pending
<1>6. Head(list) \in Pending(list) BY <1>1, <1>3 DEF Pending
<1> QED BY <1>4, <1>5, <1>6 DEF Pending

LEMMA PendingPaths ==
  ASSUME NEW list \in Seq(Paths)
  PROVE  Pending(list) \subseteq Paths
BY DEF Pending

LEMMA KeysUnion == ASSUME NEW S, NEW T PROVE Keys(S \cup T) = Keys(S) \cup Keys(T)
BY DEF Keys

\* Looking a path up in the complete list asks whether what fits of it was listed.
LEMMA LookedUp ==
  ASSUME Complete, asked \subseteq Paths, NEW path \in Paths
  PROVE  Key(path, "zero") \in denylist <=> Stem[path] \in Denied
<1>1. ASSUME Stem[path] \in Denied PROVE Key(path, "zero") \in denylist
  <2>1. Stem[Stem[path]] = Stem[path] BY ExecGuardAssumption
  <2>2. Key(path, "zero") = Key(Stem[path], "zero") BY <2>1 DEF Key
  <2> QED BY <1>1, <2>2 DEF Complete, Keys, Denied
<1>2. ASSUME Key(path, "zero") \in denylist PROVE Stem[path] \in Denied
  <2>1. PICK p \in asked : Short(p) /\ Key(path, "zero") = Key(p, "zero") BY <1>2 DEF Complete, Keys
  <2>2. Stem[path] = Stem[p] BY <2>1 DEF Key
  <2> QED BY <2>1, <2>2 DEF Denied, Short
<1> QED BY <1>1, <1>2

\* What the guard does with one call.
Exact(x) ==
  LET denies == x.prev = Allow /\ x.basis = "list" /\ enforce /\ Stem[x.path] \in Denied
  IN x.ret = IF denies THEN Deny ELSE x.prev

\* The count of losses does not go back to zero.
LEMMA CountStaysUp ==
  ASSUME CountTyped, NEW c \in Cpus, Kernel(c), stats > 0
  PROVE  stats' > 0
<1>1. CASE Stores(c)
  <2>1. call[c] \in Calls /\ call[c].at = "store" BY <1>1 DEF CountTyped, Stores
  <2>2. call[c].seen \in Nat BY <2>1 DEF Calls
  <2> QED BY <1>1, <2>2 DEF Stores
<1> QED BY <1>1, KernelSteps DEF Enters, Loads, Moves

\* A program that runs makes its own call, and no other, exact.
LEMMA KernelExact ==
  ASSUME CountTyped, Complete, asked \subseteq Paths, enforce \in BOOLEAN, GuardExact,
         NEW c \in Cpus, Kernel(c)
  PROVE  GuardExact'
<1> DEFINE Made(x) == /\ call' = [call EXCEPT ![c] = x]
                      /\ x.at = "returned" => Exact(x) /\ (x.basis = "full" => stats' > 0)
<1>0. UNCHANGED <<enforce, asked>> 
  BY DEF Kernel, Starts, Goes, agentVars, guardVars, TryBprm, Decide, StoreAndPass, Return
<1>m. ASSUME NEW x, Made(x) PROVE GuardExact'
  <2>1. \A d \in Cpus : call'[d] = IF d = c THEN x ELSE call[d] BY <1>m DEF CountTyped
  <2>2. Denied' = Denied BY <1>0 DEF Denied, Short
  <2>3. ASSUME NEW d \in Cpus, call'[d].at = "returned"
        PROVE  Exact(call'[d]) /\ (call'[d].basis = "full" => stats' > 0)
    <3>1. CASE d = c BY <1>m, <2>1, <2>3, <3>1
    <3>2. CASE d # c BY <2>1, <2>3, <3>2, CountStaysUp DEF GuardExact, Exact, At
    <3> QED BY <3>1, <3>2
  <2> QED BY <1>0, <2>2, <2>3 DEF GuardExact, Exact, At
<1>q. ASSUME NEW path, Reserve(c, path) PROVE GuardExact'
  <2>1. CASE call' = [call EXCEPT ![c] = [at |-> "filling", path |-> path]] BY <1>m, <2>1
  <2>2. CASE call' = [call EXCEPT ![c] = [at |-> "load", path |-> path]] BY <1>m, <2>2
  <2> QED BY <1>q, <2>1, <2>2 DEF Reserve
<1>i. ASSUME call' = [call EXCEPT ![c] = Idle] PROVE GuardExact' BY <1>i, <1>m DEF Idle
<1>1. CASE Probe(c) BY <1>1, <1>q DEF Probe
<1>2. ASSUME NEW path \in Paths, NEW prev \in {Allow, Deny}, TryBprm(c, path, prev) PROVE GuardExact'
  <2>1. CASE Reserve(c, path) BY <1>q, <2>1
  <2>2. CASE prev # Allow /\ call' = [call EXCEPT ![c] = Returned(path, prev, prev, "earlier")]
    <3>1. Exact(Returned(path, prev, prev, "earlier")) BY <2>2 DEF Exact, Returned
    <3> QED BY <1>m, <2>2, <3>1 DEF Returned
  <2>3. CASE call' = [call EXCEPT ![c] = Returned(path, Allow, Allow, "unread")]
    <3>1. Exact(Returned(path, Allow, Allow, "unread")) BY DEF Exact, Returned
    <3> QED BY <1>m, <2>3, <3>1 DEF Returned
  <2> QED BY <1>2, <2>1, <2>2, <2>3 DEF TryBprm
<1>3. CASE Submit(c) BY <1>3, <1>i DEF Submit, Commit
<1>4. CASE Load(c)
  <2>1. PICK x : x.at = "store" /\ call' = [call EXCEPT ![c] = x] BY <1>4 DEF Load
  <2> QED BY <1>m, <2>1
<1>5. CASE StoreAndEnd(c) BY <1>5, <1>i DEF StoreAndEnd, Store
<1>6. CASE Decide(c)
  <2> DEFINE path == call[c].path
             verdict(left) == IF enforce /\ Key(path, KeyTail(left)) \in denylist THEN Deny ELSE Allow
  <2>1. path \in Paths
    <3>1. call[c] \in Calls /\ call[c].at = "filling" BY <1>6 DEF CountTyped, Decide, At
    <3>2. path \in Asked BY <3>1 DEF Calls
    <3> QED BY <1>6, <3>2 DEF Decide, Asked
  <2>2. CASE Commit(c, "discarded", Returned(path, Allow, Allow, "unread"))
    <3>1. Exact(Returned(path, Allow, Allow, "unread")) BY DEF Exact, Returned
    <3> QED BY <1>m, <2>2, <3>1 DEF Commit, Returned
  <2>3. ASSUME NEW left \in Tails, Commit(c, "ready", Returned(path, Allow, verdict(left), "list")) PROVE GuardExact'
    <3>1. Key(path, KeyTail(left)) \in denylist <=> Stem[path] \in Denied BY <2>1, LookedUp DEF KeyTail
    <3>2. Exact(Returned(path, Allow, verdict(left), "list")) BY <3>1 DEF Exact, Returned
    <3> QED BY <1>m, <2>3, <3>2 DEF Commit, Returned
  <2> QED BY <1>6, <2>2, <2>3 DEF Decide
<1>7. CASE StoreAndPass(c)
  <2>1. Exact(Returned(call[c].path, Allow, Allow, "full")) BY DEF Exact, Returned
  <2>2. stats' > 0
    <3>1. call[c] \in Calls /\ call[c].at = "store" BY <1>7 DEF CountTyped, StoreAndPass, At
    <3>2. call[c].seen \in Nat BY <3>1 DEF Calls
    <3> QED BY <1>7, <3>2 DEF StoreAndPass, Store
  <2> QED BY <1>7, <1>m, <2>1, <2>2 DEF StoreAndPass, Store
<1>8. CASE Return(c) BY <1>8, <1>i DEF Return
<1> QED BY <1>1, <1>2, <1>3, <1>4, <1>5, <1>6, <1>7, <1>8 DEF Kernel, Starts, Goes

LEMMA GuardInit == Init => GuardInv
<1> SUFFICES ASSUME Init PROVE GuardInv OBVIOUS
<1>1. CountTyped BY CountInit DEF CountInv
<1>2. \A c \in Cpus : call[c].at = "idle" BY DEF Init, EventsInit, Idle
<1>3. ListInv
  <2>1. ~Busy BY <1>2 DEF Busy
  <2>2. phase = "offsets" /\ attached = 0 /\ asked = {} /\ enforce = FALSE /\ denylist = {} BY DEF Init
  <2>3. enforce \in BOOLEAN /\ asked \subseteq Paths BY <2>2
  <2>4. phase \in Early /\ phase # "denylist" /\ ~(attached > 0) /\ attached \in Nat BY <2>2 DEF Early
  <2> QED BY <2>1, <2>2, <2>3, <2>4 DEF ListInv
<1>4. GuardExact BY <1>2 DEF GuardExact, At
<1> QED BY <1>1, <1>3, <1>4 DEF GuardInv

LEMMA TypedStep ==
  ASSUME CountInv, [Next]_vars
  PROVE  CountTyped'
BY CountStep DEF CountInv

\* The steps of the agent itself, which leave the calls alone.
LEMMA AgentKeepsList ==
  ASSUME GuardInv, Next, UNCHANGED <<call, stats>>, \A c \in Cpus : ~Kernel(c)
  PROVE  ListInv' /\ GuardExact'
<1> USE DEF GuardInv
<1> DEFINE ListVars == <<denylist, asked, enforce>>
<1>b. Busy' = Busy BY DEF Busy
<1>n. ~Busy => GuardExact' BY DEF Busy, GuardExact, At
<1>x. UNCHANGED ListVars => GuardExact' BY DEF GuardExact, At, Denied, Short
<1>k. UNCHANGED <<denylist, asked>> => (Complete' <=> Complete) BY DEF Complete, Keys, Key, Short
\* Nothing but the place in the program changes.
<1>g. ASSUME UNCHANGED <<denylist, asked, enforce, attached>>, phase' \notin Early,
             phase' \in {"aborted", "killed"} \/ Complete
      PROVE ListInv' /\ GuardExact'
  BY <1>b, <1>x, <1>k, <1>g DEF ListInv, Early
<1>d. ASSUME UNCHANGED <<denylist, asked, enforce>>, attached' = 0, phase' \in {"aborted", "killed"}
      PROVE ListInv' /\ GuardExact'
  BY <1>b, <1>x, <1>k, <1>d DEF ListInv, Early
<1>s. ASSUME UNCHANGED <<denylist, asked, enforce, attached, todo, phase>>
      PROVE ListInv' /\ GuardExact'
  <2>1. (Keys(Pending(todo)) = Keys(Pending(todo)))' /\ Keys(Pending(todo))' = Keys(Pending(todo))
        /\ Keys(asked)' = Keys(asked)
    BY <1>s DEF Keys, Pending, Key, Short
  <2> QED BY <1>b, <1>x, <1>k, <1>s, <2>1 DEF ListInv
<1>1. CASE LookUp BY <1>1, <1>s DEF LookUp, guardVars, loopVars, agentVars
<1>2. CASE LookUpFails \/ DenylistFull \/ StepFails
  BY <1>2, <1>d DEF LookUpFails, DenylistFull, StepFails, Abort, guardVars
<1>3. CASE KillEarly BY <1>3, <1>d DEF KillEarly, guardVars
<1>4. CASE SetOffsets
  <2>1. PICK list \in DenyLists : todo' = list /\ asked' = Pending(list) BY <1>4 DEF SetOffsets, Pending
  <2>2. list \in Seq(Paths) BY AgentAssumption
  <2>3. asked' \subseteq Paths BY <2>1, <2>2, PendingPaths
  <2>4. ~Busy /\ denylist = {} /\ attached = 0 BY <1>4 DEF SetOffsets, In, ListInv, Early
  <2>5. denylist' = {} /\ phase' = "denylist" /\ attached' = 0 /\ enforce' \in BOOLEAN BY <1>4, <2>4 DEF SetOffsets
  <2>6. (denylist \cup Keys(Pending(todo)) = Keys(asked))' BY <2>1, <2>5 DEF Keys, Pending, Key, Short
  <2>7. todo' \in Seq(Paths) BY <2>1, <2>2
  <2>8. ListInv' BY <1>b, <2>3, <2>4, <2>5, <2>6, <2>7 DEF ListInv, Early
  <2> QED BY <1>n, <2>4, <2>8
<1>5. CASE DenyNext
  <2>0. phase = "denylist" /\ todo # <<>> BY <1>5 DEF DenyNext, In
  <2>1. todo \in Seq(Paths) /\ denylist \cup Keys(Pending(todo)) = Keys(asked) /\ ~Busy /\ attached = 0
    BY <2>0 DEF ListInv, Early
  <2>2. todo' = Tail(todo) /\ UNCHANGED <<asked, enforce, attached, phase>>
    BY <1>5 DEF DenyNext, loopVars
  <2>3. denylist' = denylist \cup Keys({Head(todo)}) BY <1>5 DEF DenyNext, Keys, Key
  <2>4. Pending(todo) = {Head(todo)} \cup Pending(todo') BY <2>0, <2>1, <2>2, PendingTail
  <2>5. denylist' \cup Keys(Pending(todo')) = Keys(asked) BY <2>1, <2>3, <2>4, KeysUnion
  <2>6. (denylist \cup Keys(Pending(todo)) = Keys(asked))' BY <2>2, <2>5 DEF Keys, Pending, Key, Short
  <2>7. todo' \in Seq(Paths) BY <2>0, <2>1, <2>2
  <2>8. ListInv' BY <1>b, <2>0, <2>1, <2>2, <2>6, <2>7 DEF ListInv, Early
  <2> QED BY <1>n, <2>1, <2>8
<1>6. CASE Attach
  <2>1. Complete
    <3>1. CASE phase = "attach" BY <3>1 DEF ListInv, Early
    <3>2. CASE phase = "denylist" /\ todo = <<>>
      <4>1. Keys(Pending(todo)) = {} BY <3>2 DEF Pending, Keys
      <4> QED BY <3>2, <4>1 DEF ListInv, Complete
    <3> QED BY <1>6, <3>1, <3>2 DEF Attach, In
  <2>2. phase' = "attach" /\ attached' \in Nat /\ UNCHANGED <<denylist, asked, enforce>>
    BY <1>6 DEF Attach, guardVars, ListInv
  <2> QED BY <1>b, <1>x, <1>k, <2>1, <2>2 DEF ListInv, Early
<1>7. CASE OpenRing BY <1>7, <1>g DEF OpenRing, In, guardVars, agentVars, ListInv, Early
<1>8. CASE StartLoop BY <1>8, <1>g DEF StartLoop, In, guardVars, agentVars, ListInv, Early
<1>9. CASE Terminate BY <1>9, <1>s DEF Terminate, guardVars, agentVars
<1>10. CASE (OnInterrupt \/ OnSigterm \/ OnTimer \/ OnReadable) /\ Rest
  BY <1>10, <1>g, <1>s DEF OnInterrupt, OnSigterm, OnTimer, OnReadable, Rest, In, guardVars, agentVars, ListInv, Early
<1>11. CASE Loop
  BY <1>11, <1>g, <1>s DEF Loop, Drain, ClearReady, Rest, In, guardVars, agentVars, ListInv, Early
<1>12. CASE Stop
  <2>1. phase = "shutdown" /\ phase' \in {"shutdown", "stopped"} BY <1>12 DEF Stop, Shutdown, In
  <2>2. Complete BY <2>1 DEF ListInv, Early
  <2>3. attached' \in Nat /\ UNCHANGED <<denylist, asked, enforce>> BY <1>12 DEF Stop, ListInv, guardVars
  <2> QED BY <1>x, <1>k, <2>1, <2>2, <2>3 DEF ListInv, Early
<1>13. CASE (DriverTurn \/ IntervalTick) /\ Rest
  BY <1>13, <1>s DEF DriverTurn, IntervalTick, Rest, guardVars, agentVars
<1> QED BY <1>1, <1>2, <1>3, <1>4, <1>5, <1>6, <1>7, <1>8, <1>9, <1>10, <1>11, <1>12, <1>13 DEF Next, Setup

\* A program runs only when the list is complete.
LEMMA KernelKeepsList ==
  ASSUME GuardInv, NEW c \in Cpus, Kernel(c)
  PROVE  ListInv' /\ GuardExact'
<1> USE DEF GuardInv
<1>1. UNCHANGED <<denylist, asked, enforce, attached, todo, phase>>
  BY DEF Kernel, Starts, Goes, agentVars, loopVars, guardVars, TryBprm, Decide, StoreAndPass, Return
<1>2. attached > 0 \/ Busy
  <2>1. CASE Starts(c) BY <2>1, AgentAssumption DEF Starts, GuardAttached, ListInv
  <2>2. CASE Goes(c)
    BY <2>2 DEF Goes, Submit, Load, StoreAndEnd, Decide, StoreAndPass, Return, At, Busy
  <2> QED BY <2>1, <2>2 DEF Kernel
<1>3. Complete /\ phase \notin Early BY <1>2 DEF ListInv
<1>4. Complete' BY <1>1, <1>3 DEF Complete, Keys, Key, Short
<1>5. ListInv' BY <1>1, <1>3, <1>4 DEF ListInv, Early
<1>6. GuardExact' BY <1>3, KernelExact DEF ListInv
<1> QED BY <1>5, <1>6

LEMMA GuardStep == CountInv /\ GuardInv /\ [Next]_vars => GuardInv'
<1> SUFFICES ASSUME CountInv, GuardInv, [Next]_vars PROVE GuardInv' OBVIOUS
<1>1. CountTyped' BY TypedStep
<1>2. CASE UNCHANGED vars
  <2>1. UNCHANGED <<call, stats, denylist, asked, enforce, attached, todo, phase>>
    BY <1>2 DEF vars, eventVars, guardVars, loopVars, agentVars
  <2>2. ListInv'
    <3>1. Keys(Pending(todo))' = Keys(Pending(todo)) /\ Keys(asked)' = Keys(asked) /\ Busy' = Busy
      BY <2>1 DEF Keys, Pending, Key, Short, Busy
    <3> QED BY <2>1, <3>1 DEF GuardInv, ListInv, Complete
  <2>3. GuardExact' BY <2>1 DEF GuardInv, GuardExact, At, Denied, Short
  <2> QED BY <1>1, <2>2, <2>3 DEF GuardInv
<1>3. ASSUME NEW c \in Cpus, Kernel(c) PROVE GuardInv'
  BY <1>1, <1>3, KernelKeepsList DEF GuardInv
<1>4. CASE Next /\ \A c \in Cpus : ~Kernel(c)
  BY <1>1, <1>4, OthersCountNothing, AgentKeepsList DEF GuardInv
<1> QED BY <1>2, <1>3, <1>4

\* A guard that comes to look denies exactly the paths whose stem is listed, and once
\* one passed because the ring was full the count of losses is not zero (GuardExact),
\* for any list, any limit, any number of CPUs and any order of the programs on them.
THEOREM GuardIsExact == Spec => []GuardExact
<1>1. GuardInv => GuardExact BY DEF GuardInv
<1> QED BY CountInit, CountStep, GuardInit, GuardStep, <1>1, PTL DEF Spec

--------------------------------------------------------------------------------
(* The parser *)

\* The recursion of Start has a solution: each type begins where the one before
\* it ends.
LEMMA StartIs ==
  ASSUME section \in Seq(Type)
  PROVE  /\ Start[1] = 0
         /\ \A i \in DOMAIN section : Start[i + 1] = Start[i] + HeaderLen + section[i].trailer
<1> DEFINE N == Len(section)
           Equation(g) ==
             g = [i \in 1 .. N + 1 |->
                    IF i = 1 THEN 0 ELSE g[i - 1] + HeaderLen + section[i - 1].trailer]
           size == [i \in Nat |-> IF i \in 1 .. N THEN HeaderLen + section[i].trailer ELSE 0]
           step == [i \in Nat |-> [x \in Nat |-> x + size[i]]]
<1>0. N \in Nat /\ DOMAIN section = 1 .. N
  OBVIOUS
<1>t. \A i \in 1 .. N : section[i].trailer \in Nat
  <2>1. \A i \in 1 .. N : section[i] \in Type
    BY <1>0
  <2> HIDE DEF N
  <2> QED
    BY <2>1 DEF Type
<1>1. size \in [Nat -> Nat]
  <2> HIDE DEF N
  <2> QED
    BY <1>t DEF HeaderLen
<1>2. \E g : Equation(g)
  <2>1. IsStep(step, Nat)
    <3> HIDE DEF size
    <3> QED
      BY <1>1 DEF IsStep
  <2>2. \A i \in Nat, x \in Nat : step[i][x] = x + size[i]
    OBVIOUS
  <2> HIDE DEF step
  <2>3. PICK f : IsLoop(f, Nat, 0, step)
    BY <2>1, Recursion
  <2> DEFINE g == [i \in 1 .. N + 1 |-> f[i - 1]]
  <2>4. f \in [Nat -> Nat] /\ f[0] = 0 /\ \A i \in Nat \ {0} : f[i] = f[i - 1] + size[i]
    <3>1. f \in [Nat -> Nat] /\ f[0] = 0 /\ \A i \in Nat \ {0} : f[i] = step[i][f[i - 1]]
      BY <2>3 DEF IsLoop
    <3>2. ASSUME NEW i \in Nat \ {0} PROVE f[i] = f[i - 1] + size[i]
      <4>1. i - 1 \in Nat
        OBVIOUS
      <4>2. f[i - 1] \in Nat
        BY <3>1, <4>1
      <4> HIDE DEF size
      <4> QED
        BY <2>2, <3>1, <4>2
    <3> HIDE DEF size
    <3> QED
      BY <3>1, <3>2
  <2>5. ASSUME NEW i \in 1 .. N + 1, i # 1
        PROVE  g[i] = g[i - 1] + HeaderLen + section[i - 1].trailer
    <3>1. i - 1 \in 1 .. N /\ i - 1 \in Nat \ {0} /\ (i - 1) - 1 \in Nat /\ i - 1 \in 1 .. N + 1
      BY <1>0, <2>5
    <3>2. size[i - 1] = HeaderLen + section[i - 1].trailer
      BY <3>1
    <3>3. g[i] = f[i - 1] /\ g[i - 1] = f[(i - 1) - 1]
      BY <3>1
    <3>4. section[i - 1].trailer \in Nat /\ f[(i - 1) - 1] \in Nat
      <4> HIDE DEF size
      <4> QED
        BY <1>t, <2>4, <3>1
    <3>5. f[i - 1] = f[(i - 1) - 1] + size[i - 1]
      <4> HIDE DEF size
      <4> QED
        BY <2>4, <3>1
    <3> HIDE DEF g, size, N
    <3>6. \A a, b \in Nat : a + (HeaderLen + b) = (a + HeaderLen) + b
      BY DEF HeaderLen
    <3>7. f[i - 1] = f[(i - 1) - 1] + (HeaderLen + section[i - 1].trailer)
      BY <3>2, <3>5
    <3>8. f[i - 1] = (f[(i - 1) - 1] + HeaderLen) + section[i - 1].trailer
      BY <3>4, <3>6, <3>7
    <3> QED
      BY <3>3, <3>8
  <2>6. g[1] = 0
    BY <1>0, <2>4
  <2>7. DOMAIN g = 1 .. N + 1 /\ g = [i \in 1 .. N + 1 |-> g[i]]
    OBVIOUS
  <2> HIDE DEF g, N
  <2>8. Equation(g)
    BY <2>5, <2>6, <2>7
  <2> QED
    BY <2>8
<1> DEFINE start == CHOOSE g : Equation(g)
<1>3. Equation(start)
  <2> HIDE DEF Equation
  <2> QED
    BY <1>2
<1>4. Start = start
  BY DEF Start
<1> HIDE DEF start
<1>5. ASSUME NEW i \in DOMAIN section
      PROVE  start[i + 1] = start[i] + HeaderLen + section[i].trailer
  <2>1. i + 1 \in 1 .. N + 1 /\ i + 1 # 1 /\ (i + 1) - 1 = i
    BY <1>0
  <2> QED
    BY <1>3, <2>1
<1>6. start[1] = 0
  BY <1>0, <1>3
<1> QED
  BY <1>4, <1>5, <1>6

\* The walk stands at the first byte of a type, or at the end.
AtAType == off = 0 \/ \E i \in 1 .. Len(section) + 1 : Begins(i)

BtfInv ==
  /\ section \in Seq(Type)
  /\ Formatted(section)
  /\ off \in Nat /\ AtAType
  /\ answers \in Seq(Nat)
  /\ OffsetsTrue

\* The trailer the walk steps over is the one that is there.
LEMMA ExtraLenIsTrailer ==
  ASSUME Formatted(section), NEW i \in DOMAIN section, section[i] \in Type, section[i].kind \in KnownKinds
  PROVE  ExtraLen(section[i].kind, section[i].vlen) = section[i].trailer
<1>1. section[i].trailer = 4 * Words(section[i])
  BY DEF Formatted, KnownKinds
<1>2. section[i].kind \in Nat /\ section[i].vlen \in Nat
  BY DEF Type
<1> QED
  BY <1>1, <1>2 DEF ExtraLen, Words

\* Before the end of the section the walk reads a type that is there.
LEMMA ReadsAType ==
  ASSUME BtfInv, off < SectionEnd, NEW t \in TypesRead
  PROVE  \E i \in DOMAIN section : t = section[i] /\ Begins(i)
<1>1. Len(section) \in Nat /\ DOMAIN section = 1 .. Len(section) /\ Start[1] = 0
  BY StartIs DEF BtfInv
<1>2. PICK i \in 1 .. Len(section) + 1 : Begins(i)
  BY <1>1 DEF BtfInv, AtAType, Begins
<1>3. i # Len(section) + 1
  BY <1>2 DEF BtfInv, Begins, SectionEnd
<1>4. i \in DOMAIN section
  BY <1>1, <1>3
<1> QED
  BY <1>2, <1>4 DEF TypesRead

LEMMA AdvanceIsSound ==
  ASSUME BtfInv, Advance
  PROVE  BtfInv'
<1>1. PICK t \in TypesRead : t.kind \in KnownKinds /\ off' = off + HeaderLen + ExtraLen(t.kind, t.vlen)
  BY DEF Advance
<1>2. UNCHANGED <<section, answers>> /\ off < SectionEnd
  BY DEF Advance
<1>3. PICK i \in DOMAIN section : t = section[i] /\ Begins(i)
  BY <1>2, ReadsAType
<1>4. section[i] \in Type
  BY DEF BtfInv
<1>5. off' = Start[i + 1]
  <2>1. ExtraLen(t.kind, t.vlen) = section[i].trailer
    BY <1>1, <1>3, <1>4, ExtraLenIsTrailer DEF BtfInv
  <2>2. Start[i + 1] = Start[i] + HeaderLen + section[i].trailer /\ Start[i] = off
    BY <1>3, StartIs DEF BtfInv, Begins
  <2> QED
    BY <1>1, <2>1, <2>2
<1>6. i + 1 \in 1 .. Len(section) + 1
  BY DEF BtfInv
<1>7. AtAType'
  <2>1. Start' = Start
    BY <1>2 DEF Start
  <2> QED
    BY <1>2, <1>5, <1>6, <2>1 DEF AtAType, Begins
<1>8. OffsetsTrue'
  BY <1>2 DEF OffsetsTrue, BtfInv
<1>9. off' \in Nat
  <2>1. ExtraLen(t.kind, t.vlen) = section[i].trailer
    BY <1>1, <1>3, <1>4, ExtraLenIsTrailer DEF BtfInv
  <2>2. section[i].trailer \in Nat
    BY <1>4 DEF Type
  <2> QED
    BY <1>1, <2>1, <2>2 DEF BtfInv, HeaderLen
<1> QED
  BY <1>2, <1>7, <1>8, <1>9 DEF BtfInv, Formatted, Words

\* Query q is answered by the type at place i.
Answers(i, q, a) ==
  /\ section[i].kind \in {BtfStruct, BtfUnion}
  /\ section[i].name = Queries[q].struct
  /\ \E m \in DOMAIN section[i].members :
       /\ section[i].members[m].name = Queries[q].field
       /\ section[i].members[m].bit = 8 * a

\* The mask takes the width off.
LEMMA LowBits ==
  ASSUME NEW bit \in Nat, NEW width \in Nat, bit < Low
  PROVE  (width * Low + bit) % Low = bit
BY DEF Low

LEMMA AnswerIsSound ==
  ASSUME BtfInv, Answer
  PROVE  BtfInv'
<1> DEFINE N == Len(answers) + 1
<1>0. PICK t \in TypesRead :
        /\ Wanted(t)
        /\ \E bits \in FieldBits(t, Query.field) : bits % 8 = 0 /\ answers' = Append(answers, bits \div 8)
  BY DEF Answer
<1>1. PICK bits \in FieldBits(t, Query.field) : bits % 8 = 0 /\ answers' = Append(answers, bits \div 8)
  BY <1>0
<1>2. section' = section /\ off' = 0 /\ off < SectionEnd
  BY DEF Answer
<1>3. PICK i \in DOMAIN section : t = section[i] /\ Begins(i)
  BY <1>2, ReadsAType
<1>4. PICK m \in DOMAIN t.members : t.members[m].name = Query.field /\ bits = BitOffset(t, t.members[m])
  BY <1>1 DEF FieldBits
<1>5. bits \in Nat /\ bits = t.members[m].bit
  <2>1. t \in Type /\ (t.kind_flag => t.members[m].bit < Low)
    BY <1>3, <1>4 DEF BtfInv, Formatted
  <2>2. t.members \in Seq(Member)
    BY <2>1 DEF Type
  <2>3. t.members[m] \in Member
    BY <1>4, <2>2
  <2>4. t.members[m].bit \in Nat /\ t.members[m].width \in Nat
    BY <2>3 DEF Member
  <2> QED
    BY <1>4, <2>1, <2>4, LowBits DEF BitOffset, RawOffset
<1>6. bits \div 8 \in Nat /\ 8 * (bits \div 8) = bits
  BY <1>1, <1>5
<1>7. answers' \in Seq(Nat) /\ DOMAIN answers' = DOMAIN answers \cup {N} /\ answers'[N] = bits \div 8
      /\ \A q \in DOMAIN answers : answers'[q] = answers[q]
  BY <1>1, <1>6 DEF BtfInv
<1>8. Answers(i, N, bits \div 8)
  BY <1>0, <1>3, <1>4, <1>5, <1>6 DEF Answers, Wanted, Query
<1>9. ASSUME NEW q \in DOMAIN answers'
      PROVE  \E j \in DOMAIN section : Answers(j, q, answers'[q])
  <2>1. CASE q = N
    BY <1>7, <1>8, <2>1
  <2>2. CASE q # N
    BY <1>7, <2>2 DEF BtfInv, OffsetsTrue, Answers
  <2> QED
    BY <2>1, <2>2
<1> HIDE DEF N
<1>10. OffsetsTrue'
  BY <1>2, <1>9 DEF OffsetsTrue, Answers
<1> QED
  BY <1>2, <1>7, <1>10 DEF BtfInv, AtAType, Formatted, Words

\* Only the lookup and the end of it touch the parser.
LEMMA OthersReadNothing ==
  ASSUME Next, ~Setup
  PROVE  UNCHANGED btfVars
<1>1. CASE StepFails \/ KillEarly \/ Terminate
  BY <1>1 DEF StepFails, KillEarly, Terminate, Abort
<1>2. CASE Stop
  BY <1>2 DEF Stop
<1>3. CASE \E c \in Cpus : Kernel(c)
  BY <1>3 DEF Kernel
<1> QED
  BY <1>1, <1>2, <1>3 DEF Next, Loop, Rest

LEMMA NothingRead ==
  ASSUME BtfInv, UNCHANGED btfVars
  PROVE  BtfInv'
<1>1. section' = section /\ off' = off /\ answers' = answers
  BY DEF btfVars
<1>2. AtAType'
  <2>1. Start' = Start
    BY <1>1 DEF Start
  <2> QED
    BY <1>1, <2>1 DEF BtfInv, AtAType, Begins
<1>3. OffsetsTrue'
  BY <1>1 DEF OffsetsTrue, BtfInv
<1> QED
  BY <1>1, <1>2, <1>3 DEF BtfInv, Formatted, Words

LEMMA BtfStep == BtfInv /\ [Next]_vars => BtfInv'
<1> SUFFICES ASSUME BtfInv, [Next]_vars
             PROVE  BtfInv'
  OBVIOUS
<1>1. CASE LookUp
  BY <1>1, AdvanceIsSound, AnswerIsSound DEF LookUp
<1>2. CASE SetOffsets
  <2>1. section' = <<>> /\ off' = 0 /\ answers' = <<>>
    BY <1>2 DEF SetOffsets
  <2> QED
    BY <2>1 DEF BtfInv, AtAType, Formatted, OffsetsTrue
<1>3. CASE Setup /\ ~LookUp /\ ~SetOffsets
  <2>1. UNCHANGED btfVars
    BY <1>3 DEF Setup, LookUpFails, DenyNext, DenylistFull, Attach, OpenRing, StartLoop, Abort
  <2> QED
    BY <2>1, NothingRead
<1>4. CASE Next /\ ~Setup
  BY <1>4, OthersReadNothing, NothingRead
<1>5. CASE UNCHANGED vars
  BY <1>5, NothingRead DEF vars
<1> QED
  BY <1>1, <1>2, <1>3, <1>4, <1>5

\* Whatever the kernel's type section holds, and whatever is asked for, an offset
\* the kernel programs get is that of the field they name (OffsetsTrue).
THEOREM OffsetsAreTrue == Spec => []OffsetsTrue
<1>1. Init => BtfInv
  BY BtfAssumption DEF Init, BtfInit, BtfInv, AtAType, OffsetsTrue
<1>2. BtfInv => OffsetsTrue
  BY DEF BtfInv
<1> QED
  BY <1>1, <1>2, BtfStep, PTL DEF Spec

================================================================================
