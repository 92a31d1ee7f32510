--------------------------------- MODULE Events ---------------------------------
(******************************************************************************)
(* What the probes of nazar-ebpf (src/nazar-ebpf/src/main.rs) share: the       *)
(* EVENTS ring buffer, in which a record is reserved, filled and then          *)
(* submitted or discarded, and the STATS counter that a failed reservation     *)
(* bumps.  Probes run on every CPU at once; each step of one is an action, so  *)
(* records are committed in any order and bumps race.                          *)
(*                                                                            *)
(* The ring is the sequence of the records from the consumer's position on, in *)
(* the order of their reservation.  A commit wakes the reader only when its    *)
(* record is the one at that position (flags = 0).  Module Sensor has the      *)
(* contents of the records, with a probe as one step.                          *)
(******************************************************************************)
EXTENDS Integers, Sequences, FiniteSets

CONSTANTS
  Cpus,      \* the CPUs probes run on
  Capacity,  \* the records the ring has room for
  NoPath,    \* what a probe other than the exec guard decides about
  MaxDrops   \* bound: the reservations that fail

ASSUME EventsAssumption ==
  IsFiniteSet(Cpus) /\ Capacity \in Nat \ {0} /\ MaxDrops \in Nat

VARIABLES
  slots,   \* EVENTS, oldest reservation first
  wakeup,  \* the commit at the consumer's position has queued a wake-up
  call,    \* the probe each CPU is in
  stats,   \* STATS[STAT_RINGBUF_FULL]
  drops    \* the reservations that failed, which the program does not know

eventVars == <<slots, wakeup, call, stats, drops>>

Idle == [at |-> "idle"]
At(c, place) == call[c].at = place

\* The CPUs inside bump(): they have not stored their increment yet.
Bumping == {c \in Cpus : call[c].at \in {"load", "store"}}

EventsInit ==
  /\ slots = <<>>
  /\ wakeup = FALSE
  /\ call = [c \in Cpus |-> Idle]
  /\ stats = 0
  /\ drops = 0

--------------------------------------------------------------------------------
(* EVENTS.reserve(), submit() and discard() *)

\* A full ring is not an error of the probe: it counts the loss and gives up.
Reserve(c, path) ==
  /\ \/ /\ Len(slots) < Capacity
        /\ slots' = Append(slots, [cpu |-> c, state |-> "busy"])
        /\ call' = [call EXCEPT ![c] = [at |-> "filling", path |-> path]]
        /\ UNCHANGED drops
     \/ /\ Len(slots) = Capacity
        /\ drops < MaxDrops
        /\ drops' = drops + 1
        /\ call' = [call EXCEPT ![c] = [at |-> "load", path |-> path]]
        /\ UNCHANGED slots
  /\ UNCHANGED <<wakeup, stats>>

\* The record a CPU is filling: it has one at most.
Mine(c) == {i \in DOMAIN slots : slots[i].cpu = c /\ slots[i].state = "busy"}

\* flags = 0: the commit wakes the reader if the reader stands at this record.
Commit(c, state, next) ==
  \E i \in Mine(c) :
    /\ slots' = [slots EXCEPT ![i].state = state]
    /\ wakeup' = (wakeup \/ i = 1)
    /\ call' = [call EXCEPT ![c] = next]
    /\ UNCHANGED <<stats, drops>>

\* A tracepoint or cgroup program, from its reservation to its end.
Probe(c) == At(c, "idle") /\ Reserve(c, NoPath)

Submit(c) ==
  /\ At(c, "filling")
  /\ call[c].path = NoPath
  /\ \E state \in {"ready", "discarded"} : Commit(c, state, Idle)

--------------------------------------------------------------------------------
(* bump(): one load and one store, on any number of CPUs *)

Load(c) ==
  /\ At(c, "load")
  /\ call' = [call EXCEPT ![c] = [at |-> "store", path |-> @.path, seen |-> stats]]
  /\ UNCHANGED <<slots, wakeup, stats, drops>>

\* Mutant: the old value is stored.
StoreSeen(c, next) ==
  /\ At(c, "store")
  /\ stats' = call[c].seen
  /\ call' = [call EXCEPT ![c] = next]
  /\ UNCHANGED <<slots, wakeup, drops>>

Store(c, next) ==
  /\ At(c, "store")
  /\ stats' = call[c].seen + 1
  /\ call' = [call EXCEPT ![c] = next]
  /\ UNCHANGED <<slots, wakeup, drops>>

\* The end of bump() is the end of a tracepoint program.
StoreAndEnd(c) == At(c, "store") /\ call[c].path = NoPath /\ Store(c, Idle)

--------------------------------------------------------------------------------
(* RingBuf::next() *)

\* A record that is being filled holds back every later one, committed or not.
Takeable == slots # <<>> /\ Head(slots).state # "busy"

\* The reader moves on; it skips what was discarded.
Take ==
  /\ Takeable
  /\ slots' = Tail(slots)
  /\ UNCHANGED <<wakeup, call, stats, drops>>

--------------------------------------------------------------------------------
(* What the counter promises *)

\* Whatever increments the CPUs take from each other, the count never exceeds
\* the losses, and it is zero only while every CPU that lost an event is still
\* inside bump(): a report of "no events dropped" is never wrong about a loss
\* that was counted to its end (README, "Drop accounting").
CountHonest ==
  /\ stats + Cardinality(Bumping) =< drops
  /\ stats = 0 => drops = Cardinality(Bumping)

================================================================================
