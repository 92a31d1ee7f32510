------------------------------- MODULE EventLoop -------------------------------
(******************************************************************************)
(* The select loop of nazar-agent (src/nazar-agent/src/main.rs 146-320): it    *)
(* waits for ctrl-c, SIGTERM, the expiry timer or a readable ring, drains the *)
(* ring when it is readable, and on a signal leaves the loop and throws away   *)
(* what is still in the ring.  What it does with the records and on the timer  *)
(* is in modules Sensor and Engine; here is when it gets to do it.             *)
(*                                                                            *)
(* The runtime is external.  Its driver turns a queued wake-up into readiness  *)
(* if there is data (the ring is polled edge-triggered).  The guard of         *)
(* readable_mut() remembers which readiness it saw, and clear_ready() clears   *)
(* that one only: renewed says that another came meanwhile.  select! polls     *)
(* its branches in an order drawn at random each time.                         *)
(*                                                                            *)
(* A ctrl_c() future is made for each turn of the select and dropped when      *)
(* another branch wins: an interrupt at any other moment is lost.  The stream  *)
(* for SIGTERM is made once and remembers.  Ticks that were missed come in a   *)
(* burst; they are one here.                                                   *)
(******************************************************************************)
EXTENDS Events

VARIABLES
  phase,    \* where the program is
  ready,    \* the ring is readable, as far as the runtime knows
  renewed,  \* it became readable again since the guard was taken
  due,      \* the interval has ticked
  sigterm   \* SIGTERM was received

loopVars == <<phase, ready, renewed, due, sigterm>>

In(p) == phase = p

LoopPhases == {"select", "drain", "clear"}
Ended == phase \in {"stopped", "aborted", "killed"}

LoopInit == ready = FALSE /\ renewed = FALSE /\ due = FALSE /\ sigterm = FALSE

--------------------------------------------------------------------------------
(* The runtime and the world *)

\* AsyncFd: epoll reports the ring if there is anything between the positions.
DriverTurn ==
  /\ wakeup
  /\ wakeup' = FALSE
  /\ ready' = (ready \/ slots # <<>>)
  /\ renewed' = (renewed \/ slots # <<>>)
  /\ UNCHANGED <<slots, call, stats, drops, phase, due, sigterm>>

IntervalTick ==
  /\ phase \in LoopPhases
  /\ due' = TRUE
  /\ UNCHANGED <<eventVars, phase, ready, renewed, sigterm>>

--------------------------------------------------------------------------------
(* select! *)

OnInterrupt ==
  /\ In("select")
  /\ phase' = "shutdown"
  /\ UNCHANGED <<eventVars, ready, renewed, due, sigterm>>

\* Mutants: a biased select, which polls the ring first.
OnSigtermLast ==
  /\ In("select")
  /\ sigterm /\ ~ready
  /\ phase' = "shutdown"
  /\ UNCHANGED <<eventVars, ready, renewed, due, sigterm>>

OnTimerLast ==
  /\ In("select")
  /\ due /\ ~ready
  /\ due' = FALSE
  /\ UNCHANGED <<eventVars, phase, ready, renewed, sigterm>>

OnSigterm ==
  /\ In("select")
  /\ sigterm
  /\ phase' = "shutdown"
  /\ UNCHANGED <<eventVars, ready, renewed, due, sigterm>>

\* expire() and reap()
OnTimer ==
  /\ In("select")
  /\ due
  /\ due' = FALSE
  /\ UNCHANGED <<eventVars, phase, ready, renewed, sigterm>>

OnReadable ==
  /\ In("select")
  /\ ready
  /\ phase' = "drain"
  /\ renewed' = FALSE
  /\ UNCHANGED <<eventVars, ready, due, sigterm>>

\* Mutant: one record for each time the ring is readable.
DrainOne ==
  /\ In("drain")
  /\ IF Takeable THEN Take ELSE UNCHANGED eventVars
  /\ phase' = "clear"
  /\ UNCHANGED <<ready, renewed, due, sigterm>>

\* while let Some(item) = ring.next()
Drain ==
  /\ In("drain")
  /\ IF Takeable THEN Take /\ UNCHANGED phase
     ELSE phase' = "clear" /\ UNCHANGED eventVars
  /\ UNCHANGED <<ready, renewed, due, sigterm>>

ClearReady ==
  /\ In("clear")
  /\ phase' = "select"
  /\ ready' = renewed
  /\ UNCHANGED <<eventVars, renewed, due, sigterm>>

\* while inner.next().is_some(), the drop report, and the end of main()
Shutdown ==
  /\ In("shutdown")
  /\ IF Takeable THEN Take /\ UNCHANGED phase
     ELSE phase' = "stopped" /\ UNCHANGED eventVars
  /\ UNCHANGED <<ready, renewed, due, sigterm>>

--------------------------------------------------------------------------------
(* What the loop promises *)

\* While the loop waits, a record it could take has made the ring readable or
\* is about to: no record is left in the ring with nobody to wake the reader,
\* whether it was committed before the drain saw an empty ring, after that and
\* before readiness was cleared, or behind a record that took longer.
NoLostWakeup == In("select") /\ Takeable => ready \/ wakeup

\* The drains end: the agent is faster than the kernel in the long run.
DrainsEnd == \A p \in {"drain", "shutdown"} : In(p) ~> ~In(p)

\* SIGTERM stops the agent, at whatever moment after the loop began and though
\* the ring be readable all the time (README, "the agent catches SIGTERM").
Stops == DrainsEnd => (sigterm ~> Ended)

\* The timer gets its turn, though the ring be readable all the time: nothing else
\* reaps a tombstone, and while no process ends nothing else expires history.
TimerServed == DrainsEnd => (due ~> ~due \/ Ended \/ In("shutdown"))

================================================================================
