-------------------------------- MODULE Startup --------------------------------
(******************************************************************************)
(* How nazar-agent gets to know the processes that run already (src/nazar-     *)
(* agent/src/main.rs and procfs.rs).  It attaches its programs one by one,     *)
(* reads /proc, seeds the table with what it read, and only then takes the     *)
(* events that have come meanwhile.  The kernel of module Sensor runs on       *)
(* between any two of these steps, and between the two reads made of a        *)
(* process, the one of its stat and the one of its other files.               *)
(*                                                                            *)
(* If /proc cannot be opened, main() says so and takes the events all the same,*)
(* with an empty table.                                                        *)
(*                                                                            *)
(* /proc is external.  A directory is listed in the order of the pids; of the  *)
(* processes that start while it is, some are listed and some are not.  A      *)
(* process is gone from it when its last task has ended; one that its parent   *)
(* has not waited for yet is left out.  The programs for openat, connect and   *)
(* the exec guard do nothing to the table; module Agent has the whole order.   *)
(******************************************************************************)
EXTENDS Sensor

CONSTANTS
  Ticks  \* start_boottime as /proc reports it, in clock ticks: never the exact one

\* Kernel threads are left out: every process has init for a forebear and is younger
\* than its parent.
ASSUME StartupAssumption ==
  /\ Ticks \in [1 .. MaxStart -> StartTimes]
  /\ \A s \in 1 .. MaxStart : Ticks[s] # s
  /\ DOMAIN Snapshot = {}
  /\ Boot[1].ppid \notin DOMAIN Boot
  /\ \A t \in DOMAIN Boot \ {1} :
       Boot[t].ppid \in DOMAIN Boot /\ Boot[Boot[t].ppid].start < Boot[t].start

VARIABLES
  stage,   \* where main() is
  cursor,  \* the pid snapshot() is at, the last it read or is reading
  listed,  \* the processes that ran when it opened /proc
  stat,    \* what it has read of the process it is reading
  procs,   \* what it has read of the others
  horizon  \* the last start of which neither /proc nor an event tells, for the properties

startupVars == <<vars, stage, cursor, listed, stat, procs, horizon>>
readVars == <<cursor, listed, stat, procs>>

NoStat == <<>>
At(s) == stage = s
Follows(s) == stage' = s

StartupInit ==
  /\ TableInit
  /\ KernelInit
  /\ attached = {}
  /\ ring = <<>>
  /\ stage = "attach"
  /\ cursor = 0
  /\ listed = {}
  /\ stat = NoStat
  /\ procs = <<>>
  /\ horizon = 0

--------------------------------------------------------------------------------
(* main(), from the first program on *)

Quiet == UNCHANGED <<tableVars, task, group, lineage, last_start, last_pid, ring>>

\* One program more.  With the one for forks, the events begin to tell who starts.
Attach ==
  LET kind == KindsInOrder[Cardinality(attached) + 1] IN
  /\ At("attach")
  /\ attached # Kinds
  /\ attached' = attached \cup {kind}
  /\ horizon' = IF kind = "fork" THEN last_start ELSE horizon
  /\ Quiet
  /\ UNCHANGED <<stage, readVars>>

\* Mutant: /proc is listed before the programs are attached, and read after.
OpenProcEarly ==
  /\ At("attach")
  /\ \/ attached = {} /\ listed' = DOMAIN group /\ UNCHANGED stage
     \/ attached = Kinds /\ listed # {} /\ Follows("read") /\ UNCHANGED listed
     \/ attached = Kinds /\ listed = {} /\ Follows("read") /\ listed' = DOMAIN group
  /\ horizon' = 0
  /\ Quiet
  /\ UNCHANGED <<attached, cursor, stat, procs>>

\* fs::read_dir("/proc"), and the Ok arm of main() that follows.
OpenProc ==
  /\ At("attach")
  /\ attached = Kinds
  /\ Follows("read")
  /\ listed' = DOMAIN group
  /\ horizon' = 0
  /\ Quiet
  /\ UNCHANGED <<attached, cursor, stat, procs>>

\* It fails: a message, and the loop with a table that was never seeded.
OpenProcFails ==
  /\ At("attach")
  /\ attached = Kinds
  /\ Follows("loop")
  /\ Quiet
  /\ UNCHANGED <<attached, readVars, horizon>>

\* The processes the listing can go on with: it leaves out none that was there
\* all the time.
Upcoming ==
  {t \in DOMAIN group :
     t > cursor /\ \A u \in listed \cap DOMAIN group : u > cursor => t =< u}

\* The parent as /proc has it: the process that forked this one, or init if that
\* is gone.
Ppid(t) ==
  LET forker == lineage[Identity(t)]
  IN IF forker = NoKey THEN 0
     ELSE IF forker.tgid \in DOMAIN group /\ Identity(forker.tgid) = forker THEN forker.tgid
     ELSE 1

\* Mutant: the field of stat behind the one of the parent, the process group.
ReadStatGroup ==
  /\ At("read")
  /\ stat = NoStat
  /\ \E t \in Upcoming :
       /\ cursor' = t
       /\ stat' = [ppid |-> t, start_time |-> Ticks[group[t].start]]
  /\ Quiet
  /\ UNCHANGED <<attached, stage, listed, procs, horizon>>

ReadStat ==
  /\ At("read")
  /\ stat = NoStat
  /\ \E t \in Upcoming :
       /\ cursor' = t
       /\ stat' = [ppid |-> Ppid(t), start_time |-> Ticks[group[t].start]]
  /\ Quiet
  /\ UNCHANGED <<attached, stage, listed, procs, horizon>>

\* The names of the process that has this pid now; none if there is no such
\* process any more.
ReadNames ==
  LET name == IF cursor \in DOMAIN group THEN group[cursor].image ELSE NoName IN
  /\ At("read")
  /\ stat # NoStat
  /\ procs' = Insert(procs, cursor,
                     [ppid |-> stat.ppid, start_time |-> stat.start_time,
                      comm |-> name, exe |-> name, args |-> name])
  /\ stat' = NoStat
  /\ Quiet
  /\ UNCHANGED <<attached, stage, cursor, listed, horizon>>

\* Nothing is left that has to be listed.
Seed ==
  /\ At("read")
  /\ stat = NoStat
  /\ \A u \in listed \cap DOMAIN group : u =< cursor
  /\ nodes' = SeededFrom(procs)
  /\ by_tgid' = IndexFrom(procs)
  /\ Follows("loop")
  /\ cursor' = 0 /\ listed' = {} /\ procs' = <<>>
  /\ UNCHANGED <<kernelVars, ring, stat, horizon>>

Loop == At("loop") /\ (Consume \/ Expire \/ Tick)

StartupNext ==
  \/ (Kernel \/ Loop) /\ UNCHANGED <<stage, readVars, horizon>>
  \/ Attach
  \/ OpenProc
  \/ OpenProcFails
  \/ ReadStat
  \/ ReadNames
  \/ Seed

StartupSpec == StartupInit /\ [][StartupNext]_startupVars

--------------------------------------------------------------------------------
(* What starting promises *)

Settled == At("loop") /\ CaughtUp

\* No process falls between the snapshot and the events: whenever it started,
\* while programs were being attached or /proc was being read, it has a record
\* once the events are applied, which is not a tombstone (main() attaches first
\* and reads /proc then).  Where /proc could not be opened, this holds of all that
\* started after the program for forks was attached, whoever forked them.
EveryoneKnown ==
  Settled =>
    \A t \in DOMAIN group : group[t].start > horizon =>
      LET k == Resolve(Identity(t)) IN
      k # NoKey /\ k.tgid = t /\ nodes[k].exited_at = NotExited

\* Every ancestor named is a real forebear of the process or of the ancestor
\* named before it: the snapshot may cut a chain short and, where a parent is
\* gone, go on with init, but it joins nobody to a stranger.
AncestryKin ==
  Settled =>
    \A t \in DOMAIN group, i \in Generations :
      LET told == Ancestry(Identity(t))
          below == IF i = 0 THEN t ELSE told[i - 1].tgid
      IN told[i] \in DOMAIN nodes =>
           \E id \in DOMAIN lineage, j \in Generations :
             id.tgid = below /\ Forebear(id)[j] # NoKey /\ Forebear(id)[j].tgid = told[i].tgid

================================================================================
