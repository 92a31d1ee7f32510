-------------------------------- MODULE MCSensor --------------------------------
(* Small instances of Sensor.  Start times that the kernel gives are exact, and *)
(* the ones read from /proc are one less: the clock tick they were rounded to.  *)
EXTENDS Sensor, TLC

Running(ppid, start) == [ppid |-> ppid, start |-> start, image |-> "a"]

\* Only init runs when the agent starts; or init and one child of it.
InitOnly == 1 :> Running(0, 2)
InitAndChild == 1 :> Running(0, 2) @@ 2 :> Running(1, 3)

FromProc ==
  [t \in DOMAIN Boot |->
     [ppid |-> Boot[t].ppid, start_time |-> Boot[t].start - 1,
      comm |-> Boot[t].image, exe |-> Boot[t].image, args |-> Boot[t].image]]
================================================================================
