------------------------------- MODULE MCStartup -------------------------------
(* A small instance of Startup: init and one child of it run when the agent     *)
(* starts.                                                                      *)
EXTENDS Startup, TLC

InitAndChild ==
  1 :> [ppid |-> 0, start |-> 1, image |-> "a"] @@ 2 :> [ppid |-> 1, start |-> 2, image |-> "a"]

NothingRead == <<>>

Shifted == [s \in 1 .. MaxStart |-> s + MaxStart]
================================================================================
