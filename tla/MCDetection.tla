------------------------------ MODULE MCDetection ------------------------------
(* A small instance of Detection: "b" is an executable in a writable directory, *)
(* and the rules ask for the chain, the path, the address and a prior hit.      *)
EXTENDS Detection, TLC

\* Only init runs when the agent starts; /proc has its start time rounded down.
InitOnly == 1 :> [ppid |-> 0, start |-> 2, image |-> "a"]

FromProc ==
  [t \in DOMAIN Boot |->
     [ppid |-> Boot[t].ppid, start_time |-> Boot[t].start - 1,
      comm |-> Boot[t].image, exe |-> Boot[t].image, args |-> Boot[t].image]]

Rule(on, all, not) ==
  [on |-> on, all |-> all, any |-> {}, not |-> not,
   after |-> 0, within |-> 0, same_process |-> FALSE]

MCRules == <<
  Rule("exec", {{f \in Facts : "b" \in f.ancestry}}, {}),            \* shell_under_service
  Rule("exec", {{f \in Facts : f.path = "b"}}, {}),                  \* exec_from_writable_dir
  [Rule("connect", {}, {{f \in Facts : f.dst = "lo"}}) EXCEPT
     !.after = 2, !.within = 1, !.same_process = TRUE]               \* writable_exec_then_outbound
>>
================================================================================
