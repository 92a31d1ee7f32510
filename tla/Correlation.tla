------------------------------ MODULE Correlation ------------------------------
(******************************************************************************)
(* What the detection engine promises (README, "Detection rules"): the first   *)
(* rule that matches, and whose correlation is met, is reported; every rule    *)
(* that matched is remembered, for as long as any rule could still ask for it. *)
(*                                                                            *)
(* The memory is a set of facts with an age, and nothing in it is ever too     *)
(* old: there is no expiry here.  Module Engine keeps vectors of hits that     *)
(* two callers prune at moments of their own, and implements this.            *)
(******************************************************************************)
EXTENDS RuleSet

CONSTANTS
  Keys,     \* the processes (ProcKey) events are about
  NoAlert,  \* evaluate() returned None
  NoPath    \* the prior path of an alert whose rule is not correlated

VARIABLES
  recent,  \* the matches younger than the longest window
  alert    \* what the last event made the engine say

correlationVars == <<recent, alert>>

Fact == [key : Keys, rule : RuleIds, path : Paths, age : 0 .. MaxWindow - 1]
Alert == [rule : RuleIds, key : Keys, prior : Paths \cup {NoPath}]

CorrelationTypeOK ==
  /\ recent \subseteq Fact
  /\ alert \in Alert \cup {NoAlert}

Init == recent = {} /\ alert = NoAlert

\* The matches that meet the correlation of rule r for process key.
Priors(key, r) ==
  {h \in recent : /\ h.rule = Rules[r].after
                  /\ h.age < Rules[r].within
                  /\ Rules[r].same_process => h.key = key}

Youngest(S) == {h \in S : \A g \in S : h.age =< g.age}

\* The prior paths an alert of rule r may quote; none if r does not fire.
Quotes(key, r) ==
  IF Correlated(r) THEN {h.path : h \in Youngest(Priors(key, r))} ELSE {NoPath}

Report(key, matched) ==
  \/ \E r \in matched, p \in Paths \cup {NoPath} :
       /\ p \in Quotes(key, r)
       /\ \A q \in matched : q < r => Quotes(key, q) = {}
       /\ alert' = [rule |-> r, key |-> key, prior |-> p]
  \/ /\ \A r \in matched : Quotes(key, r) = {}
     /\ alert' = NoAlert

Observe(key, f) ==
  /\ Report(key, Matched(f))
  /\ recent' = recent \cup
       {h \in Fact : h.key = key /\ h.rule \in Matched(f) /\ h.path = f.path /\ h.age = 0}

Elapse ==
  /\ recent' = {h \in Fact : h.age > 0 /\ [h EXCEPT !.age = @ - 1] \in recent}
  /\ UNCHANGED alert

Next == (\E key \in Keys, f \in Facts : Observe(key, f)) \/ Elapse

Spec == Init /\ [][Next]_correlationVars

================================================================================
