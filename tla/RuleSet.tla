-------------------------------- MODULE RuleSet --------------------------------
(******************************************************************************)
(* The detection rules of nazar-agent (src/nazar-agent/src/rules.rs), as       *)
(* load() accepts them, and what it means for an event to match one.          *)
(*                                                                            *)
(* A rule is named by its place in the rule file: load() refuses two rules    *)
(* with one id, and order is precedence.  A condition is the set of events it *)
(* holds of: its field, operator and values are not told apart otherwise.     *)
(* Durations are in units of the models' Elapse steps.                        *)
(******************************************************************************)
EXTENDS Integers, Sequences

CONSTANTS
  Rules,  \* Vec<Rule>, in the order of the file
  Facts   \* what evaluate() can be asked about: EventFacts

EventKinds == {"exec", "write", "connect"}

Paths == {f.path : f \in Facts}

Condition == SUBSET Facts

NoRule == 0   \* correlate = None

\* load() refuses a rule that correlates after a rule that does not exist.
RuleType ==
  [on : EventKinds,
   all : SUBSET Condition, any : SUBSET Condition, not : SUBSET Condition,
   after : NoRule .. Len(Rules), within : Nat, same_process : BOOLEAN]

ASSUME RuleSetAssumption ==
  /\ Rules \in Seq(RuleType)
  /\ \A f \in Facts : f.kind \in EventKinds

RuleIds == 1 .. Len(Rules)

Correlated(r) == Rules[r].after # NoRule

Matches(r, f) ==
  /\ Rules[r].on = f.kind
  /\ \A c \in Rules[r].all : f \in c
  /\ Rules[r].any # {} => \E c \in Rules[r].any : f \in c
  /\ \A c \in Rules[r].not : f \notin c

Matched(f) == {r \in RuleIds : Matches(r, f)}

\* The longest window of any correlated rule, 0 if no rule is correlated.
MaxWindow ==
  LET windows == {0} \cup {Rules[r].within : r \in {q \in RuleIds : Correlated(q)}}
  IN CHOOSE w \in windows : \A v \in windows : v =< w

================================================================================
