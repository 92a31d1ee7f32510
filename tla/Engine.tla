--------------------------------- MODULE Engine ---------------------------------
(******************************************************************************)
(* The detection engine of nazar-agent (src/nazar-agent/src/detect.rs): for    *)
(* each event the rules that match, the prior hit a correlated rule needs, the *)
(* one alert, and the history of hits kept per process, which the exit arm and *)
(* the 10 s timer of the event loop both prune.                               *)
(*                                                                            *)
(* The hits one event pushes differ in their rule only and are pushed together,*)
(* so they are one entry with a set of rules.  The instant of a hit is kept as *)
(* its age, saturated at the longest window: no rule tells greater ages apart. *)
(* Of hits of one age in different processes the code takes the one its map    *)
(* happens to yield last: any of them.                                        *)
(******************************************************************************)
EXTENDS RuleSet

CONSTANTS
  Keys,     \* the processes (ProcKey) events are about
  NoAlert,  \* evaluate() returned None
  NoPath,   \* the prior path of an alert whose rule is not correlated
  MaxHits   \* bound: the entries kept for one process

ASSUME EngineAssumption == MaxHits \in Nat /\ NoPath \notin Paths

VARIABLES
  history,  \* HashMap<ProcKey, Vec<PriorHit>>, oldest hit first
  alert     \* what the last call of evaluate() returned

engineVars == <<history, alert>>

Hit == [rules : (SUBSET RuleIds) \ {{}}, path : Paths, age : 0 .. MaxWindow]
Alert == [rule : RuleIds, key : Keys, prior : Paths \cup {NoPath}]

EngineTypeOK ==
  /\ DOMAIN history \subseteq Keys
  /\ history \in [DOMAIN history -> Seq(Hit)]
  /\ alert \in Alert \cup {NoAlert}

Init == history = <<>> /\ alert = NoAlert

--------------------------------------------------------------------------------
(* find_prior() *)

HitsOf(key) == IF key \in DOMAIN history THEN history[key] ELSE <<>>

Counts(h, r) == Rules[r].after \in h.rules /\ h.age < Rules[r].within

\* The hit iter().rev().find() stops at: the last in a process's vector that
\* counts for rule r; at most one.
LastHit(key, r) ==
  {HitsOf(key)[i] : i \in
     {j \in DOMAIN HitsOf(key) :
        /\ Counts(HitsOf(key)[j], r)
        /\ \A k \in j + 1 .. Len(HitsOf(key)) : ~Counts(HitsOf(key)[k], r)}}

\* max_by_key over the processes: a latest one of their last hits.
LatestHit(r) ==
  LET last == UNION {LastHit(key, r) : key \in DOMAIN history}
  IN {h \in last : \A g \in last : h.age =< g.age}

\* The outcomes of find_prior(); none if no hit counts.
FindPrior(key, r) == IF Rules[r].same_process THEN LastHit(key, r) ELSE LatestHit(r)

--------------------------------------------------------------------------------
(* evaluate() *)

Quotes(key, r) ==
  IF Correlated(r) THEN {h.path : h \in FindPrior(key, r)} ELSE {NoPath}

\* The first rule that matches and is not correlated, or finds its prior hit.
Report(key, matched) ==
  \/ \E r \in matched : \E p \in Quotes(key, r) :
       /\ \A q \in matched : q < r => Quotes(key, q) = {}
       /\ alert' = [rule |-> r, key |-> key, prior |-> p]
  \/ /\ \A r \in matched : Quotes(key, r) = {}
     /\ alert' = NoAlert

\* Mutants: the event's path is not what is remembered of it; the newest hit
\* goes to the front; only the rule that was reported is remembered.
RememberNoPath(key, f) ==
  history' = [k \in DOMAIN history \cup {key} |->
                IF k = key /\ Matched(f) # {}
                THEN Append(HitsOf(k), [rules |-> Matched(f), path |-> NoPath, age |-> 0])
                ELSE HitsOf(k)]

RememberInFront(key, f) ==
  history' = [k \in DOMAIN history \cup {key} |->
                IF k = key /\ Matched(f) # {}
                THEN <<[rules |-> Matched(f), path |-> f.path, age |-> 0]>> \o HitsOf(k)
                ELSE HitsOf(k)]

RememberReported(key, f) ==
  LET told == IF alert' = NoAlert THEN {} ELSE {alert'.rule} IN
  history' = [k \in DOMAIN history \cup {key} |->
                IF k = key /\ told # {}
                THEN Append(HitsOf(k), [rules |-> told, path |-> f.path, age |-> 0])
                ELSE HitsOf(k)]

\* Every rule that matched is a hit, the reported one or not.  A process gets
\* an entry even when its event matched nothing.
Remember(key, f) ==
  history' = [k \in DOMAIN history \cup {key} |->
                IF k = key /\ Matched(f) # {}
                THEN Append(HitsOf(k), [rules |-> Matched(f), path |-> f.path, age |-> 0])
                ELSE HitsOf(k)]

Evaluate(key, f) ==
  /\ Len(HitsOf(key)) < MaxHits
  /\ Report(key, Matched(f))
  /\ Remember(key, f)

--------------------------------------------------------------------------------
(* expire(), and time *)

Fresh(h) == h.age < MaxWindow

\* Vec::retain: the hits that are still fresh, in their order.
Retained(hits) ==
  LET kept[i \in 0 .. Len(hits)] ==
        IF i = 0 THEN <<>>
        ELSE IF Fresh(hits[i]) THEN Append(kept[i - 1], hits[i]) ELSE kept[i - 1]
  IN kept[Len(hits)]

\* Mutant: a process keeps its entry when its last hit goes.
ExpireHitsOnly ==
  /\ history' = [k \in DOMAIN history |-> Retained(history[k])]
  /\ UNCHANGED alert

Expire ==
  /\ history' = [k \in {j \in DOMAIN history : Retained(history[j]) # <<>>} |->
                   Retained(history[k])]
  /\ UNCHANGED alert

Older(h) == [h EXCEPT !.age = IF @ < MaxWindow THEN @ + 1 ELSE @]

\* One unit of time passes for every hit.
Elapse ==
  /\ history' = [k \in DOMAIN history |->
                   [i \in DOMAIN history[k] |-> Older(history[k][i])]]
  /\ UNCHANGED alert

--------------------------------------------------------------------------------

Next == (\E key \in Keys, f \in Facts : Evaluate(key, f)) \/ Expire \/ Elapse

Spec == Init /\ [][Next]_engineVars

\* The timer fires for ever and time passes; no event has to come.
FairSpec == Spec /\ WF_engineVars(Expire) /\ WF_engineVars(Elapse)

--------------------------------------------------------------------------------
(* What the engine promises *)

\* The hits a correlation could still ask for.
Recent ==
  UNION {UNION {{[key |-> k, rule |-> r, path |-> history[k][i].path, age |-> history[k][i].age] :
                   r \in history[k][i].rules} :
                i \in {j \in DOMAIN history[k] : Fresh(history[k][j])}} :
         k \in DOMAIN history}

Promise == INSTANCE Correlation WITH recent <- Recent, alert <- alert

\* Every alert is the one the rules call for, and expire() is never noticed: a
\* hit goes only when it is too old for every rule, and one that is still there
\* but too old for a rule does not count for it ("Precedence governs what is
\* reported, not what is remembered").
KeepsPromise == Promise!Spec

\* The vectors are in order of time, which is what makes the last hit of a
\* process, found from the back, its latest one.
OldestFirst ==
  \A k \in DOMAIN history : \A i, j \in DOMAIN history[k] :
    i < j => history[k][i].age >= history[k][j].age

\* A process whose events end is forgotten, its entry included, though each of
\* its events made an entry and it never exits: the history does not grow with
\* the processes ever seen.
Forgets ==
  \A key \in Keys :
    \/ []<>(key \notin DOMAIN history)
    \/ []<><<\E f \in Facts : Evaluate(key, f)>>_engineVars

================================================================================
