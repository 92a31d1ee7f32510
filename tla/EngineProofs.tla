------------------------------ MODULE EngineProofs ------------------------------
(******************************************************************************)
(* Theorems about module Engine: the history is well-typed and in order of     *)
(* time, and the engine implements Correlation.                               *)
(******************************************************************************)
EXTENDS Engine, NaturalRecursion

LEMMA RuleIsTyped ==
  ASSUME NEW r \in RuleIds
  PROVE  /\ Rules[r].after \in 0 .. Len(Rules) /\ Rules[r].within \in Nat
         /\ Rules[r].same_process \in BOOLEAN
         /\ Correlated(r) => Rules[r].after \in RuleIds
<1>1. Rules[r] \in RuleType /\ Len(Rules) \in Nat
  BY RuleSetAssumption DEF RuleIds
<1> QED
  BY <1>1 DEF RuleType, RuleIds, Correlated, NoRule

\* The windows have a bound, whatever number of rules there is.
LEMMA WindowsBounded == \E b \in Nat : \A r \in RuleIds : Rules[r].within =< b
<1> DEFINE T == {n \in Nat : \E b \in Nat : \A r \in RuleIds : r =< n => Rules[r].within =< b}
<1>1. 0 \in T
  <2>1. \A r \in RuleIds : ~(r =< 0)
    BY RuleSetAssumption DEF RuleIds
  <2> QED
    BY <2>1
<1>2. ASSUME NEW n \in Nat, n \in T
      PROVE  n + 1 \in T
  <2>1. PICK b \in Nat : \A r \in RuleIds : r =< n => Rules[r].within =< b
    BY <1>2
  <2>2. CASE n + 1 \in RuleIds
    <3> DEFINE w == Rules[n + 1].within
    <3>1. w \in Nat
      BY <2>2, RuleIsTyped
    <3>2. \A r \in RuleIds : r \in Nat /\ Rules[r].within \in Nat
      BY RuleIsTyped, RuleSetAssumption DEF RuleIds
    <3>3. \A r \in RuleIds : r =< n + 1 => r =< n \/ r = n + 1
      BY <3>2
    <3> HIDE DEF w
    <3>4. \A r \in RuleIds : r =< n + 1 => Rules[r].within =< b + w
      BY <2>1, <3>1, <3>2, <3>3 DEF w
    <3> QED
      BY <3>1, <3>4
  <2>3. CASE n + 1 \notin RuleIds
    <3>1. \A r \in RuleIds : r \in Nat /\ (r =< n + 1 => r =< n)
      BY <2>3, RuleSetAssumption DEF RuleIds
    <3> QED
      BY <2>1, <3>1
  <2> QED
    BY <2>2, <2>3
<1> HIDE DEF T
<1>3. Len(Rules) \in T
  BY <1>1, <1>2, Induction, RuleSetAssumption
<1>4. \A r \in RuleIds : r =< Len(Rules)
  BY RuleSetAssumption DEF RuleIds
<1> QED
  BY <1>3, <1>4 DEF T

\* The longest window is a number, and no correlated rule has a longer one.
LEMMA LongestWindow ==
  /\ MaxWindow \in Nat
  /\ \A r \in RuleIds : Correlated(r) => Rules[r].within =< MaxWindow
<1> DEFINE windows == {0} \cup {Rules[r].within : r \in {q \in RuleIds : Correlated(q)}}
<1>1. windows \subseteq Nat /\ windows # {}
  BY RuleIsTyped
<1>2. PICK b \in Nat : \A r \in RuleIds : Rules[r].within =< b
  BY WindowsBounded
<1>3. \A v \in windows : v =< b
  BY <1>2
<1>4. MaxWindow = CHOOSE w \in windows : \A v \in windows : v =< w
  BY DEF MaxWindow
<1>5. \A r \in RuleIds : Correlated(r) => Rules[r].within \in windows
  OBVIOUS
<1> HIDE DEF windows
<1>6. \E w \in windows : \A v \in windows : v =< w
  BY <1>1, <1>3, GreatestNumber
<1>7. MaxWindow \in windows /\ \A v \in windows : v =< MaxWindow
  BY <1>4, <1>6
<1> QED
  BY <1>1, <1>5, <1>7

--------------------------------------------------------------------------------
(* Vec::retain *)

\* q picks from s, in its order, the fresh hits among the first n.
Picks(q, s, n) ==
  \E place \in [1 .. Len(q) -> 1 .. n] :
    /\ \A i, j \in 1 .. Len(q) : i < j => place[i] < place[j]
    /\ \A i \in 1 .. Len(q) : q[i] = s[place[i]]
    /\ \A j \in 1 .. n : Fresh(s[j]) <=> \E i \in 1 .. Len(q) : place[i] = j

LEMMA PicksOneMore ==
  ASSUME NEW s \in Seq(Hit), NEW q \in Seq(Hit), NEW n \in Nat, n + 1 =< Len(s), Picks(q, s, n)
  PROVE  Picks(IF Fresh(s[n + 1]) THEN Append(q, s[n + 1]) ELSE q, s, n + 1)
<1>1. PICK place \in [1 .. Len(q) -> 1 .. n] :
        /\ \A i, j \in 1 .. Len(q) : i < j => place[i] < place[j]
        /\ \A i \in 1 .. Len(q) : q[i] = s[place[i]]
        /\ \A j \in 1 .. n : Fresh(s[j]) <=> \E i \in 1 .. Len(q) : place[i] = j
  BY DEF Picks
<1>2. Len(q) \in Nat /\ n + 1 \in 1 .. Len(s) /\ s[n + 1] \in Hit
  OBVIOUS
<1>3. CASE ~Fresh(s[n + 1])
  <2>1. place \in [1 .. Len(q) -> 1 .. n + 1]
    BY <1>2
  <2>2. \A j \in 1 .. n + 1 : Fresh(s[j]) <=> \E i \in 1 .. Len(q) : place[i] = j
    <3>1. \A j \in 1 .. n + 1 : j \in 1 .. n \/ j = n + 1
      OBVIOUS
    <3>2. \A i \in 1 .. Len(q) : place[i] # n + 1
      OBVIOUS
    <3> QED
      BY <1>1, <1>3, <3>1, <3>2
  <2>3. Picks(q, s, n + 1)
    BY <1>1, <2>1, <2>2 DEF Picks
  <2> QED
    BY <1>3, <2>3
<1>4. CASE Fresh(s[n + 1])
  <2> DEFINE m == Len(q)
             p == Append(q, s[n + 1])
             there == [i \in 1 .. m + 1 |-> IF i = m + 1 THEN n + 1 ELSE place[i]]
  <2>1. /\ Len(p) = m + 1 /\ p[m + 1] = s[n + 1]
        /\ \A i \in 1 .. m : p[i] = q[i]
    BY <1>2
  <2>2. /\ there[m + 1] = n + 1
        /\ \A i \in 1 .. m : there[i] = place[i] /\ place[i] \in 1 .. n
    BY <1>2
  <2>3. there \in [1 .. m + 1 -> 1 .. n + 1]
    BY <1>2, <2>2
  <2>4. \A i \in 1 .. m + 1 : i \in 1 .. m \/ i = m + 1
    BY <1>2
  <2> HIDE DEF p, there
  <2>5. \A i, j \in 1 .. m + 1 : i < j => there[i] < there[j]
    <3> SUFFICES ASSUME NEW i \in 1 .. m + 1, NEW j \in 1 .. m + 1, i < j
                 PROVE  there[i] < there[j]
      OBVIOUS
    <3>1. i \in 1 .. m
      BY <1>2
    <3> QED
      BY <1>1, <2>2, <2>4, <3>1
  <2>6. \A i \in 1 .. m + 1 : p[i] = s[there[i]]
    BY <1>1, <2>1, <2>2, <2>4
  <2>7. \A j \in 1 .. n + 1 : Fresh(s[j]) <=> \E i \in 1 .. m + 1 : there[i] = j
    <3> SUFFICES ASSUME NEW j \in 1 .. n + 1
                 PROVE  Fresh(s[j]) <=> \E i \in 1 .. m + 1 : there[i] = j
      OBVIOUS
    <3>1. CASE j = n + 1
      <4>1. m + 1 \in 1 .. m + 1
        BY <1>2
      <4> QED
        BY <1>4, <2>2, <3>1, <4>1
    <3>2. CASE j # n + 1
      <4>1. j \in 1 .. n /\ \A i \in 1 .. m : i \in 1 .. m + 1
        BY <3>2, <1>2
      <4> QED
        BY <1>1, <2>2, <2>4, <3>2, <4>1
    <3> QED
      BY <3>1, <3>2
  <2>8. Picks(p, s, n + 1)
    <3>1. there \in [1 .. Len(p) -> 1 .. n + 1]
      BY <2>1, <2>3
    <3>2. \A i, j \in 1 .. Len(p) : i < j => there[i] < there[j]
      BY <2>1, <2>5
    <3>3. \A i \in 1 .. Len(p) : p[i] = s[there[i]]
      BY <2>1, <2>6
    <3>4. \A j \in 1 .. n + 1 : Fresh(s[j]) <=> \E i \in 1 .. Len(p) : there[i] = j
      BY <2>1, <2>7
    <3> QED
      BY <3>1, <3>2, <3>3, <3>4, Zenon DEF Picks
  <2> QED
    BY <1>4, <2>8 DEF p
<1> QED
  BY <1>3, <1>4

\* What retain() leaves is the fresh hits, all of them, in their order.
LEMMA RetainedPicks ==
  ASSUME NEW s \in Seq(Hit)
  PROVE  Retained(s) \in Seq(Hit) /\ Picks(Retained(s), s, Len(s))
<1> DEFINE N == 0 .. Len(s)
           next(q, i) == IF Fresh(s[i]) THEN Append(q, s[i]) ELSE q
           step == [i \in Nat |-> [q \in Seq(Hit) |-> IF i \in 1 .. Len(s) THEN next(q, i) ELSE q]]
           Equation(g) == g = [i \in N |-> IF i = 0 THEN <<>> ELSE next(g[i - 1], i)]
<1>1. Len(s) \in Nat /\ <<>> \in Seq(Hit)
  OBVIOUS
<1>2. step \in [Nat -> [Seq(Hit) -> Seq(Hit)]]
  OBVIOUS
<1>3. \E g : Equation(g)
  <2>1. PICK f \in [Nat -> Seq(Hit)] :
          f[0] = <<>> /\ \A i \in Nat \ {0} : f[i] = step[i][f[i - 1]]
    <3>1. <<>> \in Seq(Hit) /\ IsStep(step, Seq(Hit))
      BY <1>1, <1>2 DEF IsStep
    <3> HIDE DEF step
    <3>2. PICK f : IsLoop(f, Seq(Hit), <<>>, step)
      BY <3>1, Recursion
    <3> QED
      BY <3>2 DEF IsLoop
  <2> DEFINE g == [i \in N |-> f[i]]
  <2>2. ASSUME NEW i \in N, i # 0
        PROVE  g[i] = next(g[i - 1], i)
    <3>1. i \in Nat /\ i - 1 \in N /\ i - 1 \in Nat /\ i \in 1 .. Len(s)
      BY <2>2
    <3>2. f[i] = step[i][f[i - 1]] /\ f[i - 1] \in Seq(Hit)
      BY <2>1, <2>2, <3>1
    <3>3. f[i] = next(f[i - 1], i)
      BY <3>1, <3>2
    <3> QED
      BY <3>1, <3>3
  <2>3. g[0] = <<>>
    BY <1>1, <2>1
  <2> HIDE DEF next
  <2>4. Equation(g)
    BY <2>2, <2>3
  <2> QED
    BY <2>4
<1> DEFINE kept == CHOOSE g : Equation(g)
<1>4. Equation(kept)
  <2> HIDE DEF Equation
  <2> QED
    BY <1>3
<1>5. Retained(s) = kept[Len(s)]
  BY DEF Retained
<1> HIDE DEF kept
<1> DEFINE T == {i \in Nat : i =< Len(s) => kept[i] \in Seq(Hit) /\ Picks(kept[i], s, i)}
<1>6. 0 \in T
  <2>1. kept[0] = <<>>
    BY <1>1, <1>4
  <2> DEFINE none == [i \in 1 .. 0 |-> 0]
  <2>2. none \in [1 .. 0 -> 1 .. 0]
    OBVIOUS
  <2>3. 1 .. Len(<<>>) = {} /\ 1 .. 0 = {}
    OBVIOUS
  <2> HIDE DEF none
  <2>4. Picks(<<>>, s, 0)
    <3>1. none \in [1 .. Len(<<>>) -> 1 .. 0]
      BY <2>2, <2>3
    <3> QED
      BY <2>3, <3>1, Zenon DEF Picks
  <2> QED
    BY <1>1, <2>1, <2>4
<1>7. ASSUME NEW n \in Nat, n \in T
      PROVE  n + 1 \in T
  <2> SUFFICES ASSUME n + 1 =< Len(s)
               PROVE  kept[n + 1] \in Seq(Hit) /\ Picks(kept[n + 1], s, n + 1)
    OBVIOUS
  <2>1. n + 1 \in N /\ n + 1 # 0 /\ (n + 1) - 1 = n /\ s[n + 1] \in Hit
    BY <1>1
  <2>2. kept[n + 1] = next(kept[n], n + 1)
    BY <1>4, <2>1
  <2>3. kept[n] \in Seq(Hit) /\ Picks(kept[n], s, n)
    BY <1>1, <1>7
  <2> QED
    BY <2>1, <2>2, <2>3, PicksOneMore
<1> HIDE DEF T
<1>8. Len(s) \in T
  BY <1>1, <1>6, <1>7, Induction
<1> QED
  BY <1>1, <1>5, <1>8 DEF T

--------------------------------------------------------------------------------
(* Types and order *)

EngineInv == EngineTypeOK /\ OldestFirst

\* The hit evaluate() remembers of an event that matched.
NewHit(f) == [rules |-> Matched(f), path |-> f.path, age |-> 0]

LEMMA NewHitType ==
  ASSUME NEW f \in Facts
  PROVE  f.path \in Paths /\ (Matched(f) # {} => NewHit(f) \in Hit)
<1>1. Matched(f) \subseteq RuleIds /\ f.path \in Paths
  BY DEF Matched, Paths
<1>2. 0 \in 0 .. MaxWindow
  BY LongestWindow
<1>3. Matched(f) # {} => Matched(f) \in (SUBSET RuleIds) \ {{}}
  BY <1>1
<1>4. ASSUME Matched(f) \in (SUBSET RuleIds) \ {{}}
      PROVE  NewHit(f) \in Hit
  <2> DEFINE R == (SUBSET RuleIds) \ {{}}
             A == 0 .. MaxWindow
  <2>1. Matched(f) \in R /\ 0 \in A
    BY <1>2, <1>4
  <2> HIDE DEF R, A
  <2>2. NewHit(f) \in [rules : R, path : Paths, age : A]
    BY <1>1, <2>1 DEF NewHit
  <2> QED
    BY <2>2 DEF R, A, Hit
<1> QED
  BY <1>1, <1>3, <1>4

LEMMA HitsType ==
  ASSUME EngineTypeOK, NEW k
  PROVE  HitsOf(k) \in Seq(Hit)
<1>1. \A j \in DOMAIN history : history[j] \in Seq(Hit)
  BY DEF EngineTypeOK
<1>2. <<>> \in Seq(Hit)
  OBVIOUS
<1> QED
  BY <1>1, <1>2 DEF HitsOf

\* What a process's vector holds of hits.
LEMMA HitFields ==
  ASSUME EngineTypeOK, NEW k \in DOMAIN history, NEW i \in DOMAIN history[k]
  PROVE  /\ k \in Keys /\ history[k] \in Seq(Hit) /\ i \in 1 .. Len(history[k])
         /\ history[k][i] \in Hit
         /\ history[k][i].rules \subseteq RuleIds /\ history[k][i].rules # {}
         /\ history[k][i].path \in Paths
         /\ history[k][i].age \in Nat /\ history[k][i].age =< MaxWindow
<1>1. k \in Keys /\ history[k] \in Seq(Hit)
  BY DEF EngineTypeOK
<1>2. i \in 1 .. Len(history[k]) /\ history[k][i] \in Hit
  BY <1>1
<1>3. MaxWindow \in Nat
  BY LongestWindow
<1>4. \A h \in Hit : h.rules \in (SUBSET RuleIds) \ {{}} /\ h.path \in Paths /\ h.age \in 0 .. MaxWindow
  BY DEF Hit
<1> QED
  BY <1>1, <1>2, <1>3, <1>4

LEMMA RememberKeepsInv ==
  ASSUME EngineInv, NEW key \in Keys, NEW f \in Facts, Remember(key, f)
  PROVE  /\ DOMAIN history' = DOMAIN history \cup {key}
         /\ \A k \in DOMAIN history' : history'[k] \in Seq(Hit)
         /\ OldestFirst'
<1> DEFINE new == NewHit(f)
<1>1. /\ DOMAIN history' = DOMAIN history \cup {key}
      /\ \A k \in DOMAIN history' :
           history'[k] = IF k = key /\ Matched(f) # {} THEN Append(HitsOf(k), new) ELSE HitsOf(k)
  BY DEF Remember, NewHit
<1>2. \A k \in DOMAIN history' : HitsOf(k) \in Seq(Hit)
  BY HitsType DEF EngineInv
<1>3. Matched(f) # {} => new \in Hit /\ new.age = 0
  BY NewHitType DEF NewHit
<1>4. \A k \in DOMAIN history' : \A i, j \in DOMAIN HitsOf(k) :
        i < j => HitsOf(k)[i].age >= HitsOf(k)[j].age
  <2> SUFFICES ASSUME NEW k \in DOMAIN history', NEW i \in DOMAIN HitsOf(k),
                      NEW j \in DOMAIN HitsOf(k), i < j
               PROVE  HitsOf(k)[i].age >= HitsOf(k)[j].age
    OBVIOUS
  <2>1. CASE k \in DOMAIN history
    BY <2>1 DEF EngineInv, OldestFirst, HitsOf
  <2>2. CASE k \notin DOMAIN history
    <3>1. HitsOf(k) = <<>>
      BY <2>2 DEF HitsOf
    <3> QED
      BY <3>1
  <2> QED
    BY <2>1, <2>2
<1>5. \A h \in Hit : h.age \in Nat
  BY LongestWindow DEF Hit
<1> HIDE DEF new
<1>6. ASSUME NEW k \in DOMAIN history', NEW i \in DOMAIN history'[k], NEW j \in DOMAIN history'[k],
             i < j
      PROVE  history'[k][i].age >= history'[k][j].age
  <2>1. CASE history'[k] = HitsOf(k)
    BY <1>4, <1>6, <2>1
  <2>2. CASE history'[k] = Append(HitsOf(k), new) /\ Matched(f) # {}
    <3> DEFINE q == HitsOf(k)
    <3>1. q \in Seq(Hit) /\ new \in Hit /\ new.age = 0
      BY <1>2, <1>3, <2>2
    <3>2. \A x, y \in DOMAIN q : x < y => q[x].age >= q[y].age
      BY <1>4
    <3> HIDE DEF q
    <3>3. /\ i \in 1 .. Len(q) /\ Append(q, new)[i] = q[i] /\ q[i] \in Hit /\ DOMAIN q = 1 .. Len(q)
          /\ j \in 1 .. Len(q) + 1
          /\ j \in 1 .. Len(q) => Append(q, new)[j] = q[j]
          /\ j = Len(q) + 1 => Append(q, new)[j] = new
      BY <1>6, <2>2, <3>1 DEF q
    <3>4. CASE j = Len(q) + 1
      BY <1>5, <2>2, <3>1, <3>3, <3>4 DEF q
    <3>5. CASE j \in 1 .. Len(q)
      BY <1>6, <2>2, <3>2, <3>3, <3>5 DEF q
    <3>6. j \in 1 .. Len(q) \/ j = Len(q) + 1
      BY <3>1, <3>3
    <3> QED
      BY <3>4, <3>5, <3>6
  <2> QED
    BY <1>1, <2>1, <2>2
<1>7. \A k \in DOMAIN history' : history'[k] \in Seq(Hit)
  <2> TAKE k \in DOMAIN history'
  <2>1. HitsOf(k) \in Seq(Hit) /\ (Matched(f) # {} => Append(HitsOf(k), new) \in Seq(Hit))
    BY <1>2, <1>3
  <2>2. history'[k] = HitsOf(k) \/ (Matched(f) # {} /\ history'[k] = Append(HitsOf(k), new))
    BY <1>1
  <2> QED
    BY <2>1, <2>2
<1> QED
  BY <1>1, <1>6, <1>7 DEF OldestFirst

\* An alert names a rule, the process and a path that was matched before.
LEMMA ReportTyped ==
  ASSUME EngineTypeOK, NEW key \in Keys, NEW f \in Facts, Report(key, Matched(f))
  PROVE  alert' \in Alert \cup {NoAlert}
<1>1. \A k : \A r : \A h \in LastHit(k, r) : h \in Hit
  <2> SUFFICES ASSUME NEW k, NEW r, NEW h \in LastHit(k, r)
               PROVE  h \in Hit
    OBVIOUS
  <2>1. PICK i \in DOMAIN HitsOf(k) : h = HitsOf(k)[i]
    BY DEF LastHit
  <2> QED
    BY <2>1, HitsType
<1>2. \A r : \A h \in FindPrior(key, r) : h \in Hit
  BY <1>1 DEF FindPrior, LatestHit
<1>3. \A r : Quotes(key, r) \subseteq Paths \cup {NoPath}
  BY <1>2 DEF Quotes, Hit
<1>4. Matched(f) \subseteq RuleIds
  BY DEF Matched
<1>5. CASE \E r \in Matched(f) : \E p \in Quotes(key, r) :
             alert' = [rule |-> r, key |-> key, prior |-> p]
  BY <1>3, <1>4, <1>5 DEF Alert
<1>6. CASE alert' = NoAlert
  BY <1>6
<1> QED
  BY <1>5, <1>6 DEF Report

LEMMA EvaluateKeepsInv ==
  ASSUME EngineInv, NEW key \in Keys, NEW f \in Facts, Evaluate(key, f)
  PROVE  EngineInv'
<1>1. /\ DOMAIN history' = DOMAIN history \cup {key}
      /\ \A k \in DOMAIN history' : history'[k] \in Seq(Hit)
      /\ OldestFirst'
  BY RememberKeepsInv DEF Evaluate
<1>2. alert' \in Alert \cup {NoAlert}
  BY ReportTyped DEF Evaluate, EngineInv
<1>3. history' = [k \in DOMAIN history' |-> history'[k]]
  <2>1. history' = [k \in DOMAIN history \cup {key} |->
                IF k = key /\ Matched(f) # {}
                THEN Append(HitsOf(k), NewHit(f)) ELSE HitsOf(k)]
    BY DEF Evaluate, Remember, NewHit
  <2> QED
    BY <2>1
<1>4. DOMAIN history \subseteq Keys
  BY DEF EngineInv, EngineTypeOK
<1> QED
  BY <1>1, <1>2, <1>3, <1>4 DEF EngineInv, EngineTypeOK

\* The hits a process keeps when expire() has been there.
LEMMA RetainedInOrder ==
  ASSUME EngineInv, NEW k \in DOMAIN history
  PROVE  LET q == Retained(history[k]) IN
         /\ q \in Seq(Hit)
         /\ \A i, j \in DOMAIN q : i < j => q[i].age >= q[j].age
         /\ \A i \in DOMAIN q : \E j \in DOMAIN history[k] : Fresh(history[k][j]) /\ q[i] = history[k][j]
         /\ \A j \in DOMAIN history[k] : Fresh(history[k][j]) => \E i \in DOMAIN q : q[i] = history[k][j]
<1> DEFINE s == history[k]
           q == Retained(s)
<1>1. s \in Seq(Hit)
  BY DEF EngineInv, EngineTypeOK
<1>2. \A i, j \in DOMAIN s : i < j => s[i].age >= s[j].age
  BY DEF EngineInv, OldestFirst
<1> HIDE DEF s
<1>3. q \in Seq(Hit) /\ Picks(q, s, Len(s))
  BY <1>1, RetainedPicks
<1> HIDE DEF q
<1>4. PICK place \in [1 .. Len(q) -> 1 .. Len(s)] :
        /\ \A i, j \in 1 .. Len(q) : i < j => place[i] < place[j]
        /\ \A i \in 1 .. Len(q) : q[i] = s[place[i]]
        /\ \A j \in 1 .. Len(s) : Fresh(s[j]) <=> \E i \in 1 .. Len(q) : place[i] = j
  BY <1>3 DEF Picks
<1>5. DOMAIN q = 1 .. Len(q) /\ DOMAIN s = 1 .. Len(s)
  BY <1>1, <1>3
<1>6. \A i, j \in DOMAIN q : i < j => q[i].age >= q[j].age
  BY <1>2, <1>4, <1>5
<1>7. \A i \in DOMAIN q : \E j \in DOMAIN s : Fresh(s[j]) /\ q[i] = s[j]
  BY <1>4, <1>5
<1>8. \A j \in DOMAIN s : Fresh(s[j]) => \E i \in DOMAIN q : q[i] = s[j]
  BY <1>4, <1>5
<1> QED
  BY <1>3, <1>6, <1>7, <1>8 DEF q, s

LEMMA ExpireKeepsInv ==
  ASSUME EngineInv, Expire
  PROVE  EngineInv'
<1>1. /\ DOMAIN history' \subseteq DOMAIN history
      /\ \A k \in DOMAIN history' : history'[k] = Retained(history[k])
      /\ history' = [k \in DOMAIN history' |-> history'[k]]
      /\ alert' = alert
  BY DEF Expire
<1>2. \A k \in DOMAIN history' :
        /\ history'[k] \in Seq(Hit)
        /\ \A i, j \in DOMAIN history'[k] : i < j => history'[k][i].age >= history'[k][j].age
  BY <1>1, RetainedInOrder
<1>3. EngineTypeOK'
  BY <1>1, <1>2 DEF EngineInv, EngineTypeOK
<1> QED
  BY <1>2, <1>3 DEF EngineInv, OldestFirst

\* A hit one unit of time older.
LEMMA OlderHit ==
  ASSUME NEW h \in Hit
  PROVE  /\ Older(h) \in Hit
         /\ Older(h).rules = h.rules /\ Older(h).path = h.path
         /\ Older(h).age = IF h.age < MaxWindow THEN h.age + 1 ELSE h.age
<1>1. MaxWindow \in Nat
  BY LongestWindow
<1> QED
  BY <1>1 DEF Older, Hit

LEMMA ElapseKeepsInv ==
  ASSUME EngineInv, Elapse
  PROVE  EngineInv'
<1>1. /\ DOMAIN history' = DOMAIN history
      /\ \A k \in DOMAIN history :
            history'[k] = [i \in DOMAIN history[k] |-> Older(history[k][i])]
      /\ history' = [k \in DOMAIN history' |-> history'[k]]
      /\ alert' = alert
  BY DEF Elapse
<1>2. \A k \in DOMAIN history :
        /\ history[k] \in Seq(Hit) /\ DOMAIN history[k] = 1 .. Len(history[k])
        /\ Len(history[k]) \in Nat
        /\ \A i \in DOMAIN history[k] : history[k][i] \in Hit /\ Older(history[k][i]) \in Hit
  BY OlderHit DEF EngineInv, EngineTypeOK
<1>3. \A k \in DOMAIN history' : history'[k] \in Seq(Hit)
  BY <1>1, <1>2
<1>4. \A k \in DOMAIN history' : \A i, j \in DOMAIN history'[k] :
        i < j => history'[k][i].age >= history'[k][j].age
  <2> SUFFICES ASSUME NEW k \in DOMAIN history, NEW i \in DOMAIN history[k],
                      NEW j \in DOMAIN history[k], i < j
               PROVE  Older(history[k][i]).age >= Older(history[k][j]).age
    BY <1>1
  <2>1. history[k][i].age >= history[k][j].age
    BY DEF EngineInv, OldestFirst
  <2>2. history[k][i].age \in 0 .. MaxWindow /\ history[k][j].age \in 0 .. MaxWindow
    BY <1>2 DEF Hit
  <2> QED
    BY <1>2, <2>1, <2>2, OlderHit, LongestWindow
<1>5. EngineTypeOK'
  BY <1>1, <1>3 DEF EngineInv, EngineTypeOK
<1> QED
  BY <1>4, <1>5 DEF EngineInv, OldestFirst

LEMMA EngineInvInit == Init => EngineInv
<1> SUFFICES ASSUME Init
             PROVE  EngineInv
  OBVIOUS
<1>1. history = <<>> /\ DOMAIN history = {} /\ alert = NoAlert
  BY DEF Init
<1>2. history \in [DOMAIN history -> Seq(Hit)]
  BY <1>1
<1> QED
  BY <1>1, <1>2 DEF EngineInv, EngineTypeOK, OldestFirst

LEMMA EngineInvStep == EngineInv /\ [Next]_engineVars => EngineInv'
<1> SUFFICES ASSUME EngineInv, [Next]_engineVars
             PROVE  EngineInv'
  OBVIOUS
<1>1. CASE UNCHANGED engineVars
  BY <1>1 DEF engineVars, EngineInv, EngineTypeOK, OldestFirst
<1> QED
  BY <1>1, EvaluateKeepsInv, ExpireKeepsInv, ElapseKeepsInv DEF Next

\* The history is well-typed, and every alert names a rule, a process and a path
\* some event had.
THEOREM HistoryTyped == Spec => []EngineTypeOK
  BY EngineInvInit, EngineInvStep, PTL DEF Spec, EngineInv

\* Each process's hits are in order of time, so that the one find_prior() finds
\* from the back is the latest (detect.rs, find_prior()).
THEOREM HistoryInOrder == Spec => []OldestFirst
  BY EngineInvInit, EngineInvStep, PTL DEF Spec, EngineInv

--------------------------------------------------------------------------------
(* The same priors *)

\* Both modules have the same rules.
LEMMA SameRules ==
  /\ Promise!Paths = Paths /\ Promise!RuleIds = RuleIds /\ Promise!MaxWindow = MaxWindow
  /\ \A r : Promise!Correlated(r) <=> Correlated(r)
  /\ \A f : Promise!Matched(f) = Matched(f)
<1>1. /\ Promise!Paths = Paths /\ Promise!RuleIds = RuleIds
      /\ \A r : Promise!Correlated(r) <=> Correlated(r)
  BY DEF Promise!Paths, Paths, Promise!RuleIds, RuleIds, Promise!Correlated, Correlated,
         Promise!NoRule, NoRule
<1>2. Promise!MaxWindow = MaxWindow
  BY <1>1 DEF Promise!MaxWindow, MaxWindow, Promise!RuleIds, RuleIds, Promise!Correlated,
              Correlated, Promise!NoRule, NoRule
<1>3. \A r, f : Promise!Matches(r, f) <=> Matches(r, f)
  BY DEF Promise!Matches, Matches
<1>4. \A f : Promise!Matched(f) = Matched(f)
  BY <1>1, <1>3 DEF Promise!Matched, Matched
<1> QED
  BY <1>1, <1>2, <1>4

\* What find_prior() may count for rule r and process key: a hit, by where it is.
Eligible(key, r, k, i) ==
  /\ k \in DOMAIN history /\ i \in DOMAIN history[k]
  /\ Counts(history[k][i], r)
  /\ Rules[r].same_process => k = key

\* The fact an eligible hit is to the abstract engine.
PriorAt(r, k, i) ==
  [key |-> k, rule |-> Rules[r].after, path |-> history[k][i].path, age |-> history[k][i].age]

LEMMA RecentIs ==
  ASSUME NEW x
  PROVE  x \in Recent <=>
           \E k \in DOMAIN history : \E i \in DOMAIN history[k] : \E r \in history[k][i].rules :
             /\ Fresh(history[k][i])
             /\ x = [key |-> k, rule |-> r, path |-> history[k][i].path, age |-> history[k][i].age]
  BY DEF Recent

LEMMA PriorsAreEligible ==
  ASSUME EngineInv, NEW key \in Keys, NEW r \in RuleIds, Correlated(r), NEW x
  PROVE  x \in Promise!Priors(key, r) <=> (\E k, i : Eligible(key, r, k, i) /\ x = PriorAt(r, k, i))
<1>1. Rules[r].within \in Nat /\ Rules[r].within =< MaxWindow /\ MaxWindow \in Nat
  BY RuleIsTyped, LongestWindow
<1>2. ASSUME x \in Promise!Priors(key, r)
      PROVE  \E k, i : Eligible(key, r, k, i) /\ x = PriorAt(r, k, i)
  <2>1. /\ x \in Recent /\ x.rule = Rules[r].after /\ x.age < Rules[r].within
        /\ Rules[r].same_process => x.key = key
    BY <1>2 DEF Promise!Priors
  <2>2. PICK k \in DOMAIN history : \E i \in DOMAIN history[k] : \E q \in history[k][i].rules :
          x = [key |-> k, rule |-> q, path |-> history[k][i].path, age |-> history[k][i].age]
    BY <2>1, RecentIs
  <2>3. PICK i \in DOMAIN history[k] : \E r0 \in history[k][i].rules :
          x = [key |-> k, rule |-> r0, path |-> history[k][i].path, age |-> history[k][i].age]
    BY <2>2
  <2>4. PICK q \in history[k][i].rules :
          x = [key |-> k, rule |-> q, path |-> history[k][i].path, age |-> history[k][i].age]
    BY <2>3
  <2>5. x.rule = q /\ x.key = k /\ x.age = history[k][i].age
    BY <2>4
  <2>6. Eligible(key, r, k, i) /\ x = PriorAt(r, k, i)
    BY <2>1, <2>2, <2>4, <2>5 DEF Eligible, Counts, PriorAt
  <2> QED
    BY <2>6
<1>3. ASSUME NEW k, NEW i, Eligible(key, r, k, i), x = PriorAt(r, k, i)
      PROVE  x \in Promise!Priors(key, r)
  <2>1. /\ k \in DOMAIN history /\ i \in DOMAIN history[k]
        /\ Rules[r].after \in history[k][i].rules /\ history[k][i].age < Rules[r].within
        /\ Rules[r].same_process => k = key
    BY <1>3 DEF Eligible, Counts
  <2>2. history[k][i].age \in Nat
    BY <2>1, HitFields DEF EngineInv
  <2>3. Fresh(history[k][i])
    BY <1>1, <2>1, <2>2 DEF Fresh
  <2>4. x \in Recent
    BY <1>3, <2>1, <2>3, RecentIs DEF PriorAt
  <2>5. x.rule = Rules[r].after /\ x.key = k /\ x.age = history[k][i].age
    BY <1>3 DEF PriorAt
  <2> QED
    BY <2>1, <2>4, <2>5 DEF Promise!Priors
<1> QED
  BY <1>2, <1>3

\* The last hit of a process that counts is a youngest one, and there is one if
\* any counts.
LEMMA LastHitIsYoungest ==
  ASSUME EngineInv, NEW k \in DOMAIN history, NEW r
  PROVE  /\ \A h \in LastHit(k, r) : \E i \in DOMAIN history[k] :
              /\ h = history[k][i] /\ Counts(h, r)
              /\ \A j \in DOMAIN history[k] : Counts(history[k][j], r) => h.age =< history[k][j].age
         /\ \A j \in DOMAIN history[k] : Counts(history[k][j], r) => LastHit(k, r) # {}
<1> DEFINE s == history[k]
<1>1. s \in Seq(Hit) /\ Len(s) \in Nat /\ DOMAIN s = 1 .. Len(s) /\ HitsOf(k) = s
  BY DEF EngineInv, EngineTypeOK, HitsOf
<1>2. \A i \in 1 .. Len(s) : s[i].age \in Nat
  BY <1>1, HitFields DEF EngineInv
<1>3. \A i, j \in 1 .. Len(s) : i < j => s[i].age >= s[j].age
  BY <1>1 DEF EngineInv, OldestFirst
<1>4. LastHit(k, r) =
        {s[i] : i \in {j \in 1 .. Len(s) :
           Counts(s[j], r) /\ \A l \in j + 1 .. Len(s) : ~Counts(s[l], r)}}
  BY <1>1 DEF LastHit
<1> HIDE DEF s
<1>5. ASSUME NEW h \in LastHit(k, r)
      PROVE  \E i \in 1 .. Len(s) :
              /\ h = s[i] /\ Counts(h, r)
              /\ \A j \in 1 .. Len(s) : Counts(s[j], r) => h.age =< s[j].age
  <2>1. PICK i \in 1 .. Len(s) :
          h = s[i] /\ Counts(s[i], r) /\ \A l \in i + 1 .. Len(s) : ~Counts(s[l], r)
    BY <1>4
  <2>2. ASSUME NEW j \in 1 .. Len(s), Counts(s[j], r)
        PROVE  h.age =< s[j].age
    <3>1. j =< i
      BY <1>1, <2>1, <2>2
    <3>2. CASE j = i
      BY <1>2, <2>1, <3>2
    <3>3. CASE j < i
      BY <1>2, <1>3, <2>1, <3>3
    <3> QED
      BY <3>1, <3>2, <3>3
  <2> QED
    BY <2>1, <2>2
<1>6. ASSUME NEW j \in 1 .. Len(s), Counts(s[j], r)
      PROVE  LastHit(k, r) # {}
  <2> DEFINE T == {i \in 1 .. Len(s) : Counts(s[i], r)}
  <2>1. T \subseteq Nat /\ T # {} /\ \A i \in T : i =< Len(s)
    BY <1>6
  <2>2. PICK i \in T : \A l \in T : l =< i
    <3> HIDE DEF T
    <3> QED
      BY <1>1, <2>1, GreatestNumber
  <2>3. \A l \in i + 1 .. Len(s) : ~Counts(s[l], r)
    BY <1>1, <2>2
  <2> QED
    BY <1>4, <2>2, <2>3
<1> QED
  BY <1>1, <1>5, <1>6 DEF s

\* find_prior() answers with a youngest eligible hit, and answers if there is one.
LEMMA FindPriorIsYoungest ==
  ASSUME EngineInv, NEW key \in Keys, NEW r \in RuleIds
  PROVE  /\ \A h \in FindPrior(key, r) : \E k, i :
              /\ Eligible(key, r, k, i) /\ h = history[k][i]
              /\ \A l, j : Eligible(key, r, l, j) => h.age =< history[l][j].age
         /\ \A l, j : Eligible(key, r, l, j) => FindPrior(key, r) # {}
<1>1. CASE Rules[r].same_process
  <2>1. FindPrior(key, r) = LastHit(key, r)
    BY <1>1 DEF FindPrior
  <2>2. \A l, j : Eligible(key, r, l, j) => l = key
    BY <1>1 DEF Eligible
  <2>3. key \notin DOMAIN history => LastHit(key, r) = {}
    BY DEF LastHit, HitsOf
  <2>4. CASE key \in DOMAIN history
    BY <2>1, <2>2, <2>4, LastHitIsYoungest DEF Eligible
  <2>5. CASE key \notin DOMAIN history
    BY <2>1, <2>2, <2>3, <2>5 DEF Eligible
  <2> QED
    BY <2>4, <2>5
<1>2. CASE ~Rules[r].same_process
  <2> DEFINE last == UNION {LastHit(k, r) : k \in DOMAIN history}
  <2>1. FindPrior(key, r) = {h \in last : \A g \in last : h.age =< g.age}
    BY <1>2 DEF FindPrior, LatestHit
  <2>2. \A k \in DOMAIN history : \A h \in LastHit(k, r) : h \in last
    OBVIOUS
  <2>3. \A h \in last : \E k \in DOMAIN history : h \in LastHit(k, r)
    OBVIOUS
  <2> HIDE DEF last
  <2>4. \A h \in last : \E k, i : Eligible(key, r, k, i) /\ h = history[k][i] /\ h.age \in Nat
    <3> TAKE h \in last
    <3>1. PICK k \in DOMAIN history : h \in LastHit(k, r)
      BY <2>3
    <3>2. PICK i \in DOMAIN history[k] : h = history[k][i] /\ Counts(h, r)
      BY <3>1, LastHitIsYoungest
    <3>3. Eligible(key, r, k, i) /\ h.age \in Nat
      BY <1>2, <3>2, HitFields DEF Eligible, EngineInv
    <3> QED
      BY <3>2, <3>3
  <2>5. ASSUME NEW l, NEW j, Eligible(key, r, l, j)
        PROVE  \E g \in last : g.age =< history[l][j].age
    <3>1. l \in DOMAIN history /\ j \in DOMAIN history[l] /\ Counts(history[l][j], r)
      BY <2>5 DEF Eligible
    <3>2. PICK g : g \in LastHit(l, r)
      BY <3>1, LastHitIsYoungest
    <3>3. g \in last /\ g.age =< history[l][j].age
      BY <2>2, <3>1, <3>2, LastHitIsYoungest
    <3> QED
      BY <3>3
  <2>6. ASSUME NEW h \in FindPrior(key, r)
        PROVE  \E k, i : /\ Eligible(key, r, k, i) /\ h = history[k][i]
                        /\ \A l, j : Eligible(key, r, l, j) => h.age =< history[l][j].age
    <3>1. h \in last /\ \A g \in last : h.age =< g.age
      BY <2>1, <2>6
    <3>2. PICK k, i : Eligible(key, r, k, i) /\ h = history[k][i] /\ h.age \in Nat
      BY <2>4, <3>1
    <3>3. ASSUME NEW l, NEW j, Eligible(key, r, l, j)
          PROVE  h.age =< history[l][j].age
      <4>1. PICK g \in last : g.age =< history[l][j].age
        BY <2>5, <3>3
      <4>2. g.age \in Nat /\ h.age =< g.age
        BY <2>4, <3>1
      <4>3. history[l][j].age \in Nat
        BY <3>3, HitFields DEF Eligible, EngineInv
      <4> QED
        BY <3>2, <4>1, <4>2, <4>3
    <3> QED
      BY <3>2, <3>3
  <2>7. ASSUME NEW l, NEW j, Eligible(key, r, l, j)
        PROVE  FindPrior(key, r) # {}
    <3> DEFINE ages == {h.age : h \in last}
    <3>1. ages \subseteq Nat /\ ages # {}
      BY <2>4, <2>5, <2>7
    <3>2. PICK a \in ages : \A b \in ages : a =< b
      <4> HIDE DEF ages
      <4> QED
        BY <3>1, LeastNumber
    <3>3. PICK h \in last : h.age = a
      BY <3>2
    <3>4. \A g \in last : g.age \in ages
      OBVIOUS
    <3> QED
      BY <2>1, <3>2, <3>3, <3>4
  <2> QED
    BY <2>6, <2>7
<1> QED
  BY <1>1, <1>2

\* The prior paths the engine may quote are among those the abstract engine may
\* quote, and there is none exactly when there is none there.
LEMMA QuotesAgree ==
  ASSUME EngineInv, NEW key \in Keys, NEW r \in RuleIds
  PROVE  /\ Quotes(key, r) \subseteq Promise!Quotes(key, r)
         /\ Promise!Quotes(key, r) # {} => Quotes(key, r) # {}
<1>1. CASE ~Correlated(r)
  BY <1>1, SameRules DEF Quotes, Promise!Quotes
<1>2. CASE Correlated(r)
  <2> DEFINE P == Promise!Priors(key, r)
  <2>1. /\ Quotes(key, r) = {h.path : h \in FindPrior(key, r)}
        /\ Promise!Quotes(key, r) = {h.path : h \in Promise!Youngest(P)}
        /\ Promise!Youngest(P) = {h \in P : \A g \in P : h.age =< g.age}
    BY <1>2, SameRules DEF Quotes, Promise!Quotes, Promise!Youngest
  <2>2. \A x : x \in P <=> \E k, i : Eligible(key, r, k, i) /\ x = PriorAt(r, k, i)
    BY <1>2, PriorsAreEligible
  <2> HIDE DEF P
  <2>3. ASSUME NEW p \in Quotes(key, r)
        PROVE  p \in Promise!Quotes(key, r)
    <3>1. PICK h \in FindPrior(key, r) : p = h.path
      BY <2>1, <2>3
    <3>2. PICK k, i : /\ Eligible(key, r, k, i) /\ h = history[k][i]
                      /\ \A l, j : Eligible(key, r, l, j) => h.age =< history[l][j].age
      BY <3>1, FindPriorIsYoungest
    <3> DEFINE x == PriorAt(r, k, i)
    <3>3. x \in P /\ x.path = p /\ x.age = h.age
      BY <2>2, <3>1, <3>2 DEF PriorAt
    <3>4. ASSUME NEW g \in P
          PROVE  x.age =< g.age
      <4>1. PICK l, j : Eligible(key, r, l, j) /\ g = PriorAt(r, l, j)
        BY <2>2, <3>4
      <4>2. g.age = history[l][j].age
        BY <4>1 DEF PriorAt
      <4> QED
        BY <3>2, <3>3, <4>1, <4>2
    <3> QED
      BY <2>1, <3>3, <3>4
  <2>4. ASSUME Promise!Quotes(key, r) # {}
        PROVE  Quotes(key, r) # {}
    <3>1. PICK x : x \in P
      BY <2>1, <2>4
    <3>2. PICK k, i : Eligible(key, r, k, i)
      BY <2>2, <3>1
    <3>3. FindPrior(key, r) # {}
      BY <3>2, FindPriorIsYoungest
    <3> QED
      BY <2>1, <3>3
  <2> QED
    BY <2>3, <2>4
<1> QED
  BY <1>1, <1>2

--------------------------------------------------------------------------------
(* The engine implements Correlation *)

LEMMA ReportImplements ==
  ASSUME EngineInv, NEW key \in Keys, NEW f \in Facts, Report(key, Matched(f))
  PROVE  Promise!Report(key, Matched(f))
<1>1. Matched(f) \subseteq RuleIds
  BY DEF Matched
<1>2. CASE \E r \in Matched(f) : \E p \in Quotes(key, r) :
             /\ \A q \in Matched(f) : q < r => Quotes(key, q) = {}
             /\ alert' = [rule |-> r, key |-> key, prior |-> p]
  <2>1. PICK r \in Matched(f) : \E p \in Quotes(key, r) :
             /\ \A q \in Matched(f) : q < r => Quotes(key, q) = {}
             /\ alert' = [rule |-> r, key |-> key, prior |-> p]
    BY <1>2
  <2>2. PICK p \in Quotes(key, r) :
             /\ \A q \in Matched(f) : q < r => Quotes(key, q) = {}
             /\ alert' = [rule |-> r, key |-> key, prior |-> p]
    BY <2>1
  <2>3. p \in Promise!Quotes(key, r)
    BY <1>1, <2>2, QuotesAgree
  <2>4. \A q \in Matched(f) : q < r => Promise!Quotes(key, q) = {}
    BY <1>1, <2>2, QuotesAgree
  <2>5. p \in Paths \cup {NoPath}
    <3>1. CASE ~Correlated(r)
      BY <2>2, <3>1 DEF Quotes
    <3>2. CASE Correlated(r)
      <4>1. PICK h \in FindPrior(key, r) : p = h.path
        BY <2>2, <3>2 DEF Quotes
      <4>2. PICK k, i : Eligible(key, r, k, i) /\ h = history[k][i]
        BY <1>1, <4>1, FindPriorIsYoungest
      <4> QED
        BY <4>1, <4>2, HitFields DEF Eligible, EngineInv
    <3> QED
      BY <3>1, <3>2
  <2> QED
    BY <2>2, <2>3, <2>4, <2>5, SameRules DEF Promise!Report
<1>3. CASE (\A r \in Matched(f) : Quotes(key, r) = {}) /\ alert' = NoAlert
  BY <1>1, <1>3, QuotesAgree DEF Promise!Report
<1> QED
  BY <1>2, <1>3 DEF Report

\* The facts that a history holds: Recent, of any history.
RecentIn(h, x) ==
  \E k \in DOMAIN h : \E i \in DOMAIN h[k] : \E r \in h[k][i].rules :
    /\ Fresh(h[k][i])
    /\ x = [key |-> k, rule |-> r, path |-> h[k][i].path, age |-> h[k][i].age]

LEMMA RecentBefore == \A x : x \in Recent <=> RecentIn(history, x)
  BY RecentIs DEF RecentIn

LEMMA RecentAfter == \A x : x \in Recent' <=> RecentIn(history', x)
  BY DEF Recent, RecentIn

\* A hit that is remembered is the fact the abstract engine remembers.
LEMMA EvaluateImplements ==
  ASSUME EngineInv, NEW key \in Keys, NEW f \in Facts, Evaluate(key, f)
  PROVE  Promise!Observe(key, f)
<1> DEFINE new == NewHit(f)
           told == {h \in Promise!Fact :
                      h.key = key /\ h.rule \in Matched(f) /\ h.path = f.path /\ h.age = 0}
           FactOf(k, r, h) == [key |-> k, rule |-> r, path |-> h.path, age |-> h.age]
<1>1. Promise!Report(key, Matched(f))
  BY ReportImplements DEF Evaluate
<1>2. /\ DOMAIN history' = DOMAIN history \cup {key}
      /\ \A k \in DOMAIN history' :
           history'[k] = IF k = key /\ Matched(f) # {} THEN Append(HitsOf(k), new) ELSE HitsOf(k)
  BY DEF Evaluate, Remember, NewHit
<1>3. \A k \in DOMAIN history' : HitsOf(k) \in Seq(Hit)
  BY HitsType DEF EngineInv
<1>4. \A k \in DOMAIN history : HitsOf(k) = history[k]
  BY DEF HitsOf
<1>5. \A k : k \notin DOMAIN history => HitsOf(k) = <<>>
  BY DEF HitsOf
<1>6. /\ new.rules = Matched(f) /\ new.path = f.path /\ new.age = 0
      /\ Matched(f) \subseteq RuleIds /\ f.path \in Paths
  BY NewHitType DEF NewHit, Matched
<1>7. \A x : x \in told <=>
        Fresh(new) /\ \E r \in Matched(f) : x = FactOf(key, r, new)
  <2>1. Promise!Fact = [key : Keys, rule : RuleIds, path : Paths, age : 0 .. MaxWindow - 1]
    BY SameRules DEF Promise!Fact
  <2>2. Fresh(new) <=> 0 \in 0 .. MaxWindow - 1
    BY <1>6, LongestWindow DEF Fresh
  <2> HIDE DEF new
  <2>3. ASSUME NEW x \in told
        PROVE  Fresh(new) /\ \E r \in Matched(f) : x = FactOf(key, r, new)
    <3>1. /\ x \in [key : Keys, rule : RuleIds, path : Paths, age : 0 .. MaxWindow - 1]
          /\ x.key = key /\ x.rule \in Matched(f) /\ x.path = f.path /\ x.age = 0
      BY <2>1, <2>3
    <3>2. x = FactOf(key, x.rule, new) /\ x.age \in 0 .. MaxWindow - 1
      BY <1>6, <3>1
    <3> QED
      BY <2>2, <3>1, <3>2
  <2>4. ASSUME Fresh(new), NEW r \in Matched(f)
        PROVE  FactOf(key, r, new) \in told
    BY <1>6, <2>1, <2>2, <2>4
  <2> QED
    BY <2>3, <2>4
<1> HIDE DEF new, told, FactOf
<1>8. ASSUME NEW x, RecentIn(history, x)
      PROVE  RecentIn(history', x)
  <2>1. PICK k \in DOMAIN history : \E i \in DOMAIN history[k] : \E r \in history[k][i].rules :
          Fresh(history[k][i]) /\
          x = [key |-> k, rule |-> r, path |-> history[k][i].path, age |-> history[k][i].age]
    BY <1>8 DEF RecentIn
  <2>2. PICK i \in DOMAIN history[k] : \E r \in history[k][i].rules :
          Fresh(history[k][i]) /\
          x = [key |-> k, rule |-> r, path |-> history[k][i].path, age |-> history[k][i].age]
    BY <2>1
  <2>3. /\ k \in DOMAIN history' /\ history[k] \in Seq(Hit)
        /\ history'[k] = history[k] \/ history'[k] = Append(history[k], new)
    BY <1>2, <1>3, <1>4
  <2>4. i \in DOMAIN history'[k] /\ history'[k][i] = history[k][i]
    BY <2>2, <2>3
  <2> QED
    BY <2>2, <2>3, <2>4 DEF RecentIn
<1>9. ASSUME NEW x \in told
      PROVE  RecentIn(history', x)
  <2>1. PICK r \in Matched(f) : x = FactOf(key, r, new)
    BY <1>7, <1>9
  <2>2. Fresh(new) /\ key \in DOMAIN history'
    BY <1>2, <1>7, <1>9
  <2>3. history'[key] = Append(HitsOf(key), new) /\ HitsOf(key) \in Seq(Hit)
    BY <1>2, <1>3, <2>1
  <2>4. /\ Len(HitsOf(key)) + 1 \in DOMAIN history'[key]
        /\ history'[key][Len(HitsOf(key)) + 1] = new
    BY <2>3
  <2> QED
    BY <1>6, <2>1, <2>2, <2>4 DEF RecentIn, FactOf
<1>10. ASSUME NEW x, RecentIn(history', x)
       PROVE  RecentIn(history, x) \/ x \in told
  <2>1. PICK k \in DOMAIN history' : \E i \in DOMAIN history'[k] : \E r \in history'[k][i].rules :
          Fresh(history'[k][i]) /\
          x = [key |-> k, rule |-> r, path |-> history'[k][i].path, age |-> history'[k][i].age]
    BY <1>10 DEF RecentIn
  <2>2. PICK i \in DOMAIN history'[k] : \E r \in history'[k][i].rules :
          Fresh(history'[k][i]) /\
          x = [key |-> k, rule |-> r, path |-> history'[k][i].path, age |-> history'[k][i].age]
    BY <2>1
  <2>3. HitsOf(k) \in Seq(Hit)
    BY <1>3
  <2>4. CASE i \in DOMAIN HitsOf(k) /\ history'[k][i] = HitsOf(k)[i]
    <3>1. k \in DOMAIN history
      BY <1>5, <2>4
    <3> QED
      BY <1>4, <2>2, <2>4, <3>1 DEF RecentIn
  <2>5. CASE k = key /\ Matched(f) # {} /\ history'[k][i] = new
    <3>1. Fresh(new) /\ \E r \in Matched(f) : x = FactOf(key, r, new)
      BY <1>6, <2>2, <2>5 DEF FactOf
    <3> QED
      BY <1>7, <3>1
  <2>6. \/ i \in DOMAIN HitsOf(k) /\ history'[k][i] = HitsOf(k)[i]
        \/ k = key /\ Matched(f) # {} /\ history'[k][i] = new
    <3>1. CASE history'[k] = HitsOf(k)
      BY <2>2, <3>1
    <3>2. CASE k = key /\ Matched(f) # {} /\ history'[k] = Append(HitsOf(k), new)
      BY <2>2, <2>3, <3>2
    <3> QED
      BY <1>2, <3>1, <3>2
  <2> QED
    BY <2>4, <2>5, <2>6
<1>11. Recent' = Recent \cup told
  BY <1>8, <1>9, <1>10, RecentBefore, RecentAfter
<1> QED
  BY <1>1, <1>11, SameRules DEF Promise!Observe, told

\* expire() takes only what the abstract engine has forgotten: a step it does not
\* notice.
LEMMA ExpireImplements ==
  ASSUME EngineInv, Expire
  PROVE  Recent' = Recent /\ alert' = alert
<1>1. /\ DOMAIN history' = {k \in DOMAIN history : Retained(history[k]) # <<>>}
      /\ \A k \in DOMAIN history' : history'[k] = Retained(history[k])
      /\ alert' = alert
  BY DEF Expire
<1>2. ASSUME NEW x, RecentIn(history', x)
      PROVE  RecentIn(history, x)
  <2>1. PICK k \in DOMAIN history' : \E i \in DOMAIN history'[k] : \E r \in history'[k][i].rules :
          Fresh(history'[k][i]) /\
          x = [key |-> k, rule |-> r, path |-> history'[k][i].path, age |-> history'[k][i].age]
    BY <1>2 DEF RecentIn
  <2>2. PICK i \in DOMAIN history'[k] : \E r \in history'[k][i].rules :
          Fresh(history'[k][i]) /\
          x = [key |-> k, rule |-> r, path |-> history'[k][i].path, age |-> history'[k][i].age]
    BY <2>1
  <2>3. PICK j \in DOMAIN history[k] : history'[k][i] = history[k][j]
    BY <1>1, <2>2, RetainedInOrder
  <2> QED
    BY <1>1, <2>2, <2>3 DEF RecentIn
<1>3. ASSUME NEW x, RecentIn(history, x)
      PROVE  RecentIn(history', x)
  <2>1. PICK k \in DOMAIN history : \E j \in DOMAIN history[k] : \E r \in history[k][j].rules :
          Fresh(history[k][j]) /\
          x = [key |-> k, rule |-> r, path |-> history[k][j].path, age |-> history[k][j].age]
    BY <1>3 DEF RecentIn
  <2>2. PICK j \in DOMAIN history[k] : \E r \in history[k][j].rules :
          Fresh(history[k][j]) /\
          x = [key |-> k, rule |-> r, path |-> history[k][j].path, age |-> history[k][j].age]
    BY <2>1
  <2>3. PICK i \in DOMAIN Retained(history[k]) : Retained(history[k])[i] = history[k][j]
    BY <2>2, RetainedInOrder
  <2>4. k \in DOMAIN history'
    <3>1. Retained(history[k]) # <<>>
      BY <2>3
    <3> QED
      BY <1>1, <3>1
  <2> QED
    BY <1>1, <2>2, <2>3, <2>4 DEF RecentIn
<1> QED
  BY <1>1, <1>2, <1>3, RecentBefore, RecentAfter

\* Time makes every fact older, and takes those that no rule can ask for.
LEMMA ElapseImplements ==
  ASSUME EngineInv, Elapse
  PROVE  Promise!Elapse
<1> DEFINE Younger(x) == [x EXCEPT !.age = @ - 1]
<1>1. /\ DOMAIN history' = DOMAIN history
      /\ \A k \in DOMAIN history : /\ DOMAIN history'[k] = DOMAIN history[k]
                                  /\ \A i \in DOMAIN history[k] :
                                       history'[k][i] = Older(history[k][i])
      /\ alert' = alert
  BY DEF Elapse
<1>2. Promise!Fact = [key : Keys, rule : RuleIds, path : Paths, age : 0 .. MaxWindow - 1]
  BY SameRules DEF Promise!Fact
<1>3. MaxWindow \in Nat
  BY LongestWindow
<1>4. ASSUME NEW k \in DOMAIN history, NEW i \in DOMAIN history[k]
      PROVE  /\ history[k][i] \in Hit /\ history[k][i].age \in 0 .. MaxWindow
             /\ k \in Keys /\ history[k][i].rules \subseteq RuleIds /\ history[k][i].path \in Paths
             /\ Older(history[k][i]).rules = history[k][i].rules
             /\ Older(history[k][i]).path = history[k][i].path
             /\ Older(history[k][i]).age =
                  IF history[k][i].age < MaxWindow THEN history[k][i].age + 1 ELSE history[k][i].age
  BY <1>3, HitFields, OlderHit DEF EngineInv
<1>5. ASSUME NEW x, RecentIn(history', x)
      PROVE  x \in Promise!Fact /\ x.age > 0 /\ RecentIn(history, Younger(x))
  <2>1. PICK k \in DOMAIN history' : \E i \in DOMAIN history'[k] : \E r \in history'[k][i].rules :
          Fresh(history'[k][i]) /\
          x = [key |-> k, rule |-> r, path |-> history'[k][i].path, age |-> history'[k][i].age]
    BY <1>5 DEF RecentIn
  <2>2. PICK i \in DOMAIN history'[k] : \E r \in history'[k][i].rules :
          Fresh(history'[k][i]) /\
          x = [key |-> k, rule |-> r, path |-> history'[k][i].path, age |-> history'[k][i].age]
    BY <2>1
  <2>3. PICK r \in history'[k][i].rules :
          Fresh(history'[k][i]) /\
          x = [key |-> k, rule |-> r, path |-> history'[k][i].path, age |-> history'[k][i].age]
    BY <2>2
  <2> DEFINE h == history[k][i]
             a == h.age
  <2>4. /\ k \in DOMAIN history /\ i \in DOMAIN history[k] /\ history'[k][i] = Older(h)
    BY <1>1, <2>1, <2>2
  <2>5. /\ a \in 0 .. MaxWindow /\ k \in Keys /\ r \in RuleIds /\ h.path \in Paths /\ r \in h.rules
        /\ Older(h).age = IF a < MaxWindow THEN a + 1 ELSE a
        /\ Older(h).age < MaxWindow
        /\ x = [key |-> k, rule |-> r, path |-> h.path, age |-> Older(h).age]
    BY <1>4, <2>3, <2>4 DEF Fresh
  <2> HIDE DEF h
  <2>6. a < MaxWindow /\ Older(h).age = a + 1 /\ a + 1 \in 0 .. MaxWindow - 1 /\ a \in Nat
    BY <1>3, <2>5
  <2>7. x = [key |-> k, rule |-> r, path |-> h.path, age |-> a + 1]
    BY <2>5, <2>6
  <2>8. Younger(x) = [key |-> k, rule |-> r, path |-> h.path, age |-> a] /\ x.age = a + 1
    BY <2>6, <2>7
  <2>9. x \in Promise!Fact
    BY <1>2, <2>5, <2>6, <2>7
  <2>10. RecentIn(history, Younger(x))
    BY <2>4, <2>5, <2>6, <2>8 DEF RecentIn, Fresh, h
  <2> QED
    BY <2>6, <2>8, <2>9, <2>10
<1>6. ASSUME NEW x \in Promise!Fact, x.age > 0, RecentIn(history, Younger(x))
      PROVE  RecentIn(history', x)
  <2>1. PICK k \in DOMAIN history : \E i \in DOMAIN history[k] : \E r \in history[k][i].rules :
          Fresh(history[k][i]) /\ Younger(x) =
            [key |-> k, rule |-> r, path |-> history[k][i].path, age |-> history[k][i].age]
    BY <1>6 DEF RecentIn
  <2>2. PICK i \in DOMAIN history[k] : \E r \in history[k][i].rules :
          Fresh(history[k][i]) /\ Younger(x) =
            [key |-> k, rule |-> r, path |-> history[k][i].path, age |-> history[k][i].age]
    BY <2>1
  <2>3. PICK r \in history[k][i].rules :
          Fresh(history[k][i]) /\ Younger(x) =
            [key |-> k, rule |-> r, path |-> history[k][i].path, age |-> history[k][i].age]
    BY <2>2
  <2> DEFINE h == history[k][i]
             a == h.age
  <2>4. /\ a \in 0 .. MaxWindow /\ a < MaxWindow
        /\ Older(h).rules = h.rules /\ Older(h).path = h.path /\ Older(h).age = a + 1
        /\ Younger(x) = [key |-> k, rule |-> r, path |-> h.path, age |-> a]
    BY <1>4, <2>3 DEF Fresh
  <2>5. /\ x \in [key : Keys, rule : RuleIds, path : Paths, age : 0 .. MaxWindow - 1]
    BY <1>2, <1>6
  <2> HIDE DEF h
  <2>6. x.key = k /\ x.rule = r /\ x.path = h.path /\ x.age = a + 1
    <3>1. /\ Younger(x).key = x.key /\ Younger(x).rule = x.rule /\ Younger(x).path = x.path
          /\ Younger(x).age = x.age - 1 /\ x.age \in 0 .. MaxWindow - 1
      BY <2>5
    <3> QED
      BY <1>3, <2>4, <3>1
  <2>7. x = [key |-> k, rule |-> r, path |-> h.path, age |-> a + 1]
    BY <2>5, <2>6
  <2>8. /\ k \in DOMAIN history' /\ i \in DOMAIN history'[k] /\ history'[k][i] = Older(h)
        /\ r \in h.rules
    BY <1>1, <2>2, <2>3 DEF h
  <2>9. a + 1 < MaxWindow
    BY <1>3, <2>4, <2>5, <2>6
  <2> QED
    BY <2>4, <2>7, <2>8, <2>9 DEF RecentIn, Fresh
<1>7. Recent' = {x \in Promise!Fact : x.age > 0 /\ Younger(x) \in Recent}
  BY <1>5, <1>6, RecentBefore, RecentAfter
<1> QED
  BY <1>1, <1>7 DEF Promise!Elapse

LEMMA EngineStepImplements ==
  EngineInv /\ [Next]_engineVars => [Promise!Next]_(Promise!correlationVars)
<1> SUFFICES ASSUME EngineInv, [Next]_engineVars
             PROVE  [Promise!Next]_(Promise!correlationVars)
  OBVIOUS
<1>1. ASSUME NEW key \in Keys, NEW f \in Facts, Evaluate(key, f)
      PROVE  Promise!Next
  BY <1>1, EvaluateImplements DEF Promise!Next
<1>2. CASE Expire
  BY <1>2, ExpireImplements DEF Promise!correlationVars
<1>3. CASE Elapse
  BY <1>3, ElapseImplements DEF Promise!Next
<1>4. CASE UNCHANGED engineVars
  <2>1. history' = history /\ alert' = alert
    BY <1>4 DEF engineVars
  <2>2. Recent' = Recent
    BY <2>1, RecentBefore, RecentAfter
  <2> QED
    BY <2>1, <2>2 DEF Promise!correlationVars
<1> QED
  BY <1>1, <1>2, <1>3, <1>4 DEF Next

LEMMA EngineInitImplements == Init => Promise!Init
<1> SUFFICES ASSUME Init
             PROVE  Promise!Init
  OBVIOUS
<1>1. history = <<>> /\ DOMAIN history = {} /\ alert = NoAlert
  BY DEF Init
<1>2. Recent = {}
  BY <1>1, RecentBefore DEF RecentIn
<1> QED
  BY <1>1, <1>2 DEF Promise!Init

\* The vectors, and the expiry that the timer and every exit call, do what a set
\* of facts without expiry would: every alert is the one the rules call for
\* (detect.rs, evaluate(), find_prior() and expire()).
THEOREM EngineKeepsPromise == Spec => KeepsPromise
<1>1. Init => EngineInv /\ Promise!Init
  BY EngineInvInit, EngineInitImplements
<1>2. EngineInv /\ [Next]_engineVars => EngineInv' /\ [Promise!Next]_(Promise!correlationVars)
  BY EngineInvStep, EngineStepImplements
<1> QED
  BY <1>1, <1>2, PTL DEF Spec, KeepsPromise, Promise!Spec

================================================================================
