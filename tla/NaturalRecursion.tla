---------------------------- MODULE NaturalRecursion ----------------------------
(******************************************************************************)
(* Induction and recursion on the natural numbers, stated with sets and        *)
(* functions: the loops of the program are recursive functions of the number   *)
(* of turns, and what they leave behind is proved with these.                  *)
(******************************************************************************)
EXTENDS Integers, WellFoundedInduction, TLAPS

Less == {pair \in Nat \X Nat : pair[1] < pair[2]}

LEMMA LessIsTheOrder == OpToRel(<, Nat) = Less
  BY DEF OpToRel, Less

LEMMA LessIsLess ==
  ASSUME NEW x \in Nat, NEW y \in Nat
  PROVE  <<x, y>> \in Less <=> x < y
  BY DEF Less

\* Every non-empty set of numbers has a least one.
LEMMA LeastNumber ==
  ASSUME NEW T, T \subseteq Nat, T # {}
  PROVE  \E x \in T : \A y \in T : x =< y
<1>1. IsWellFoundedOn(Less, Nat)
  BY NatLessThanWellFounded, LessIsTheOrder
<1>2. PICK x \in T : \A y \in T : ~(<<y, x>> \in Less)
  BY <1>1, WFMin, Zenon
<1>3. \A y \in T : ~(y < x)
  BY <1>2, LessIsLess
<1> QED
  BY <1>2, <1>3

\* Every non-empty set of numbers with a bound has a greatest one.
LEMMA GreatestNumber ==
  ASSUME NEW T, T \subseteq Nat, T # {}, NEW b \in Nat, \A y \in T : y =< b
  PROVE  \E x \in T : \A y \in T : y =< x
<1> DEFINE gaps == {g \in Nat : \E y \in T : g = b - y}
<1>1. gaps \subseteq Nat /\ gaps # {}
  <2>1. PICK y \in T : y =< b
    OBVIOUS
  <2>2. b - y \in gaps
    BY <2>1
  <2> QED
    BY <2>2
<1>2. PICK g \in gaps : \A h \in gaps : g =< h
  BY <1>1, LeastNumber
<1>3. PICK x \in T : g = b - x
  BY <1>2
<1>4. \A y \in T : b - y \in gaps
  OBVIOUS
<1> QED
  BY <1>2, <1>3, <1>4

\* A set that holds 0, and with a number the next one, holds every number.
LEMMA Induction ==
  ASSUME NEW T, 0 \in T, \A n \in Nat : n \in T => n + 1 \in T
  PROVE  Nat \subseteq T
<1> SUFFICES ASSUME Nat \ T # {}
             PROVE  FALSE
  OBVIOUS
<1>1. PICK x \in Nat \ T : \A y \in Nat \ T : x =< y
  BY LeastNumber
<1>2. x # 0 /\ x - 1 \in Nat /\ x - 1 \notin Nat \ T
  BY <1>1
<1> QED
  BY <1>1, <1>2

\* The first n turns of a loop that starts with a and whose i-th turn is step.
Turns(a, step, n, g) ==
  g[0] = a /\ \A i \in 1 .. n : g[i] = step[i][g[i - 1]]

LEMMA TurnsAgree ==
  ASSUME NEW a, NEW step, NEW m \in Nat, NEW n \in Nat, NEW g, NEW h,
         Turns(a, step, m, g), Turns(a, step, n, h)
  PROVE  \A i \in Nat : i =< m /\ i =< n => g[i] = h[i]
<1> DEFINE T == {i \in Nat : i =< m /\ i =< n => g[i] = h[i]}
<1>1. 0 \in T
  BY DEF Turns
<1>2. ASSUME NEW i \in Nat, i \in T
      PROVE  i + 1 \in T
  <2> SUFFICES ASSUME i + 1 =< m, i + 1 =< n
               PROVE  g[i + 1] = h[i + 1]
    OBVIOUS
  <2>1. g[i] = h[i] /\ i + 1 \in 1 .. m /\ i + 1 \in 1 .. n /\ (i + 1) - 1 = i
    BY <1>2
  <2>2. g[i + 1] = step[i + 1][g[i]] /\ h[i + 1] = step[i + 1][h[i]]
    BY <2>1 DEF Turns
  <2> QED
    BY <2>1, <2>2
<1> HIDE DEF T
<1>3. Nat \subseteq T
  BY <1>1, <1>2, Induction
<1> QED
  BY <1>3 DEF T

LEMMA SomeTurns ==
  ASSUME NEW S, NEW a \in S, NEW step \in [Nat -> [S -> S]], NEW n \in Nat
  PROVE  \E g \in [0 .. n -> S] : Turns(a, step, n, g)
<1> DEFINE T == {i \in Nat : \E g \in [0 .. i -> S] : Turns(a, step, i, g)}
<1>1. 0 \in T
  <2>1. [i \in 0 .. 0 |-> a] \in [0 .. 0 -> S] /\ Turns(a, step, 0, [i \in 0 .. 0 |-> a])
    BY DEF Turns
  <2> QED
    BY <2>1
<1>2. ASSUME NEW i \in Nat, i \in T
      PROVE  i + 1 \in T
  <2>1. PICK g \in [0 .. i -> S] : Turns(a, step, i, g)
    BY <1>2
  <2> DEFINE h == [j \in 0 .. i + 1 |-> IF j =< i THEN g[j] ELSE step[i + 1][g[i]]]
  <2>2. g[i] \in S /\ step[i + 1][g[i]] \in S
    <3>1. g[i] \in S /\ step[i + 1] \in [S -> S]
      OBVIOUS
    <3> QED
      BY <3>1
  <2>3. h \in [0 .. i + 1 -> S]
    BY <2>2
  <2>4. Turns(a, step, i + 1, h)
    <3>1. h[0] = a
      BY <2>1 DEF Turns
    <3>2. ASSUME NEW j \in 1 .. i
          PROVE  h[j] = step[j][h[j - 1]]
      BY <2>1, <3>2 DEF Turns
    <3>3. h[i + 1] = step[i + 1][h[(i + 1) - 1]]
      OBVIOUS
    <3> HIDE DEF h
    <3>4. \A j \in 1 .. i + 1 : j \in 1 .. i \/ j = i + 1
      OBVIOUS
    <3> QED
      BY <3>1, <3>2, <3>3, <3>4 DEF Turns
  <2> QED
    BY <2>3, <2>4
<1> HIDE DEF T
<1>3. Nat \subseteq T
  BY <1>1, <1>2, Induction
<1> QED
  BY <1>3 DEF T

\* f gives the state of a loop after each turn.
IsStep(step, S) == step \in [Nat -> [S -> S]]
IsLoop(f, S, a, step) ==
  f \in [Nat -> S] /\ f[0] = a /\ \A i \in Nat \ {0} : f[i] = step[i][f[i - 1]]

\* Every loop has such a function.
LEMMA Recursion ==
  ASSUME NEW S, NEW a \in S, NEW step, IsStep(step, S)
  PROVE  \E f : IsLoop(f, S, a, step)
<1> USE DEF IsStep
<1> DEFINE turns(n) == CHOOSE g \in [0 .. n -> S] : Turns(a, step, n, g)
           f == [i \in Nat |-> turns(i)[i]]
<1>1. \A n \in Nat : turns(n) \in [0 .. n -> S] /\ Turns(a, step, n, turns(n))
  BY SomeTurns
<1>2. f \in [Nat -> S]
  BY <1>1
<1>3. f[0] = a
  BY <1>1 DEF Turns
<1>4. ASSUME NEW i \in Nat, i # 0
      PROVE  f[i] = step[i][f[i - 1]]
  <2> HIDE DEF turns
  <2>1. i - 1 \in Nat /\ i \in 1 .. i /\ i - 1 =< i /\ i - 1 =< i - 1
    BY <1>4
  <2>2. turns(i)[i] = step[i][turns(i)[i - 1]]
    BY <1>1, <2>1 DEF Turns
  <2>3. turns(i)[i - 1] = turns(i - 1)[i - 1]
    BY <1>1, <2>1, TurnsAgree
  <2> QED
    BY <2>1, <2>2, <2>3
<1> HIDE DEF f
<1> QED
  BY <1>2, <1>3, <1>4 DEF IsLoop

\* The loop whose turns are all the same: a cursor that goes from a to the next.
LEMMA Walk ==
  ASSUME NEW S, NEW a \in S, NEW up \in [S -> S]
  PROVE  \E f \in [Nat -> S] : f[0] = a /\ \A i \in Nat \ {0} : f[i] = up[f[i - 1]]
<1> DEFINE step == [i \in Nat |-> up]
<1>1. IsStep(step, S)
  BY DEF IsStep
<1>2. \A i \in Nat : step[i] = up
  OBVIOUS
<1> HIDE DEF step
<1>3. PICK f : IsLoop(f, S, a, step)
  BY <1>1, Recursion
<1> QED
  BY <1>2, <1>3 DEF IsLoop

================================================================================
