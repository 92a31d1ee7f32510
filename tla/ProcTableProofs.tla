---------------------------- MODULE ProcTableProofs ----------------------------
(******************************************************************************)
(* Proofs about the process table, for every set of tgids and start times,    *)
(* every grace period and every /proc snapshot.                               *)
(*                                                                            *)
(*   TypeCorrect       any stream of calls keeps the table well-typed;        *)
(*   ForestHolds       a disciplined stream keeps it a forest;                *)
(*   LineageIsKept     and never takes a record from under its children;      *)
(*   AncestryReturns   and every walk up the table comes to its end.          *)
(*                                                                            *)
(* Forest together with TableTypeOK is inductive.  The two are stated again   *)
(* below over a table and an index given as parameters, because on_exec and   *)
(* on_proc_exec work on the table that ensure() returns.                      *)
(******************************************************************************)
EXTENDS ProcTable, NaturalRecursion

Typed(n) == DOMAIN n \subseteq ProcKey /\ n \in [DOMAIN n -> ProcNode]

IndexTyped(b) ==
  /\ DOMAIN b \subseteq Tgids
  /\ b \in [DOMAIN b -> ProcKey]
  /\ \A t \in DOMAIN b : b[t].tgid = t

Links(n) ==
  \A k \in DOMAIN n :
    /\ n[k].parent # NoKey =>
         n[k].parent \in DOMAIN n /\ k \in n[n[k].parent].children
    /\ \A c \in n[k].children : c \in DOMAIN n /\ n[c].parent = k

Index(n, b) == \A t \in DOMAIN b : b[t] \in DOMAIN n /\ n[b[t]].exited_at = NotExited

Rooted(n) == \A S \in SUBSET DOMAIN n : S # {} => \E k \in S : n[k].parent \notin S

Sound(n, b) == Typed(n) /\ IndexTyped(b) /\ Links(n) /\ Index(n, b) /\ Rooted(n)

\* The two tables differ in the names their records carry only.
SameLinks(n, m) ==
  /\ DOMAIN n = DOMAIN m
  /\ \A k \in DOMAIN m :
       n[k].parent = m[k].parent /\ n[k].children = m[k].children
         /\ n[k].exited_at = m[k].exited_at

--------------------------------------------------------------------------------
(* Types *)

\* The record of a new process is well-typed.
LEMMA NewNodeType == NewNode \in ProcNode
  BY ProcTableAssumption, SMT DEF NewNode, ProcNode, NotExited, Expired

\* A placeholder is a key.
LEMMA PlaceholderType ==
  ASSUME NEW t \in Tgids
  PROVE  Placeholder(t) \in ProcKey /\ Placeholder(t).tgid = t /\ Placeholder(t).start_time = 0
  BY DEF Placeholder, ProcKey

\* Pointing the index at a record of the right tgid keeps it well-typed.
LEMMA IndexInsertType ==
  ASSUME NEW b, IndexTyped(b), NEW k \in ProcKey
  PROVE  /\ IndexTyped(Insert(b, k.tgid, k))
         /\ DOMAIN Insert(b, k.tgid, k) = DOMAIN b \cup {k.tgid}
         /\ Insert(b, k.tgid, k)[k.tgid] = k
         /\ \A t \in DOMAIN b : t # k.tgid => Insert(b, k.tgid, k)[t] = b[t]
<1>1. k.tgid \in Tgids
  BY DEF ProcKey
<1> QED
  BY <1>1 DEF IndexTyped, Insert

\* A table of the same links is as sound.
LEMMA SameLinksSound ==
  ASSUME NEW n, NEW m, NEW b, Typed(n), SameLinks(n, m), Sound(m, b)
  PROVE  Sound(n, b)
<1>1. Links(n)
  BY DEF Links, SameLinks, Sound
<1>2. Index(n, b)
  BY DEF Index, SameLinks, Sound
<1>3. Rooted(n)
  BY DEF Rooted, SameLinks, Sound
<1> QED
  BY <1>1, <1>2, <1>3 DEF Sound

--------------------------------------------------------------------------------
(* seed() *)

\* A table made of what was read from /proc is sound: each process is linked to
\* the one its ppid names, and no set of processes is closed under "parent".
LEMMA SeedSound ==
  ASSUME NEW procs, DOMAIN procs \subseteq Tgids, \A t \in DOMAIN procs : procs[t] \in ProcInfo,
         \A S \in SUBSET DOMAIN procs : S # {} => \E t \in S : procs[t].ppid \notin S
  PROVE  Sound(SeededFrom(procs), IndexFrom(procs))
<1> DEFINE D == DOMAIN procs
           n == SeededFrom(procs)
           b == IndexFrom(procs)
           Key(t) == SeedKeyIn(procs, t)
<1>1. \A t \in D : /\ t \in Tgids /\ procs[t] \in ProcInfo
                   /\ Key(t) \in ProcKey /\ Key(t).tgid = t
  BY ProcTableAssumption DEF SeedKeyIn, ProcKey, ProcInfo
<1>2. /\ DOMAIN n = {Key(t) : t \in D}
      /\ \A t \in D :
           /\ n[Key(t)].parent = IF procs[t].ppid \in D THEN Key(procs[t].ppid) ELSE NoKey
           /\ n[Key(t)].children = {Key(c) : c \in {d \in D : procs[d].ppid = t}}
           /\ n[Key(t)].exited_at = NotExited
  BY <1>1 DEF SeededFrom, SeedKeyIn
<1>3. DOMAIN b = D /\ \A t \in D : b[t] = Key(t)
  BY DEF IndexFrom
<1>4. Typed(n)
  <2>1. ASSUME NEW t \in D
        PROVE  n[Key(t)] \in ProcNode
    <3>1. procs[t].comm \in Names \cup {NoName} /\ procs[t].exe \in Names \cup {NoName}
            /\ procs[t].args \in Names \cup {NoName}
      BY <1>1 DEF ProcInfo
    <3>2. n[Key(t)].parent \in ProcKey \cup {NoKey}
      BY <1>1, <1>2
    <3>3. n[Key(t)].children \subseteq ProcKey
      BY <1>1, <1>2
    <3>4. NotExited \in NotExited .. Expired
      BY ProcTableAssumption DEF NotExited, Expired
    <3>5. n[Key(t)] =
            [parent |-> n[Key(t)].parent, children |-> n[Key(t)].children,
             exe |-> procs[t].exe, comm |-> procs[t].comm, args |-> procs[t].args,
             exited_at |-> NotExited]
      BY <1>1 DEF SeededFrom, SeedKeyIn
    <3> QED
      BY <3>1, <3>2, <3>3, <3>4, <3>5 DEF ProcNode
  <2>2. n = [k \in DOMAIN n |-> n[k]]
    BY DEF SeededFrom, SeedKeyIn
  <2> QED
    BY <1>1, <1>2, <2>1, <2>2 DEF Typed
<1>5. IndexTyped(b)
  BY <1>1, <1>3, ProcTableAssumption DEF IndexTyped, IndexFrom
<1>6. Links(n)
  <2>1. \A t, c \in D : Key(t) = Key(c) => t = c
    BY <1>1
  <2> SUFFICES ASSUME NEW t \in D
               PROVE  /\ n[Key(t)].parent # NoKey =>
                           /\ n[Key(t)].parent \in DOMAIN n
                           /\ Key(t) \in n[n[Key(t)].parent].children
                      /\ \A c \in n[Key(t)].children :
                           c \in DOMAIN n /\ n[c].parent = Key(t)
    BY <1>2 DEF Links
  <2>2. ASSUME n[Key(t)].parent # NoKey
        PROVE  /\ n[Key(t)].parent \in DOMAIN n
               /\ Key(t) \in n[n[Key(t)].parent].children
    BY <1>2, <2>2
  <2>3. ASSUME NEW c \in n[Key(t)].children
        PROVE  c \in DOMAIN n /\ n[c].parent = Key(t)
    BY <1>2, <2>3
  <2> QED
    BY <2>2, <2>3
<1>7. Index(n, b)
  BY <1>2, <1>3 DEF Index
<1>8. Rooted(n)
  <2> SUFFICES ASSUME NEW S \in SUBSET DOMAIN n, S # {}
               PROVE  \E k \in S : n[k].parent \notin S
    BY DEF Rooted
  <2> DEFINE T == {t \in D : Key(t) \in S}
  <2>1. T # {} /\ T \in SUBSET D
    BY <1>2
  <2>2. PICK t \in T : procs[t].ppid \notin T
    BY <2>1
  <2>3. Key(t) \in S /\ NoKey \notin S
    BY <1>1, <1>2, <2>2, ProcTableAssumption
  <2>4. n[Key(t)].parent \notin S
    BY <1>2, <2>2, <2>3
  <2> QED
    BY <2>3, <2>4
<1> QED
  BY <1>4, <1>5, <1>6, <1>7, <1>8 DEF Sound

\* As is the one the agent starts with.
LEMMA SeededSound ==
  ASSUME TableInit
  PROVE  Sound(nodes, by_tgid)
  BY SeedSound, ProcTableAssumption DEF TableInit, SnapshotIsATree

--------------------------------------------------------------------------------
(* on_fork() *)

\* A fork that overwrites nothing adds a leaf below the newest record of the
\* forking process.
LEMMA ForkSound ==
  ASSUME Sound(nodes, by_tgid), NEW p \in Tgids, NEW c \in Tgids, ~Overwrites(c), OnFork(p, c)
  PROVE  Sound(nodes', by_tgid')
<1> DEFINE pk == Newest(p)
           ck == Placeholder(c)
           adopted == Adopt(pk, ck)
<1>1. ck \in ProcKey /\ ck.tgid = c /\ ck \notin DOMAIN nodes
  BY PlaceholderType DEF Overwrites
<1>2. pk = NoKey \/ pk \in DOMAIN nodes
  BY DEF Newest, Sound, Index
<1>3. NoKey \notin DOMAIN nodes /\ ck # NoKey /\ NoKey \notin ProcKey
  BY <1>1, ProcTableAssumption DEF Sound, Typed
<1>4. /\ Typed(adopted) /\ DOMAIN adopted = DOMAIN nodes
      /\ \A k \in DOMAIN nodes :
           /\ adopted[k].parent = nodes[k].parent
           /\ adopted[k].exited_at = nodes[k].exited_at
           /\ adopted[k].children = IF k = pk THEN nodes[k].children \cup {ck}
                                    ELSE nodes[k].children
  <2>1. CASE pk = NoKey
    BY <2>1, <1>3 DEF Adopt, Sound
  <2>2. CASE pk \in DOMAIN nodes
    <3>1. adopted = [nodes EXCEPT ![pk].children = @ \cup {ck}]
      BY <2>2 DEF Adopt
    <3> HIDE DEF adopted
    <3>2. nodes[pk] \in ProcNode
      BY <2>2 DEF Sound, Typed
    <3>3. [nodes[pk] EXCEPT !.children = @ \cup {ck}] \in ProcNode
      BY <3>2, <1>1 DEF ProcNode
    <3> QED
      BY <2>2, <3>1, <3>2, <3>3 DEF Sound, Typed, ProcNode
  <2> QED
    BY <1>2, <2>1, <2>2
<1>5. /\ ForkedNode(pk) \in ProcNode /\ ForkedNode(pk).parent = pk
      /\ ForkedNode(pk).children = {} /\ ForkedNode(pk).exited_at = NotExited
  <2>1. pk \in ProcKey \cup {NoKey}
    BY <1>2 DEF Sound, Typed
  <2>2. pk \in DOMAIN nodes => nodes[pk].exe \in Names \cup {NoName} /\ nodes[pk].comm \in Names \cup {NoName}
    BY DEF Sound, Typed, ProcNode
  <2> QED
    BY <2>1, <2>2, NewNodeType DEF ForkedNode, NewNode, ProcNode
<1>6. nodes' = Insert(adopted, ck, ForkedNode(pk)) /\ by_tgid' = Insert(by_tgid, ck.tgid, ck)
  BY <1>1 DEF OnFork
<1> HIDE DEF adopted, pk, ck
<1>7. /\ Typed(nodes') /\ DOMAIN nodes' = DOMAIN nodes \cup {ck}
      /\ nodes'[ck].parent = pk /\ nodes'[ck].children = {}
      /\ nodes'[ck].exited_at = NotExited
      /\ \A k \in DOMAIN nodes :
           /\ nodes'[k].parent = nodes[k].parent
           /\ nodes'[k].exited_at = nodes[k].exited_at
           /\ nodes'[k].children = IF k = pk THEN nodes[k].children \cup {ck}
                                   ELSE nodes[k].children
  <2> DEFINE v == ForkedNode(pk)
  <2>1. v \in ProcNode /\ v.parent = pk /\ v.children = {} /\ v.exited_at = NotExited
    BY <1>5
  <2> HIDE DEF v
  <2>2. /\ Typed(Insert(adopted, ck, v))
        /\ DOMAIN Insert(adopted, ck, v) = DOMAIN adopted \cup {ck}
        /\ Insert(adopted, ck, v)[ck] = v
        /\ \A x \in DOMAIN adopted : x # ck => Insert(adopted, ck, v)[x] = adopted[x]
    BY <1>1, <1>4, <2>1 DEF Typed, Insert
  <2>3. nodes' = Insert(adopted, ck, v)
    BY <1>6 DEF v
  <2>4. \A k \in DOMAIN nodes : k # ck /\ nodes'[k] = adopted[k]
    BY <1>1, <1>4, <2>2, <2>3
  <2> QED
    BY <1>4, <2>1, <2>2, <2>3, <2>4
<1>8. /\ IndexTyped(by_tgid') /\ DOMAIN by_tgid' = DOMAIN by_tgid \cup {c}
      /\ by_tgid'[c] = ck /\ \A t \in DOMAIN by_tgid : t # c => by_tgid'[t] = by_tgid[t]
  BY <1>1, <1>6, IndexInsertType DEF Sound
<1>9. Links(nodes')
  <2>1. \A k \in DOMAIN nodes : nodes[k].parent # ck /\ ck \notin nodes[k].children
    BY <1>1, <1>3 DEF Sound, Links
  <2> SUFFICES ASSUME NEW k \in DOMAIN nodes'
               PROVE  /\ nodes'[k].parent # NoKey =>
                           /\ nodes'[k].parent \in DOMAIN nodes'
                           /\ k \in nodes'[nodes'[k].parent].children
                      /\ \A x \in nodes'[k].children : x \in DOMAIN nodes' /\ nodes'[x].parent = k
    BY DEF Links
  <2>2. CASE k = ck
    BY <2>2, <1>1, <1>2, <1>7
  <2>3. CASE k \in DOMAIN nodes
    <3>1. nodes[k].parent # NoKey =>
            nodes[k].parent \in DOMAIN nodes /\ k \in nodes[nodes[k].parent].children
      BY <2>3 DEF Sound, Links
    <3>2. \A x \in nodes[k].children : x \in DOMAIN nodes /\ nodes[x].parent = k
      BY <2>3 DEF Sound, Links
    <3>3. nodes'[k].parent # NoKey =>
            nodes'[k].parent \in DOMAIN nodes' /\ k \in nodes'[nodes'[k].parent].children
      BY <2>3, <3>1, <1>7
    <3>4. ASSUME NEW x \in nodes'[k].children
          PROVE  x \in DOMAIN nodes' /\ nodes'[x].parent = k
      <4>1. x \in nodes[k].children \/ (x = ck /\ k = pk)
        BY <2>3, <3>4, <1>7
      <4>2. CASE x \in nodes[k].children
        BY <3>2, <4>2, <1>7
      <4>3. CASE x = ck /\ k = pk
        BY <4>3, <1>7
      <4> QED
        BY <4>1, <4>2, <4>3
    <3> QED
      BY <3>3, <3>4
  <2> QED
    BY <2>2, <2>3, <1>7
<1>10. Index(nodes', by_tgid')
  <2>1. ASSUME NEW t \in DOMAIN by_tgid
        PROVE  by_tgid[t] \in DOMAIN nodes /\ nodes[by_tgid[t]].exited_at = NotExited
    BY DEF Sound, Index
  <2>2. ASSUME NEW t \in DOMAIN by_tgid'
        PROVE  by_tgid'[t] \in DOMAIN nodes' /\ nodes'[by_tgid'[t]].exited_at = NotExited
    <3>1. CASE t = c
      BY <3>1, <1>7, <1>8
    <3>2. CASE t # c
      <4>1. t \in DOMAIN by_tgid /\ by_tgid'[t] = by_tgid[t]
        BY <3>2, <2>2, <1>8
      <4> QED
        BY <4>1, <2>1, <1>7
    <3> QED
      BY <3>1, <3>2
  <2> QED
    BY <2>2 DEF Index
<1>11. Rooted(nodes')
  <2> SUFFICES ASSUME NEW S \in SUBSET DOMAIN nodes', S # {}
               PROVE  \E k \in S : nodes'[k].parent \notin S
    BY DEF Rooted
  <2> DEFINE T == S \ {ck}
  <2>1. CASE T = {}
    <3>1. S = {ck}
      BY <2>1
    <3> QED
      BY <3>1, <1>1, <1>2, <1>3, <1>7
  <2>2. CASE T # {}
    <3>1. T \in SUBSET DOMAIN nodes
      BY <1>7
    <3>2. PICK k \in T : nodes[k].parent \notin T
      BY <2>2, <3>1 DEF Sound, Rooted
    <3>3. nodes[k].parent # ck
      BY <3>1, <1>1, <1>3 DEF Sound, Links
    <3> QED
      BY <3>1, <3>2, <3>3, <1>7
  <2> QED
    BY <2>1, <2>2
<1> QED
  BY <1>7, <1>8, <1>9, <1>10, <1>11 DEF Sound

--------------------------------------------------------------------------------
(* ensure(), on_exec() and on_proc_exec() *)

\* Moving the record of a living process from its placeholder to its real key
\* renames it on both ends of every link.
LEMMA PromotedSound ==
  ASSUME Sound(nodes, by_tgid), NEW key \in ProcKey, Promotes(key), ~Resurrects(key)
  PROVE  /\ Sound(Promoted(key), Insert(by_tgid, key.tgid, key))
         /\ key \in DOMAIN Promoted(key)
<1> DEFINE ph == Placeholder(key.tgid)
           n == Promoted(key)
           b == Insert(by_tgid, key.tgid, key)
           up == nodes[ph].parent
<1>1. /\ ph \in ProcKey /\ ph.tgid = key.tgid /\ ph # key
      /\ ph \in DOMAIN nodes /\ key \notin DOMAIN nodes
      /\ nodes[ph].exited_at = NotExited
  <2>1. key.tgid \in Tgids
    BY DEF ProcKey
  <2> QED
    BY <2>1, PlaceholderType DEF Promotes, Resurrects
<1>2. NoKey \notin DOMAIN nodes /\ key # NoKey /\ ph # NoKey
  BY <1>1, ProcTableAssumption DEF Sound, Typed
<1>3. \A k \in DOMAIN nodes :
        /\ nodes[k] \in ProcNode
        /\ nodes[k].parent # NoKey =>
             nodes[k].parent \in DOMAIN nodes /\ k \in nodes[nodes[k].parent].children
        /\ \A c \in nodes[k].children : c \in DOMAIN nodes /\ nodes[c].parent = k
  BY DEF Sound, Typed, Links
<1>4. up # ph /\ ph \notin nodes[ph].children
  <2>1. {ph} \in SUBSET DOMAIN nodes /\ {ph} # {}
    BY <1>1
  <2>2. PICK k \in {ph} : nodes[k].parent \notin {ph}
    BY <2>1 DEF Sound, Rooted
  <2> QED
    BY <1>1, <1>3, <2>2
<1>5. /\ DOMAIN n = (DOMAIN nodes \ {ph}) \cup {key}
      /\ n[key] = nodes[ph]
      /\ \A k \in DOMAIN nodes \ {ph} :
           n[k] = [nodes[k] EXCEPT
                     !.children = IF k = up THEN (@ \ {ph}) \cup {key} ELSE @,
                     !.parent   = IF k \in nodes[ph].children THEN key ELSE @]
      /\ n = [k \in DOMAIN n |-> n[k]]
  BY <1>1 DEF Promoted
<1>6. \A k \in DOMAIN nodes : k \in nodes[ph].children <=> nodes[k].parent = ph
  BY <1>1, <1>2, <1>3
<1> HIDE DEF n, ph
<1>7. /\ n[key] \in ProcNode
      /\ n[key].parent = up /\ n[key].children = nodes[ph].children
      /\ n[key].exited_at = NotExited
  BY <1>1, <1>3, <1>5
<1>8. \A k \in DOMAIN nodes \ {ph} :
        /\ n[k] \in ProcNode
        /\ n[k].parent = IF nodes[k].parent = ph THEN key ELSE nodes[k].parent
        /\ n[k].children = IF k = up THEN (nodes[k].children \ {ph}) \cup {key}
                           ELSE nodes[k].children
        /\ n[k].exited_at = nodes[k].exited_at
  <2> TAKE k \in DOMAIN nodes \ {ph}
  <2> DEFINE r == nodes[k]
             ch == IF k = up THEN (r.children \ {ph}) \cup {key} ELSE r.children
             pa == IF r.parent = ph THEN key ELSE r.parent
  <2>1. r \in ProcNode /\ ch \in SUBSET ProcKey /\ pa \in ProcKey \cup {NoKey}
    BY <1>3 DEF ProcNode
  <2>2. n[k] = [r EXCEPT !.children = ch, !.parent = pa]
    BY <1>5, <1>6
  <2> HIDE DEF ch, pa, r
  <2>3. /\ n[k] \in ProcNode /\ n[k].parent = pa /\ n[k].children = ch
        /\ n[k].exited_at = r.exited_at
    BY <2>1, <2>2 DEF ProcNode
  <2> QED
    BY <2>3 DEF ch, pa, r
<1>9. Typed(n)
  BY <1>5, <1>7, <1>8 DEF Typed, Sound
<1>10. /\ IndexTyped(b) /\ DOMAIN b = DOMAIN by_tgid \cup {key.tgid}
       /\ b[key.tgid] = key
       /\ \A t \in DOMAIN by_tgid : t # key.tgid => b[t] = by_tgid[t]
  BY IndexInsertType DEF Sound
<1> HIDE DEF b
<1>11. Links(n)
  <2>1. ASSUME NEW k \in DOMAIN n, n[k].parent # NoKey
        PROVE  n[k].parent \in DOMAIN n /\ k \in n[n[k].parent].children
    <3>1. CASE k = key
      <4>1. up \in DOMAIN nodes \ {ph} /\ ph \in nodes[up].children
        BY <3>1, <2>1, <1>1, <1>3, <1>4, <1>7
      <4> QED
        BY <3>1, <4>1, <1>5, <1>7, <1>8
    <3>2. CASE k \in DOMAIN nodes \ {ph} /\ nodes[k].parent = ph
      BY <3>2, <1>5, <1>6, <1>7, <1>8
    <3>3. CASE k \in DOMAIN nodes \ {ph} /\ nodes[k].parent # ph
      <4>1. n[k].parent = nodes[k].parent
        BY <3>3, <1>8
      <4>2. nodes[k].parent \in DOMAIN nodes \ {ph} /\ k \in nodes[nodes[k].parent].children
        BY <3>3, <4>1, <2>1, <1>3
      <4>3. k \in n[nodes[k].parent].children
        <5>1. CASE nodes[k].parent = up
          BY <3>3, <4>2, <5>1, <1>8
        <5>2. CASE nodes[k].parent # up
          BY <4>2, <5>2, <1>8
        <5> QED
          BY <5>1, <5>2
      <4> QED
        BY <4>1, <4>2, <4>3, <1>5
    <3> QED
      BY <3>1, <3>2, <3>3, <1>5
  <2>2. ASSUME NEW k \in DOMAIN n, NEW c \in n[k].children
        PROVE  c \in DOMAIN n /\ n[c].parent = k
    <3>1. CASE k = key
      <4>1. c \in nodes[ph].children /\ c # ph
        BY <3>1, <2>2, <1>4, <1>7
      <4>2. c \in DOMAIN nodes \ {ph} /\ nodes[c].parent = ph
        BY <4>1, <1>1, <1>3
      <4> QED
        BY <3>1, <4>2, <1>5, <1>8
    <3>2. CASE k \in DOMAIN nodes \ {ph} /\ c = key
      <4>1. k = up
        BY <3>2, <2>2, <1>1, <1>3, <1>8
      <4> QED
        BY <3>2, <4>1, <1>5, <1>7
    <3>3. CASE k \in DOMAIN nodes \ {ph} /\ c # key
      <4>1. c \in nodes[k].children /\ (k = up => c # ph)
        <5>1. CASE k = up
          <6>1. n[k].children = (nodes[k].children \ {ph}) \cup {key}
            BY <3>3, <5>1, <1>8
          <6> QED
            BY <3>3, <6>1, <2>2
        <5>2. CASE k # up
          <6>1. n[k].children = nodes[k].children
            BY <3>3, <5>2, <1>8
          <6> QED
            BY <5>2, <6>1, <2>2
        <5> QED
          BY <5>1, <5>2
      <4>2. c \in DOMAIN nodes /\ nodes[c].parent = k
        BY <3>3, <4>1, <1>3
      <4>3. c # ph
        BY <4>1, <4>2
      <4> QED
        BY <3>3, <4>2, <4>3, <1>5, <1>8
    <3> QED
      BY <3>1, <3>2, <3>3, <1>5
  <2> QED
    BY <2>1, <2>2 DEF Links
<1>12. Index(n, b)
  <2>1. ASSUME NEW t \in DOMAIN b
        PROVE  b[t] \in DOMAIN n /\ n[b[t]].exited_at = NotExited
    <3>1. CASE t = key.tgid
      BY <3>1, <1>5, <1>7, <1>10
    <3>2. CASE t # key.tgid
      <4>1. t \in DOMAIN by_tgid /\ b[t] = by_tgid[t]
        BY <3>2, <2>1, <1>10
      <4>2. by_tgid[t] \in DOMAIN nodes /\ nodes[by_tgid[t]].exited_at = NotExited
        BY <4>1 DEF Sound, Index
      <4>3. by_tgid[t] # ph
        BY <3>2, <4>1, <1>1 DEF Sound, IndexTyped
      <4> QED
        BY <4>1, <4>2, <4>3, <1>5, <1>8
    <3> QED
      BY <3>1, <3>2
  <2> QED
    BY <2>1 DEF Index
<1>13. Rooted(n)
  <2> SUFFICES ASSUME NEW S \in SUBSET DOMAIN n, S # {}
               PROVE  \E k \in S : n[k].parent \notin S
    BY DEF Rooted
  <2> DEFINE T == IF key \in S THEN (S \ {key}) \cup {ph} ELSE S
  <2>1. T \in SUBSET DOMAIN nodes /\ T # {}
    BY <1>1, <1>5
  <2>2. PICK k \in T : nodes[k].parent \notin T
    BY <2>1 DEF Sound, Rooted
  <2>3. NoKey \notin S /\ ph \notin S
    BY <1>1, <1>2, <1>5
  <2>4. CASE k = ph
    <3>1. key \in S
      BY <2>3, <2>4
    <3>2. up # key
      BY <1>1, <1>2, <1>3
    <3>3. up \notin S
      BY <2>2, <2>4, <3>1, <3>2
    <3> QED
      BY <3>1, <3>3, <1>7
  <2>5. CASE k # ph
    <3>1. k \in S /\ k \in DOMAIN nodes \ {ph}
      BY <2>1, <2>5
    <3>2. CASE nodes[k].parent = ph
      <4>1. key \notin S
        BY <2>2, <3>2
      <4> QED
        BY <3>1, <3>2, <4>1, <1>8
    <3>3. CASE nodes[k].parent # ph
      <4>1. nodes[k].parent # key
        BY <3>1, <1>1, <1>2, <1>3
      <4>2. nodes[k].parent \notin S
        BY <4>1, <2>2
      <4> QED
        BY <3>1, <3>3, <4>2, <1>8
    <3> QED
      BY <3>2, <3>3
  <2> QED
    BY <2>4, <2>5
<1>14. Sound(n, b) /\ key \in DOMAIN n
  BY <1>5, <1>9, <1>10, <1>11, <1>12, <1>13 DEF Sound
<1> QED
  BY <1>14 DEF n, b

\* A record for a process nobody was seen to fork is a root without children.
LEMMA FreshSound ==
  ASSUME Sound(nodes, by_tgid), NEW key \in ProcKey, key \notin DOMAIN nodes
  PROVE  Sound(Insert(nodes, key, NewNode), Insert(by_tgid, key.tgid, key))
<1> DEFINE n == Insert(nodes, key, NewNode)
           b == Insert(by_tgid, key.tgid, key)
<1>1. /\ Typed(n) /\ DOMAIN n = DOMAIN nodes \cup {key}
      /\ n[key].parent = NoKey /\ n[key].children = {} /\ n[key].exited_at = NotExited
      /\ \A k \in DOMAIN nodes : n[k] = nodes[k]
  <2>1. NewNode.parent = NoKey /\ NewNode.children = {} /\ NewNode.exited_at = NotExited
    BY DEF NewNode
  <2>2. /\ Typed(n) /\ DOMAIN n = DOMAIN nodes \cup {key} /\ n[key] = NewNode
        /\ \A k \in DOMAIN nodes : k # key => n[k] = nodes[k]
    BY NewNodeType DEF Sound, Typed, Insert
  <2> QED
    BY <2>1, <2>2
<1>2. /\ IndexTyped(b) /\ DOMAIN b = DOMAIN by_tgid \cup {key.tgid}
      /\ b[key.tgid] = key
      /\ \A t \in DOMAIN by_tgid : t # key.tgid => b[t] = by_tgid[t]
  BY IndexInsertType DEF Sound
<1> HIDE DEF n, b
<1>3. Links(n)
  BY <1>1 DEF Sound, Links
<1>4. Index(n, b)
  <2>1. ASSUME NEW t \in DOMAIN b
        PROVE  b[t] \in DOMAIN n /\ n[b[t]].exited_at = NotExited
    <3>1. CASE t = key.tgid
      BY <3>1, <1>1, <1>2
    <3>2. CASE t # key.tgid
      <4>1. t \in DOMAIN by_tgid /\ b[t] = by_tgid[t]
        BY <3>2, <2>1, <1>2
      <4>2. by_tgid[t] \in DOMAIN nodes /\ nodes[by_tgid[t]].exited_at = NotExited
        BY <4>1 DEF Sound, Index
      <4> QED
        BY <4>1, <4>2, <1>1
    <3> QED
      BY <3>1, <3>2
  <2> QED
    BY <2>1 DEF Index
<1>5. Rooted(n)
  <2> SUFFICES ASSUME NEW S \in SUBSET DOMAIN n, S # {}
               PROVE  \E k \in S : n[k].parent \notin S
    BY DEF Rooted
  <2>1. CASE key \in S
    <3>1. NoKey \notin S
      BY <1>1, ProcTableAssumption DEF Sound, Typed
    <3> QED
      BY <2>1, <3>1, <1>1
  <2>2. CASE key \notin S
    <3>1. S \in SUBSET DOMAIN nodes
      BY <2>2, <1>1
    <3>2. PICK k \in S : nodes[k].parent \notin S
      BY <3>1 DEF Sound, Rooted
    <3> QED
      BY <3>1, <3>2, <1>1
  <2> QED
    BY <2>1, <2>2
<1>6. Sound(n, b)
  BY <1>1, <1>2, <1>3, <1>4, <1>5 DEF Sound
<1> QED
  BY <1>6 DEF n, b

\* Whatever ensure() finds, the table it returns is sound and has the record.
LEMMA EnsureSound ==
  ASSUME Sound(nodes, by_tgid), NEW key \in ProcKey, ~Resurrects(key)
  PROVE  Sound(EnsuredNodes(key), EnsuredIndex(key)) /\ key \in DOMAIN EnsuredNodes(key)
<1>1. CASE key \in DOMAIN nodes
  BY <1>1 DEF EnsuredNodes, EnsuredIndex
<1>2. CASE Promotes(key)
  <2>1. key \notin DOMAIN nodes
    BY <1>2 DEF Promotes
  <2> QED
    BY <1>2, <2>1, PromotedSound DEF EnsuredNodes, EnsuredIndex
<1>3. CASE key \notin DOMAIN nodes /\ ~Promotes(key)
  <2>1. key \in DOMAIN Insert(nodes, key, NewNode)
    BY DEF Insert
  <2> QED
    BY <1>3, <2>1, FreshSound DEF EnsuredNodes, EnsuredIndex
<1> QED
  BY <1>1, <1>2, <1>3

\* An exec event renames the record only.
LEMMA ExecSound ==
  ASSUME Sound(nodes, by_tgid), NEW key \in ProcKey, ~Resurrects(key),
         NEW comm \in Names, NEW args \in Names, OnExec(key, comm, args)
  PROVE  Sound(nodes', by_tgid')
<1> DEFINE m == EnsuredNodes(key)
<1>1. Sound(m, by_tgid') /\ key \in DOMAIN m
  BY EnsureSound DEF OnExec
<1>2. nodes' = [m EXCEPT ![key].comm = comm, ![key].args = args]
  BY DEF OnExec
<1> HIDE DEF m
<1>3. \A k \in DOMAIN m : m[k] \in ProcNode
  BY <1>1 DEF Sound, Typed
<1>4. DOMAIN nodes' = DOMAIN m /\ nodes' \in [DOMAIN m -> ProcNode]
  BY <1>1, <1>2, <1>3 DEF ProcNode
<1>5. Typed(nodes')
  BY <1>1, <1>4 DEF Sound, Typed
<1>6. SameLinks(nodes', m)
  BY <1>1, <1>2, <1>3 DEF SameLinks, ProcNode
<1> QED
  BY <1>1, <1>5, <1>6, SameLinksSound

\* So does the event of an exec that succeeded.
LEMMA ProcExecSound ==
  ASSUME Sound(nodes, by_tgid), NEW key \in ProcKey, ~Resurrects(key),
         NEW exe \in Names, OnProcExec(key, exe)
  PROVE  Sound(nodes', by_tgid')
<1> DEFINE m == EnsuredNodes(key)
<1>1. Sound(m, by_tgid') /\ key \in DOMAIN m
  BY EnsureSound DEF OnProcExec
<1>2. nodes' = [m EXCEPT ![key].exe = exe]
  BY DEF OnProcExec
<1> HIDE DEF m
<1>3. \A k \in DOMAIN m : m[k] \in ProcNode
  BY <1>1 DEF Sound, Typed
<1>4. DOMAIN nodes' = DOMAIN m /\ nodes' \in [DOMAIN m -> ProcNode]
  BY <1>1, <1>2, <1>3 DEF ProcNode
<1>5. Typed(nodes')
  BY <1>1, <1>4 DEF Sound, Typed
<1>6. SameLinks(nodes', m)
  BY <1>1, <1>2, <1>3 DEF SameLinks, ProcNode
<1> QED
  BY <1>1, <1>5, <1>6, SameLinksSound

--------------------------------------------------------------------------------
(* on_exit(), reap(), and time *)

\* Dropping entries of the index keeps it well-typed.
LEMMA WithoutIndexType ==
  ASSUME NEW b, IndexTyped(b), NEW t
  PROVE  /\ IndexTyped(Without(b, {t})) /\ DOMAIN Without(b, {t}) = DOMAIN b \ {t}
         /\ \A x \in DOMAIN b \ {t} : Without(b, {t})[x] = b[x]
  BY DEF IndexTyped, Without

\* The last exit of a process makes a tombstone, if it finds the record, and the
\* index forgets the tgid whether it does or not.
LEMMA ExitSound ==
  ASSUME Sound(nodes, by_tgid), NEW key \in ProcKey, NEW dead \in BOOLEAN, OnExit(key, dead)
  PROVE  Sound(nodes', by_tgid')
<1>1. CASE ~dead
  BY <1>1 DEF OnExit, tableVars
<1>2. CASE dead
  <2> DEFINE x == ExitTarget(key)
  <2>1. /\ nodes' = IF x \in DOMAIN nodes THEN [nodes EXCEPT ![x].exited_at = 0] ELSE nodes
        /\ by_tgid' = Without(by_tgid, {key.tgid})
    BY <1>2 DEF OnExit
  <2>2. x.tgid = key.tgid
    BY DEF ExitTarget, Placeholder
  <2> HIDE DEF x
  <2>3. \A k \in DOMAIN nodes : nodes[k] \in ProcNode
    BY DEF Sound, Typed
  <2>4. 0 \in NotExited .. Expired
    BY ProcTableAssumption DEF NotExited, Expired
  <2>5. DOMAIN nodes' = DOMAIN nodes /\ nodes' \in [DOMAIN nodes -> ProcNode]
    <3>1. CASE x \in DOMAIN nodes
      <4>1. [nodes[x] EXCEPT !.exited_at = 0] \in ProcNode
        BY <3>1, <2>3, <2>4 DEF ProcNode
      <4>2. nodes' = [nodes EXCEPT ![x] = [nodes[x] EXCEPT !.exited_at = 0]]
        BY <3>1, <2>1
      <4> QED
        BY <4>1, <4>2, <3>1 DEF Sound, Typed
    <3>2. CASE x \notin DOMAIN nodes
      BY <3>2, <2>1 DEF Sound, Typed
    <3> QED
      BY <3>1, <3>2
  <2>6. \A k \in DOMAIN nodes :
          /\ nodes'[k].parent = nodes[k].parent /\ nodes'[k].children = nodes[k].children
          /\ k # x => nodes'[k].exited_at = nodes[k].exited_at
    BY <2>1, <2>3 DEF ProcNode
  <2>7. Typed(nodes')
    BY <2>5 DEF Sound, Typed
  <2>8. /\ IndexTyped(by_tgid') /\ DOMAIN by_tgid' = DOMAIN by_tgid \ {key.tgid}
        /\ \A t \in DOMAIN by_tgid' : by_tgid'[t] = by_tgid[t]
    BY <2>1, WithoutIndexType DEF Sound
  <2>9. Links(nodes')
    BY <2>5, <2>6 DEF Sound, Links
  <2>10. Rooted(nodes')
    BY <2>5, <2>6 DEF Sound, Rooted
  <2>11. Index(nodes', by_tgid')
    <3>1. ASSUME NEW t \in DOMAIN by_tgid'
          PROVE  by_tgid'[t] \in DOMAIN nodes' /\ nodes'[by_tgid'[t]].exited_at = NotExited
      <4>1. t \in DOMAIN by_tgid /\ t # key.tgid /\ by_tgid'[t] = by_tgid[t]
        BY <2>8
      <4>2. by_tgid[t] \in DOMAIN nodes /\ nodes[by_tgid[t]].exited_at = NotExited
        BY <4>1 DEF Sound, Index
      <4>3. by_tgid[t] # x
        BY <4>1, <2>2 DEF Sound, IndexTyped
      <4> QED
        BY <4>1, <4>2, <4>3, <2>5, <2>6
    <3> QED
      BY <3>1 DEF Index
  <2> QED
    BY <2>7, <2>8, <2>9, <2>10, <2>11 DEF Sound
<1> QED
  BY <1>1, <1>2

\* reap() takes leaves only, and each from its parent's children as well.
LEMMA ReapSound ==
  ASSUME Sound(nodes, by_tgid), Reap
  PROVE  Sound(nodes', by_tgid')
<1>1. DOMAIN nodes' = DOMAIN nodes \ Reapable /\ by_tgid' = by_tgid
  BY DEF Reap
<1>2. \A k \in DOMAIN nodes : nodes[k] \in ProcNode
  BY DEF Sound, Typed
<1>3. \A k \in DOMAIN nodes' :
        /\ nodes'[k] \in ProcNode
        /\ nodes'[k].parent = nodes[k].parent
        /\ nodes'[k].exited_at = nodes[k].exited_at
        /\ nodes'[k].children = nodes[k].children \ {d \in Reapable : nodes[d].parent = k}
  <2> TAKE k \in DOMAIN nodes'
  <2> DEFINE gone == {d \in Reapable : nodes[d].parent = k}
  <2>1. nodes'[k] = [nodes[k] EXCEPT !.children = @ \ gone]
    BY <1>1 DEF Reap
  <2> HIDE DEF gone
  <2>2. /\ nodes'[k] \in ProcNode
        /\ nodes'[k].parent = nodes[k].parent
        /\ nodes'[k].exited_at = nodes[k].exited_at
        /\ nodes'[k].children = nodes[k].children \ gone
    BY <1>1, <1>2, <2>1 DEF ProcNode
  <2> QED
    BY <2>2 DEF gone
<1>4. Typed(nodes')
  <2>1. nodes' = [k \in DOMAIN nodes' |-> nodes'[k]]
    BY DEF Reap
  <2> QED
    BY <1>1, <1>3, <2>1 DEF Sound, Typed
<1>5. Links(nodes')
  <2>1. ASSUME NEW k \in DOMAIN nodes', nodes'[k].parent # NoKey
        PROVE  nodes'[k].parent \in DOMAIN nodes' /\ k \in nodes'[nodes'[k].parent].children
    <3>1. /\ k \in DOMAIN nodes /\ k \notin Reapable /\ nodes[k].parent # NoKey
          /\ nodes'[k].parent = nodes[k].parent
      BY <2>1, <1>1, <1>3
    <3>2. nodes[k].parent \in DOMAIN nodes /\ k \in nodes[nodes[k].parent].children
      BY <3>1 DEF Sound, Links
    <3>3. nodes[k].parent \notin Reapable
      BY <3>2 DEF Reapable
    <3> QED
      BY <3>1, <3>2, <3>3, <1>1, <1>3
  <2>2. ASSUME NEW k \in DOMAIN nodes', NEW c \in nodes'[k].children
        PROVE  c \in DOMAIN nodes' /\ nodes'[c].parent = k
    <3>1. c \in nodes[k].children /\ ~(c \in Reapable /\ nodes[c].parent = k)
      BY <2>2, <1>3
    <3>2. c \in DOMAIN nodes /\ nodes[c].parent = k
      BY <3>1, <1>1 DEF Sound, Links
    <3> QED
      BY <3>1, <3>2, <1>1, <1>3
  <2> QED
    BY <2>1, <2>2 DEF Links
<1>6. Index(nodes', by_tgid')
  <2>1. ASSUME NEW t \in DOMAIN by_tgid
        PROVE  by_tgid[t] \in DOMAIN nodes' /\ nodes'[by_tgid[t]].exited_at = NotExited
    <3>1. by_tgid[t] \in DOMAIN nodes /\ nodes[by_tgid[t]].exited_at = NotExited
      BY DEF Sound, Index
    <3>2. by_tgid[t] \notin Reapable
      BY <3>1, ProcTableAssumption DEF Reapable, NotExited
    <3> QED
      BY <3>1, <3>2, <1>1, <1>3
  <2> QED
    BY <1>1, <2>1 DEF Index
<1>7. Rooted(nodes')
  BY <1>1, <1>3 DEF Sound, Rooted
<1> QED
  BY <1>1, <1>4, <1>5, <1>6, <1>7 DEF Sound

\* Time only makes tombstones older.
LEMMA ElapseSound ==
  ASSUME Sound(nodes, by_tgid), Elapse
  PROVE  Sound(nodes', by_tgid')
<1>1. DOMAIN nodes' = DOMAIN nodes /\ by_tgid' = by_tgid
  BY DEF Elapse
<1>2. \A k \in DOMAIN nodes :
        /\ nodes'[k] \in ProcNode
        /\ nodes'[k].parent = nodes[k].parent
        /\ nodes'[k].children = nodes[k].children
        /\ nodes[k].exited_at = NotExited <=> nodes'[k].exited_at = NotExited
  <2> TAKE k \in DOMAIN nodes
  <2> DEFINE age == nodes[k].exited_at
             older == IF age \in 0 .. Grace THEN age + 1 ELSE age
  <2>1. nodes[k] \in ProcNode
    BY DEF Sound, Typed
  <2>2. /\ age \in NotExited .. Expired /\ older \in NotExited .. Expired
        /\ age = NotExited <=> older = NotExited
    BY <2>1, ProcTableAssumption DEF ProcNode, NotExited, Expired
  <2>3. nodes'[k] = [nodes[k] EXCEPT !.exited_at = older]
    BY DEF Elapse
  <2> HIDE DEF older
  <2> QED
    BY <2>1, <2>2, <2>3 DEF ProcNode
<1>3. Typed(nodes')
  <2>1. nodes' = [k \in DOMAIN nodes' |-> nodes'[k]]
    BY DEF Elapse
  <2> QED
    BY <1>1, <1>2, <2>1 DEF Sound, Typed
<1>4. Links(nodes')
  BY <1>1, <1>2 DEF Sound, Links
<1>5. Index(nodes', by_tgid')
  BY <1>1, <1>2 DEF Sound, Index
<1>6. Rooted(nodes')
  BY <1>1, <1>2 DEF Sound, Rooted
<1> QED
  BY <1>1, <1>3, <1>4, <1>5, <1>6 DEF Sound

--------------------------------------------------------------------------------
(* The invariant *)

\* What is proved of every state: the type invariant and the forest.
TableInv == TableTypeOK /\ Forest

\* The invariant, over the table and the index as parameters.
LEMMA InvIsSound == TableInv <=> Sound(nodes, by_tgid)
  BY DEF TableInv, TableTypeOK, Forest, LinksAgree, IndexAgrees, Acyclic,
         Sound, Typed, IndexTyped, Links, Index, Rooted

\* Every disciplined step keeps the table sound.
LEMMA StepSound ==
  ASSUME Sound(nodes, by_tgid), [DisciplinedNext]_tableVars
  PROVE  Sound(nodes', by_tgid')
<1>1. ASSUME NEW p \in Tgids, NEW c \in Tgids, ~Overwrites(c), OnFork(p, c)
      PROVE  Sound(nodes', by_tgid')
  BY <1>1, ForkSound
<1>2. ASSUME NEW k \in ProcKey, NEW comm \in Names, NEW args \in Names,
             ~Resurrects(k), OnExec(k, comm, args)
      PROVE  Sound(nodes', by_tgid')
  BY <1>2, ExecSound
<1>3. ASSUME NEW k \in ProcKey, NEW exe \in Names, ~Resurrects(k), OnProcExec(k, exe)
      PROVE  Sound(nodes', by_tgid')
  BY <1>3, ProcExecSound
<1>4. ASSUME NEW k \in ProcKey, NEW dead \in BOOLEAN, OnExit(k, dead)
      PROVE  Sound(nodes', by_tgid')
  BY <1>4, ExitSound
<1>5. CASE Reap
  BY <1>5, ReapSound
<1>6. CASE Elapse
  BY <1>6, ElapseSound
<1>7. CASE UNCHANGED tableVars
  BY <1>7 DEF tableVars
<1> QED
  BY <1>1, <1>2, <1>3, <1>4, <1>5, <1>6, <1>7 DEF DisciplinedNext

\* The invariant is inductive.
LEMMA InvIsInductive == TableInv /\ [DisciplinedNext]_tableVars => TableInv'
<1> SUFFICES ASSUME TableInv, [DisciplinedNext]_tableVars
             PROVE  TableInv'
  OBVIOUS
<1>1. Sound(nodes', by_tgid')
  BY InvIsSound, StepSound
<1> QED
  BY <1>1 DEF TableInv, TableTypeOK, Forest, LinksAgree, IndexAgrees, Acyclic,
              Sound, Typed, IndexTyped, Links, Index, Rooted

\* A stream of calls that neither overwrites a record in use nor revives a dead
\* one keeps the table a forest: links agree at both ends, the index names
\* living records, and every walk to the root ends.
THEOREM ForestHolds == DisciplinedSpec => [](LinksAgree /\ IndexAgrees /\ Acyclic)
<1>1. TableInit => TableInv
  BY SeededSound, InvIsSound
<1>2. TableInv /\ [DisciplinedNext]_tableVars => TableInv'
  BY InvIsInductive
<1>3. TableInv => LinksAgree /\ IndexAgrees /\ Acyclic
  BY DEF TableInv, Forest
<1> QED
  BY <1>1, <1>2, <1>3, PTL DEF DisciplinedSpec

--------------------------------------------------------------------------------
(* Lineage *)

\* From table m to table n, the records in both keep their tombstone and their
\* parent, or have it renamed from its placeholder.
Kept(n, m) ==
  \A k \in DOMAIN m \cap DOMAIN n :
    /\ m[k].exited_at # NotExited => n[k].exited_at # NotExited
    /\ m[k].parent # NoKey =>
         /\ n[k].parent # NoKey
         /\ n[k].parent = m[k].parent \/ m[k].parent = Placeholder(n[k].parent.tgid)

\* ensure() keeps the lineage: only a promotion touches a record in the table,
\* and only by renaming its parent.
LEMMA EnsureKept ==
  ASSUME Sound(nodes, by_tgid), NEW key \in ProcKey
  PROVE  Kept(EnsuredNodes(key), nodes)
<1>1. CASE key \in DOMAIN nodes
  BY <1>1 DEF EnsuredNodes, Kept
<1>2. CASE Promotes(key)
  <2> DEFINE ph == Placeholder(key.tgid)
             n == Promoted(key)
  <2>1. EnsuredNodes(key) = n /\ key \notin DOMAIN nodes /\ ph \in DOMAIN nodes
    BY <1>2 DEF Promotes, EnsuredNodes
  <2>2. key # NoKey
    BY ProcTableAssumption
  <2> SUFFICES ASSUME NEW k \in DOMAIN nodes \ {ph}
               PROVE  /\ n[k].exited_at = nodes[k].exited_at
                      /\ \/ n[k].parent = nodes[k].parent
                         \/ n[k].parent = key /\ nodes[k].parent = ph
    <3>1. DOMAIN nodes \cap DOMAIN n \subseteq DOMAIN nodes \ {ph}
      BY <2>1 DEF Promoted
    <3> QED
      BY <2>1, <2>2, <3>1 DEF Kept
  <2> DEFINE ch == IF k = nodes[ph].parent THEN (nodes[k].children \ {ph}) \cup {key}
                   ELSE nodes[k].children
             pa == IF k \in nodes[ph].children THEN key ELSE nodes[k].parent
  <2>3. n[k] = [nodes[k] EXCEPT !.children = ch, !.parent = pa]
    BY <2>1 DEF Promoted
  <2>4. nodes[k] \in ProcNode
    BY DEF Sound, Typed
  <2>5. pa = nodes[k].parent \/ (pa = key /\ nodes[k].parent = ph)
    BY <2>1 DEF Sound, Links
  <2> HIDE DEF ch, pa, ph, n
  <2>6. n[k].exited_at = nodes[k].exited_at /\ n[k].parent = pa
    BY <2>3, <2>4 DEF ProcNode
  <2> QED
    BY <2>5, <2>6
<1>3. CASE key \notin DOMAIN nodes /\ ~Promotes(key)
  BY <1>3 DEF EnsuredNodes, Insert, Kept
<1> QED
  BY <1>1, <1>2, <1>3

\* Every disciplined step keeps the lineage.
LEMMA StepKept ==
  ASSUME Sound(nodes, by_tgid), [DisciplinedNext]_tableVars
  PROVE  Kept(nodes', nodes)
<1>1. \A k \in DOMAIN nodes : nodes[k] \in ProcNode
  BY DEF Sound, Typed
<1>2. ASSUME NEW p \in Tgids, NEW c \in Tgids, ~Overwrites(c), OnFork(p, c)
      PROVE  Kept(nodes', nodes)
  <2> DEFINE pk == Newest(p)
             ck == Placeholder(c)
             adopted == Adopt(pk, ck)
  <2>1. ck \notin DOMAIN nodes /\ nodes' = Insert(adopted, ck, ForkedNode(pk))
    BY <1>2 DEF Overwrites, OnFork
  <2>2. \A k \in DOMAIN nodes :
          /\ k \in DOMAIN adopted
          /\ adopted[k].parent = nodes[k].parent
          /\ adopted[k].exited_at = nodes[k].exited_at
    BY <1>1 DEF Adopt, ProcNode
  <2> HIDE DEF ck, adopted
  <2>3. \A k \in DOMAIN nodes : nodes'[k] = adopted[k]
    BY <2>1, <2>2 DEF Insert
  <2> QED
    BY <2>2, <2>3 DEF Kept
<1>3. ASSUME NEW key \in ProcKey, NEW comm \in Names, NEW args \in Names,
             ~Resurrects(key), OnExec(key, comm, args)
      PROVE  Kept(nodes', nodes)
  <2> DEFINE m == EnsuredNodes(key)
  <2>1. nodes' = [m EXCEPT ![key].comm = comm, ![key].args = args]
    BY <1>3 DEF OnExec
  <2>2. Sound(m, EnsuredIndex(key)) /\ Kept(m, nodes)
    BY <1>3, EnsureSound, EnsureKept
  <2> HIDE DEF m
  <2>3. DOMAIN nodes' = DOMAIN m /\ \A k \in DOMAIN m : m[k] \in ProcNode
    BY <2>1, <2>2 DEF Sound, Typed
  <2>4. \A k \in DOMAIN m : nodes'[k].parent = m[k].parent /\ nodes'[k].exited_at = m[k].exited_at
    BY <2>1, <2>3 DEF ProcNode
  <2> QED
    BY <2>2, <2>3, <2>4 DEF Kept
<1>4. ASSUME NEW key \in ProcKey, NEW exe \in Names, ~Resurrects(key), OnProcExec(key, exe)
      PROVE  Kept(nodes', nodes)
  <2> DEFINE m == EnsuredNodes(key)
  <2>1. nodes' = [m EXCEPT ![key].exe = exe]
    BY <1>4 DEF OnProcExec
  <2>2. Sound(m, EnsuredIndex(key)) /\ Kept(m, nodes)
    BY <1>4, EnsureSound, EnsureKept
  <2> HIDE DEF m
  <2>3. DOMAIN nodes' = DOMAIN m /\ \A k \in DOMAIN m : m[k] \in ProcNode
    BY <2>1, <2>2 DEF Sound, Typed
  <2>4. \A k \in DOMAIN m : nodes'[k].parent = m[k].parent /\ nodes'[k].exited_at = m[k].exited_at
    BY <2>1, <2>3 DEF ProcNode
  <2> QED
    BY <2>2, <2>3, <2>4 DEF Kept
<1>5. ASSUME NEW key \in ProcKey, NEW dead \in BOOLEAN, OnExit(key, dead)
      PROVE  Kept(nodes', nodes)
  <2> DEFINE x == ExitTarget(key)
  <2>1. nodes' = nodes \/ (x \in DOMAIN nodes /\ nodes' = [nodes EXCEPT ![x].exited_at = 0])
    BY <1>5 DEF OnExit, tableVars
  <2> HIDE DEF x
  <2>2. \A k \in DOMAIN nodes :
          /\ nodes'[k].parent = nodes[k].parent
          /\ nodes'[k].exited_at = nodes[k].exited_at \/ nodes'[k].exited_at = 0
    BY <1>1, <2>1 DEF ProcNode
  <2> QED
    BY <2>2 DEF Kept, NotExited
<1>6. CASE Reap
  <2>1. \A k \in DOMAIN nodes' : nodes'[k].parent = nodes[k].parent
                                   /\ nodes'[k].exited_at = nodes[k].exited_at
    BY <1>1, <1>6 DEF Reap, ProcNode
  <2> QED
    BY <2>1 DEF Kept
<1>7. CASE Elapse
  <2>1. \A k \in DOMAIN nodes :
          /\ nodes'[k].parent = nodes[k].parent
          /\ nodes'[k].exited_at = IF nodes[k].exited_at \in 0 .. Grace
                                   THEN nodes[k].exited_at + 1 ELSE nodes[k].exited_at
    BY <1>1, <1>7 DEF Elapse, ProcNode
  <2> QED
    BY <2>1, ProcTableAssumption DEF Kept, NotExited
<1>8. CASE UNCHANGED tableVars
  BY <1>8 DEF tableVars, Kept
<1> QED
  BY <1>2, <1>3, <1>4, <1>5, <1>6, <1>7, <1>8 DEF DisciplinedNext

\* In a disciplined stream no record loses its parent: dead parents are kept
\* while they have children, and a tombstone stays one.
THEOREM LineageIsKept == DisciplinedSpec => LineageKept
<1>1. TableInit => TableInv
  BY SeededSound, InvIsSound
<1>2. TableInv /\ [DisciplinedNext]_tableVars => TableInv'
  BY InvIsInductive
<1>3. TableInv /\ [DisciplinedNext]_tableVars => [KeepsLineage]_tableVars
  <2> SUFFICES ASSUME TableInv, [DisciplinedNext]_tableVars
               PROVE  KeepsLineage
    OBVIOUS
  <2>1. Sound(nodes, by_tgid)
    BY InvIsSound
  <2>2. Links(nodes') /\ Kept(nodes', nodes)
    BY <2>1, StepSound, StepKept DEF Sound
  <2> QED
    BY <2>2 DEF KeepsLineage, Kept, Links
<1> QED
  BY <1>1, <1>2, <1>3, PTL DEF DisciplinedSpec, LineageKept

--------------------------------------------------------------------------------
(* Types, under any stream of calls *)

\* ensure() returns a well-typed table and index, placeholder in use or not.
LEMMA EnsureType ==
  ASSUME Typed(nodes), IndexTyped(by_tgid), NEW key \in ProcKey
  PROVE  /\ Typed(EnsuredNodes(key)) /\ IndexTyped(EnsuredIndex(key))
         /\ key \in DOMAIN EnsuredNodes(key)
<1>1. IndexTyped(EnsuredIndex(key))
  BY IndexInsertType DEF EnsuredIndex
<1>2. \A k \in DOMAIN nodes : nodes[k] \in ProcNode
  BY DEF Typed
<1>3. CASE key \in DOMAIN nodes
  BY <1>1, <1>3 DEF EnsuredNodes
<1>4. CASE Promotes(key)
  <2> DEFINE ph == Placeholder(key.tgid)
             n == Promoted(key)
  <2>1. EnsuredNodes(key) = n /\ key \notin DOMAIN nodes /\ ph \in DOMAIN nodes
    BY <1>4 DEF Promotes, EnsuredNodes
  <2>2. /\ DOMAIN n = (DOMAIN nodes \ {ph}) \cup {key} /\ n[key] = nodes[ph]
        /\ n = [k \in DOMAIN n |-> n[k]]
    BY <2>1 DEF Promoted
  <2>3. ASSUME NEW k \in DOMAIN nodes \ {ph}
        PROVE  n[k] \in ProcNode
    <3> DEFINE ch == IF k = nodes[ph].parent THEN (nodes[k].children \ {ph}) \cup {key}
                     ELSE nodes[k].children
               pa == IF k \in nodes[ph].children THEN key ELSE nodes[k].parent
    <3>1. n[k] = [nodes[k] EXCEPT !.children = ch, !.parent = pa]
      BY <2>1 DEF Promoted
    <3>2. ch \in SUBSET ProcKey /\ pa \in ProcKey \cup {NoKey}
      BY <1>2 DEF ProcNode
    <3> HIDE DEF ch, pa, n
    <3> QED
      BY <1>2, <3>1, <3>2 DEF ProcNode
  <2> HIDE DEF n, ph
  <2>4. Typed(n) /\ key \in DOMAIN n
    BY <1>2, <2>1, <2>2, <2>3 DEF Typed
  <2> QED
    BY <1>1, <2>1, <2>4
<1>5. CASE key \notin DOMAIN nodes /\ ~Promotes(key)
  <2>1. Typed(Insert(nodes, key, NewNode)) /\ key \in DOMAIN Insert(nodes, key, NewNode)
    BY NewNodeType DEF Typed, Insert
  <2> QED
    BY <1>1, <1>5, <2>1 DEF EnsuredNodes
<1> QED
  BY <1>3, <1>4, <1>5

\* Every step, disciplined or not, keeps the table and the index well-typed.
LEMMA StepType ==
  ASSUME Typed(nodes), IndexTyped(by_tgid), [TableNext]_tableVars
  PROVE  Typed(nodes') /\ IndexTyped(by_tgid')
<1>1. \A k \in DOMAIN nodes : nodes[k] \in ProcNode
  BY DEF Typed
<1>2. ASSUME NEW p \in Tgids, NEW c \in Tgids, OnFork(p, c)
      PROVE  Typed(nodes') /\ IndexTyped(by_tgid')
  <2> DEFINE pk == Newest(p)
             ck == Placeholder(c)
             adopted == Adopt(pk, ck)
             v == ForkedNode(pk)
  <2>1. ck \in ProcKey /\ ck.tgid = c
    BY PlaceholderType
  <2>2. pk \in ProcKey \cup {NoKey}
    BY DEF Newest, IndexTyped
  <2>3. nodes' = Insert(adopted, ck, v) /\ by_tgid' = Insert(by_tgid, ck.tgid, ck)
    BY <1>2, <2>1 DEF OnFork
  <2>4. Typed(adopted)
    <3>1. CASE pk \in DOMAIN nodes
      <4>1. [nodes[pk] EXCEPT !.children = @ \cup {ck}] \in ProcNode
        BY <1>1, <2>1, <3>1 DEF ProcNode
      <4>2. adopted = [nodes EXCEPT ![pk] = [nodes[pk] EXCEPT !.children = @ \cup {ck}]]
        BY <3>1 DEF Adopt
      <4> QED
        BY <3>1, <4>1, <4>2 DEF Typed
    <3>2. CASE pk \notin DOMAIN nodes
      BY <3>2 DEF Adopt
    <3> QED
      BY <3>1, <3>2
  <2>5. v \in ProcNode
    <3>1. pk \in DOMAIN nodes =>
            nodes[pk].exe \in Names \cup {NoName} /\ nodes[pk].comm \in Names \cup {NoName}
      BY <1>1 DEF ProcNode
    <3> QED
      BY <2>2, <3>1, NewNodeType DEF ForkedNode, NewNode, ProcNode
  <2> HIDE DEF adopted, v, ck
  <2>6. Typed(Insert(adopted, ck, v))
    BY <2>1, <2>4, <2>5 DEF Typed, Insert
  <2> QED
    BY <2>1, <2>3, <2>6, IndexInsertType
<1>3. ASSUME NEW key \in ProcKey, NEW comm \in Names, NEW args \in Names, OnExec(key, comm, args)
      PROVE  Typed(nodes') /\ IndexTyped(by_tgid')
  <2> DEFINE m == EnsuredNodes(key)
  <2>1. Typed(m) /\ IndexTyped(by_tgid') /\ nodes' = [m EXCEPT ![key].comm = comm, ![key].args = args]
    BY <1>3, EnsureType DEF OnExec
  <2> HIDE DEF m
  <2>2. \A k \in DOMAIN m : m[k] \in ProcNode
    BY <2>1 DEF Typed
  <2>3. nodes' \in [DOMAIN m -> ProcNode]
    BY <2>1, <2>2 DEF ProcNode
  <2> QED
    BY <2>1, <2>3 DEF Typed
<1>4. ASSUME NEW key \in ProcKey, NEW exe \in Names, OnProcExec(key, exe)
      PROVE  Typed(nodes') /\ IndexTyped(by_tgid')
  <2> DEFINE m == EnsuredNodes(key)
  <2>1. Typed(m) /\ IndexTyped(by_tgid') /\ nodes' = [m EXCEPT ![key].exe = exe]
    BY <1>4, EnsureType DEF OnProcExec
  <2> HIDE DEF m
  <2>2. \A k \in DOMAIN m : m[k] \in ProcNode
    BY <2>1 DEF Typed
  <2>3. nodes' \in [DOMAIN m -> ProcNode]
    BY <2>1, <2>2 DEF ProcNode
  <2> QED
    BY <2>1, <2>3 DEF Typed
<1>5. ASSUME NEW key \in ProcKey, NEW dead \in BOOLEAN, OnExit(key, dead)
      PROVE  Typed(nodes') /\ IndexTyped(by_tgid')
  <2>1. CASE ~dead
    BY <1>5, <2>1 DEF OnExit, tableVars
  <2>2. CASE dead
    <3> DEFINE x == ExitTarget(key)
    <3>1. /\ nodes' = IF x \in DOMAIN nodes THEN [nodes EXCEPT ![x].exited_at = 0] ELSE nodes
          /\ by_tgid' = Without(by_tgid, {key.tgid})
      BY <1>5, <2>2 DEF OnExit
    <3> HIDE DEF x
    <3>2. 0 \in NotExited .. Expired
      BY ProcTableAssumption DEF NotExited, Expired
    <3>3. IndexTyped(by_tgid')
      BY <3>1, WithoutIndexType
    <3>4. CASE x \in DOMAIN nodes
      <4>1. [nodes[x] EXCEPT !.exited_at = 0] \in ProcNode
        BY <1>1, <3>2, <3>4 DEF ProcNode
      <4>2. nodes' = [nodes EXCEPT ![x] = [nodes[x] EXCEPT !.exited_at = 0]]
        BY <3>1, <3>4
      <4> QED
        BY <3>3, <3>4, <4>1, <4>2 DEF Typed
    <3>5. CASE x \notin DOMAIN nodes
      BY <3>1, <3>3, <3>5
    <3> QED
      BY <3>4, <3>5
  <2> QED
    BY <2>1, <2>2
<1>6. CASE Reap
  <2>1. \A k \in DOMAIN nodes \ Reapable : nodes'[k] \in ProcNode
    <3> TAKE k \in DOMAIN nodes \ Reapable
    <3> DEFINE left == nodes[k].children \ {d \in Reapable : nodes[d].parent = k}
    <3>1. nodes'[k] = [nodes[k] EXCEPT !.children = left]
      BY <1>6 DEF Reap
    <3>2. left \in SUBSET ProcKey
      BY <1>1 DEF ProcNode
    <3> HIDE DEF left
    <3> QED
      BY <1>1, <3>1, <3>2 DEF ProcNode
  <2>2. /\ DOMAIN nodes' = DOMAIN nodes \ Reapable /\ by_tgid' = by_tgid
        /\ nodes' = [k \in DOMAIN nodes' |-> nodes'[k]]
    BY <1>6 DEF Reap
  <2> QED
    BY <2>1, <2>2 DEF Typed
<1>7. CASE Elapse
  <2>1. \A k \in DOMAIN nodes : nodes'[k] \in ProcNode
    <3> TAKE k \in DOMAIN nodes
    <3> DEFINE age == nodes[k].exited_at
               older == IF age \in 0 .. Grace THEN age + 1 ELSE age
    <3>1. older \in NotExited .. Expired
      BY <1>1, ProcTableAssumption DEF ProcNode, NotExited, Expired
    <3>2. nodes'[k] = [nodes[k] EXCEPT !.exited_at = older]
      BY <1>7 DEF Elapse
    <3> HIDE DEF older
    <3> QED
      BY <1>1, <3>1, <3>2 DEF ProcNode
  <2>2. /\ DOMAIN nodes' = DOMAIN nodes /\ by_tgid' = by_tgid
        /\ nodes' = [k \in DOMAIN nodes' |-> nodes'[k]]
    BY <1>7 DEF Elapse
  <2> QED
    BY <2>1, <2>2 DEF Typed
<1>8. CASE UNCHANGED tableVars
  BY <1>8 DEF tableVars
<1> QED
  BY <1>2, <1>3, <1>4, <1>5, <1>6, <1>7, <1>8 DEF TableNext

\* The table is well-typed after any stream of calls whatever: pids reused or
\* not, events lost, exits before forks.
THEOREM TypeCorrect == TableSpec => []TableTypeOK
<1>1. TableInit => TableTypeOK
  BY SeededSound DEF Sound, TableTypeOK, Typed, IndexTyped
<1>2. TableTypeOK /\ [TableNext]_tableVars => TableTypeOK'
  <2> SUFFICES ASSUME TableTypeOK, [TableNext]_tableVars
               PROVE  TableTypeOK'
    OBVIOUS
  <2>1. Typed(nodes) /\ IndexTyped(by_tgid)
    BY DEF TableTypeOK, Typed, IndexTyped
  <2>2. Typed(nodes') /\ IndexTyped(by_tgid')
    BY <2>1, StepType
  <2> QED
    BY <2>2 DEF TableTypeOK, Typed, IndexTyped
<1> QED
  BY <1>1, <1>2, PTL DEF TableSpec

--------------------------------------------------------------------------------
(* The walk up the table *)

Keys == ProcKey \cup {NoKey}

\* ancestry() starts at the parent of the record its key resolves to and goes from
\* parent to parent.
LEMMA AncestryWalks ==
  ASSUME Typed(nodes), NEW key
  PROVE  /\ Ancestry(key) \in [Nat -> Keys]
         /\ Ancestry(key)[0] = ParentOf(Resolve(key))
         /\ \A i \in Nat \ {0} : Ancestry(key)[i] = ParentOf(Ancestry(key)[i - 1])
<1> DEFINE start == ParentOf(Resolve(key))
           up == [k \in Keys |-> ParentOf(k)]
           Equation(g) == g = [i \in Nat |-> IF i = 0 THEN start ELSE ParentOf(g[i - 1])]
<1>1. \A k : ParentOf(k) \in Keys
  BY DEF Typed, ProcNode, ParentOf, Keys
<1>2. start \in Keys /\ up \in [Keys -> Keys]
  BY <1>1
<1>3. \E g : Equation(g)
  <2> HIDE DEF start, up
  <2>1. PICK f \in [Nat -> Keys] : f[0] = start /\ \A i \in Nat \ {0} : f[i] = up[f[i - 1]]
    BY <1>2, Walk
  <2>2. \A i \in Nat \ {0} : f[i - 1] \in Keys /\ up[f[i - 1]] = ParentOf(f[i - 1])
    BY DEF up
  <2>3. Equation(f)
    BY <2>1, <2>2
  <2> QED
    BY <2>3
<1> DEFINE walk == CHOOSE g : Equation(g)
<1>4. Equation(walk)
  <2> HIDE DEF Equation
  <2> QED
    BY <1>3
<1>5. Ancestry(key) = walk
  BY DEF Ancestry
<1> HIDE DEF walk, start
<1>6. walk \in [Nat -> Keys]
  BY <1>1, <1>2, <1>4
<1>7. walk[0] = start /\ \A i \in Nat \ {0} : walk[i] = ParentOf(walk[i - 1])
  BY <1>4
<1> QED
  BY <1>5, <1>6, <1>7 DEF start

\* The loop of ancestry(), which has no bound of its own, comes to a cursor that
\* is not in the table, whatever key it is called with.
THEOREM AncestryReturns ==
  DisciplinedSpec => [](\A key \in ProcKey : \E i \in Nat : Ancestry(key)[i] \notin DOMAIN nodes)
<1>1. TableInit => TableInv
  BY SeededSound, InvIsSound
<1>2. TableInv /\ [DisciplinedNext]_tableVars => TableInv'
  BY InvIsInductive
<1>3. TableInv => \A key \in ProcKey : \E i \in Nat : Ancestry(key)[i] \notin DOMAIN nodes
  <2> SUFFICES ASSUME TableInv, NEW key \in ProcKey,
                      \A i \in Nat : Ancestry(key)[i] \in DOMAIN nodes
               PROVE  FALSE
    OBVIOUS
  <2>1. Typed(nodes) /\ Rooted(nodes)
    BY InvIsSound DEF Sound
  <2> DEFINE cur == Ancestry(key)
             S == {cur[i] : i \in Nat}
  <2>2. \A i \in Nat \ {0} : cur[i] = ParentOf(cur[i - 1])
    BY <2>1, AncestryWalks
  <2> HIDE DEF cur
  <2>3. S \in SUBSET DOMAIN nodes /\ S # {}
    BY DEF cur
  <2>4. PICK k \in S : nodes[k].parent \notin S
    BY <2>1, <2>3 DEF Rooted
  <2>5. PICK i \in Nat : k = cur[i]
    BY <2>4
  <2>6. i + 1 \in Nat \ {0} /\ (i + 1) - 1 = i
    BY <2>5
  <2>7. cur[i + 1] = nodes[k].parent
    BY <2>2, <2>3, <2>5, <2>6 DEF ParentOf
  <2> QED
    BY <2>4, <2>6, <2>7
<1> QED
  BY <1>1, <1>2, <1>3, PTL DEF DisciplinedSpec

================================================================================
