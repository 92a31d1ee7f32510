------------------------------- MODULE ProcTable -------------------------------
(******************************************************************************)
(* The userspace process table of nazar-agent (src/nazar-agent/src/           *)
(* proc_table.rs): a map of process records keyed (tgid, start_time), the     *)
(* parent/children links between them, and an index from a tgid to the newest *)
(* record of that tgid.                                                       *)
(*                                                                            *)
(* The operations are the handlers the event loop calls, one action each.     *)
(* TableNext lets any stream of calls reach them; DisciplinedNext leaves out  *)
(* the two that would cost the table its shape.  Module Sensor drives the     *)
(* same operations from a kernel and checks which kernels are disciplined.    *)
(*                                                                            *)
(* Abstractions.  exe, comm and (uid, argv) are opaque names; uid and argv    *)
(* are one field, "args", because on_exec writes both and nothing else does.  *)
(* exited_at is kept as the time elapsed since the exit, saturated just above *)
(* the grace period: reap only asks whether it is over.  pending_parent is    *)
(* left out: nothing ever inserts into it, so ensure() never finds an entry.  *)
(******************************************************************************)
EXTENDS Integers, FiniteSets

CONSTANTS
  Tgids,       \* process ids
  StartTimes,  \* the non-zero values of task_struct.start_boottime
  Names,       \* executable paths, command names and argument vectors
  NoName,      \* the empty string / the empty argument vector
  NoKey,       \* Option::None for a ProcKey
  Grace,       \* reap()'s grace period, in units of Elapse
  Snapshot     \* what procfs::snapshot() read at startup, by tgid

ProcKey == [tgid : Tgids, start_time : StartTimes \cup {0}]

ProcInfo ==
  [ppid : Nat, start_time : StartTimes \cup {0},
   comm : Names \cup {NoName}, exe : Names \cup {NoName}, args : Names \cup {NoName}]

\* No set of seeded processes is closed under "parent": /proc reports a tree.
SnapshotIsATree ==
  \A S \in SUBSET (DOMAIN Snapshot) :
    S # {} => \E t \in S : Snapshot[t].ppid \notin S

ASSUME ProcTableAssumption ==
  /\ Tgids \subseteq Nat \ {0}
  /\ StartTimes \subseteq Nat \ {0}
  /\ NoKey \notin ProcKey
  /\ Grace \in Nat
  /\ DOMAIN Snapshot \subseteq Tgids
  /\ \A t \in DOMAIN Snapshot : Snapshot[t] \in ProcInfo
  /\ SnapshotIsATree

VARIABLES
  nodes,   \* HashMap<ProcKey, ProcNode>
  by_tgid  \* HashMap<u32, ProcKey>: the newest record of each tgid

tableVars == <<nodes, by_tgid>>

NotExited == -1              \* exited_at = None
Expired == Grace + 1         \* any elapsed time above the grace period

ProcNode ==
  [parent : ProcKey \cup {NoKey}, children : SUBSET ProcKey,
   exe : Names \cup {NoName}, comm : Names \cup {NoName}, args : Names \cup {NoName},
   exited_at : NotExited .. Expired]

TableTypeOK ==
  /\ DOMAIN nodes \subseteq ProcKey
  /\ nodes \in [DOMAIN nodes -> ProcNode]
  /\ DOMAIN by_tgid \subseteq Tgids
  /\ by_tgid \in [DOMAIN by_tgid -> ProcKey]
  /\ \A t \in DOMAIN by_tgid : by_tgid[t].tgid = t

--------------------------------------------------------------------------------
(* Maps and links *)

Insert(f, k, v) == [x \in DOMAIN f \cup {k} |-> IF x = k THEN v ELSE f[x]]
Without(f, S) == [x \in DOMAIN f \ S |-> f[x]]

\* The key a child gets at fork time, before its start_time is known.
Placeholder(t) == [tgid |-> t, start_time |-> 0]

\* ProcNode::new
NewNode ==
  [parent |-> NoKey, children |-> {}, exe |-> NoName, comm |-> NoName,
   args |-> NoName, exited_at |-> NotExited]

\* by_tgid.get(t)
Newest(t) == IF t \in DOMAIN by_tgid THEN by_tgid[t] ELSE NoKey

\* nodes.get(&key), else the newest record of the same tgid; NoKey if neither.
Resolve(key) ==
  IF key \in DOMAIN nodes THEN key
  ELSE IF Newest(key.tgid) \in DOMAIN nodes THEN Newest(key.tgid) ELSE NoKey

\* parent.children.insert(c), if parent p is in the table.
Adopt(p, c) ==
  IF p \in DOMAIN nodes THEN [nodes EXCEPT ![p].children = @ \cup {c}] ELSE nodes

--------------------------------------------------------------------------------
(* seed() *)

SeedKeyIn(procs, t) == [tgid |-> t, start_time |-> procs[t].start_time]

\* The nodes made of what procfs::snapshot() returned, a map by tgid.
SeededFrom(procs) ==
  LET child(k) == {c \in DOMAIN procs : procs[c].ppid = k.tgid}
      parent(t) == IF procs[t].ppid \in DOMAIN procs
                   THEN SeedKeyIn(procs, procs[t].ppid) ELSE NoKey
  IN [k \in {SeedKeyIn(procs, t) : t \in DOMAIN procs} |->
        [parent |-> parent(k.tgid),
         children |-> {SeedKeyIn(procs, c) : c \in child(k)},
         exe |-> procs[k.tgid].exe, comm |-> procs[k.tgid].comm,
         args |-> procs[k.tgid].args, exited_at |-> NotExited]]

IndexFrom(procs) == [t \in DOMAIN procs |-> SeedKeyIn(procs, t)]

SeedKey(t) == SeedKeyIn(Snapshot, t)

TableInit ==
  /\ nodes = SeededFrom(Snapshot)
  /\ by_tgid = IndexFrom(Snapshot)

--------------------------------------------------------------------------------
(* on_fork() *)

\* Mutant: the child does not inherit its parent's image.
ForkedWithoutExe(p) ==
  [NewNode EXCEPT !.parent = p, !.comm = IF p \in DOMAIN nodes THEN nodes[p].comm ELSE @]

\* The child's record: its parent is the newest record of the forking tgid,
\* whose command and image it inherits; uid and argv are not inherited.
ForkedNode(p) ==
  [NewNode EXCEPT !.parent = p,
                  !.exe  = IF p \in DOMAIN nodes THEN nodes[p].exe ELSE @,
                  !.comm = IF p \in DOMAIN nodes THEN nodes[p].comm ELSE @]

\* Mutant: the index is keyed by the wrong process.
OnForkIndexesParent(parent_tgid, child_tgid) ==
  LET p == Newest(parent_tgid)
      c == Placeholder(child_tgid)
  IN /\ nodes' = Insert(Adopt(p, c), c, ForkedNode(p))
     /\ by_tgid' = Insert(by_tgid, parent_tgid, c)

OnFork(parent_tgid, child_tgid) ==
  LET p == Newest(parent_tgid)
      c == Placeholder(child_tgid)
  IN /\ nodes' = Insert(Adopt(p, c), c, ForkedNode(p))
     /\ by_tgid' = Insert(by_tgid, child_tgid, c)

--------------------------------------------------------------------------------
(* ensure(), on_exec(), on_proc_exec() *)

\* A first event with a real start_time finds the placeholder left by on_fork.
Promotes(key) ==
  /\ key \notin DOMAIN nodes
  /\ key.start_time # 0
  /\ Placeholder(key.tgid) \in DOMAIN nodes

\* Mutant: the children of a promoted record still name the placeholder.
PromotedAlone(key) ==
  LET ph == Placeholder(key.tgid)
      node == nodes[ph]
  IN [k \in (DOMAIN nodes \ {ph}) \cup {key} |->
        IF k = key THEN node
        ELSE [nodes[k] EXCEPT
                !.children = IF k = node.parent THEN (@ \ {ph}) \cup {key} ELSE @]]

\* The table with the placeholder's record moved to its real key: the parent's
\* child set and every child's parent link follow.
Promoted(key) ==
  LET ph == Placeholder(key.tgid)
      node == nodes[ph]
  IN [k \in (DOMAIN nodes \ {ph}) \cup {key} |->
        IF k = key THEN node
        ELSE [nodes[k] EXCEPT
                !.children = IF k = node.parent THEN (@ \ {ph}) \cup {key} ELSE @,
                !.parent   = IF k \in node.children THEN key ELSE @]]

\* nodes and by_tgid as ensure(key) leaves them.
EnsuredNodes(key) ==
  IF key \in DOMAIN nodes THEN nodes
  ELSE IF Promotes(key) THEN Promoted(key)
  ELSE Insert(nodes, key, NewNode)

EnsuredIndex(key) ==
  IF key \in DOMAIN nodes THEN by_tgid ELSE Insert(by_tgid, key.tgid, key)

OnExec(key, comm, args) ==
  /\ nodes' = [EnsuredNodes(key) EXCEPT ![key].comm = comm, ![key].args = args]
  /\ by_tgid' = EnsuredIndex(key)

OnProcExec(key, exe) ==
  /\ nodes' = [EnsuredNodes(key) EXCEPT ![key].exe = exe]
  /\ by_tgid' = EnsuredIndex(key)

--------------------------------------------------------------------------------
(* on_exit(), reap(), and time *)

\* Mutant: no fallback to the placeholder.
ExitTargetExact(key) == key

\* The record an exit marks: the exact key, else the placeholder of its tgid.
ExitTarget(key) ==
  IF key \in DOMAIN nodes THEN key ELSE Placeholder(key.tgid)

\* Mutants: the index keeps the dead process; every thread's exit counts.
OnExitKeepsIndex(key, group_dead) ==
  /\ nodes' = IF group_dead /\ ExitTarget(key) \in DOMAIN nodes
              THEN [nodes EXCEPT ![ExitTarget(key)].exited_at = 0] ELSE nodes
  /\ UNCHANGED by_tgid

OnExitOfAnyThread(key, group_dead) ==
  /\ nodes' = IF ExitTarget(key) \in DOMAIN nodes
              THEN [nodes EXCEPT ![ExitTarget(key)].exited_at = 0] ELSE nodes
  /\ by_tgid' = Without(by_tgid, {key.tgid})

OnExit(key, group_dead) ==
  IF group_dead
  THEN /\ nodes' = IF ExitTarget(key) \in DOMAIN nodes
                   THEN [nodes EXCEPT ![ExitTarget(key)].exited_at = 0] ELSE nodes
       /\ by_tgid' = Without(by_tgid, {key.tgid})
  ELSE UNCHANGED tableVars

\* Mutant: a tombstone goes even though a child still names it.
ReapableParents == {k \in DOMAIN nodes : nodes[k].exited_at > Grace}

\* A tombstone past its grace period whose children have all gone.
Reapable ==
  {k \in DOMAIN nodes : nodes[k].exited_at > Grace /\ nodes[k].children = {}}

\* Mutant: the parent of a reaped record still lists it.
ReapUnlisted ==
  /\ nodes' = Without(nodes, Reapable)
  /\ UNCHANGED by_tgid

Reap ==
  /\ nodes' = [k \in DOMAIN nodes \ Reapable |->
                 [nodes[k] EXCEPT
                    !.children = @ \ {d \in Reapable : nodes[d].parent = k}]]
  /\ UNCHANGED by_tgid

\* One unit of time passes for every tombstone.
Elapse ==
  /\ nodes' = [k \in DOMAIN nodes |->
                 [nodes[k] EXCEPT
                    !.exited_at = IF @ \in 0 .. Grace THEN @ + 1 ELSE @]]
  /\ UNCHANGED by_tgid

--------------------------------------------------------------------------------
(* ancestry() *)

ParentOf(k) == IF k \in DOMAIN nodes THEN nodes[k].parent ELSE NoKey

\* The cursor of ancestry(key) after i turns of its loop.  The loop pushes a
\* record and goes on while the cursor is in the table; nothing else stops it.
Ancestry(key) ==
  LET cur[i \in Nat] == IF i = 0 THEN ParentOf(Resolve(key)) ELSE ParentOf(cur[i - 1])
  IN cur

--------------------------------------------------------------------------------
(* Any stream of calls, and the disciplined ones *)

TableNext ==
  \/ \E p, c \in Tgids : OnFork(p, c)
  \/ \E k \in ProcKey, comm, args \in Names : OnExec(k, comm, args)
  \/ \E k \in ProcKey, exe \in Names : OnProcExec(k, exe)
  \/ \E k \in ProcKey, dead \in BOOLEAN : OnExit(k, dead)
  \/ Reap
  \/ Elapse

TableSpec == TableInit /\ [][TableNext]_tableVars

\* The fork of c would replace a record that is still in the table.
Overwrites(c) == Placeholder(c) \in DOMAIN nodes

\* The event would move the record of a dead process to a living one's key.
Resurrects(key) == Promotes(key) /\ nodes[Placeholder(key.tgid)].exited_at # NotExited

DisciplinedNext ==
  \/ \E p, c \in Tgids : ~Overwrites(c) /\ OnFork(p, c)
  \/ \E k \in ProcKey, comm, args \in Names : ~Resurrects(k) /\ OnExec(k, comm, args)
  \/ \E k \in ProcKey, exe \in Names : ~Resurrects(k) /\ OnProcExec(k, exe)
  \/ \E k \in ProcKey, dead \in BOOLEAN : OnExit(k, dead)
  \/ Reap
  \/ Elapse

DisciplinedSpec == TableInit /\ [][DisciplinedNext]_tableVars

--------------------------------------------------------------------------------
(* What the table promises *)

\* The two directions of every link agree and no link dangles: the parent a
\* record names is in the table and lists it, and every listed child is in the
\* table and names its parent (on_fork, ensure and reap each update both ends).
LinksAgree ==
  \A k \in DOMAIN nodes :
    /\ nodes[k].parent # NoKey =>
         nodes[k].parent \in DOMAIN nodes /\ k \in nodes[nodes[k].parent].children
    /\ \A c \in nodes[k].children : c \in DOMAIN nodes /\ nodes[c].parent = k

\* The newest record of a tgid is in the table and is not a tombstone, so a
\* fork or a lookup by tgid never lands on a dead or reaped process.
IndexAgrees ==
  \A t \in DOMAIN by_tgid :
    by_tgid[t] \in DOMAIN nodes /\ nodes[by_tgid[t]].exited_at = NotExited

\* No set of records is closed under "parent": the loop of ancestry(), which
\* has no bound of its own, reaches a root from every record.
Acyclic ==
  \A S \in SUBSET DOMAIN nodes : S # {} => \E k \in S : nodes[k].parent \notin S

Forest == LinksAgree /\ IndexAgrees /\ Acyclic

\* What one step leaves of every record it keeps: its parent's record, under the
\* key it had or the real key it was promoted to, and its tombstone.
KeepsLineage ==
  \A k \in DOMAIN nodes \cap DOMAIN nodes' :
    /\ nodes[k].exited_at # NotExited => nodes'[k].exited_at # NotExited
    /\ nodes[k].parent # NoKey =>
         /\ nodes'[k].parent \in DOMAIN nodes'
         /\ \/ nodes'[k].parent = nodes[k].parent
            \/ nodes[k].parent = Placeholder(nodes'[k].parent.tgid)

\* A record keeps its parent for as long as it is in the table: the parent's
\* record is still there after every step, dead or alive, and a tombstone never
\* comes back to life (ensure() relinks the children of a promoted record, and
\* reap() takes no record that still has children).
LineageKept == [][KeepsLineage]_tableVars

================================================================================
