------------------------------- MODULE ExecGuard -------------------------------
(******************************************************************************)
(* The LSM program of nazar-ebpf, try_bprm() (src/nazar-ebpf/src/main.rs       *)
(* 437-520): asked before a file is executed, it puts a record of the path    *)
(* into the ring and denies the execution if it enforces and the path is in   *)
(* EXEC_DENYLIST.  The record's own buffer is the key of the lookup, all 256   *)
(* bytes of it.                                                               *)
(*                                                                            *)
(* A path of 256 bytes or more is cut: Stem gives what the buffer can hold.    *)
(* The bytes behind the path's NUL are what an earlier record left there, or  *)
(* zero.                                                                      *)
(******************************************************************************)
EXTENDS Events

CONSTANTS
  Paths,    \* the paths files are executed by
  Stem,     \* the first 255 bytes of each
  Guarded   \* bound: the CPUs files are executed on

ASSUME ExecGuardAssumption ==
  /\ NoPath \notin Paths
  /\ Guarded \subseteq Cpus
  /\ Stem \in [Paths -> Paths]
  /\ \A p \in Paths : Stem[Stem[p]] = Stem[p]

VARIABLES
  offset,    \* OFFSETS[OFF_BPRM_FILENAME]
  enforce,   \* OFFSETS[CFG_ENFORCE]
  denylist   \* EXEC_DENYLIST

guardVars == <<offset, enforce, denylist>>

Allow == 0
Deny == -1

\* An offset nobody has set: the map is zeroed.
Unknown == 0

Tails == {"zero", "residue"}

Key(path, tail) == [name |-> Stem[path], tail |-> tail]

\* What a verdict rests on: an earlier denial, the list, or nothing, because the path
\* could not be read or the ring was full.
Bases == {"earlier", "list", "unread", "full"}

Returned(path, prev, ret, basis) ==
  [at |-> "returned", path |-> path, prev |-> prev, ret |-> ret, basis |-> basis]

\* The program runs for path after another LSM said prev.  Before it reserves,
\* it passes an earlier denial on, and needs the offset and the path's address.
TryBprm(c, path, prev) ==
  /\ At(c, "idle")
  /\ \/ /\ prev # Allow
        /\ call' = [call EXCEPT ![c] = Returned(path, prev, prev, "earlier")]
        /\ UNCHANGED <<slots, wakeup, stats, drops>>
     \/ /\ prev = Allow  \* no offset, or a read that fails
        /\ call' = [call EXCEPT ![c] = Returned(path, Allow, Allow, "unread")]
        /\ UNCHANGED <<slots, wakeup, stats, drops>>
     \/ prev = Allow /\ offset # Unknown /\ Reserve(c, path)
  /\ UNCHANGED guardVars

\* Mutant: what was behind the NUL stays.
KeyTailKept(tail) == tail

\* The loop over the 256 bytes zeroes those behind what was read.
KeyTail(tail) == "zero"

\* The path is read and looked up, and the record is submitted; or it cannot be
\* read, and is discarded.
Decide(c) ==
  LET path == call[c].path IN
  /\ At(c, "filling")
  /\ path # NoPath
  /\ \/ Commit(c, "discarded", Returned(path, Allow, Allow, "unread"))
     \/ \E left \in Tails :
          LET blocked == enforce /\ Key(path, KeyTail(left)) \in denylist IN
          Commit(c, "ready",
                 Returned(path, Allow, IF blocked THEN Deny ELSE Allow, "list"))
  /\ UNCHANGED guardVars

\* No room in the ring: the loss is counted and the file passes.
StoreAndPass(c) ==
  /\ At(c, "store")
  /\ call[c].path # NoPath
  /\ Store(c, Returned(call[c].path, Allow, Allow, "full"))
  /\ UNCHANGED guardVars

\* The kernel goes on with the execution, or not.
Return(c) ==
  /\ At(c, "returned")
  /\ call' = [call EXCEPT ![c] = Idle]
  /\ UNCHANGED <<slots, wakeup, stats, drops, guardVars>>

================================================================================
