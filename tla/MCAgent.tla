-------------------------------- MODULE MCAgent --------------------------------
(* A small instance of Agent: vmlinux files of a few types each, two programs   *)
(* for the eight, two CPUs, a ring of two records and deny lists around the     *)
(* limit of one path.                                                           *)
EXTENDS Agent, TLC

Field(name, bit) == [name |-> name, bit |-> bit, width |-> 0]
Bits(name, bit, width) == [name |-> name, bit |-> bit, width |-> width]

Struct(name, flag, members) ==
  [name |-> name, kind |-> BtfStruct, kind_flag |-> flag, vlen |-> Len(members),
   trailer |-> 12 * Len(members), members |-> members]

\* What the kernel's btf.h puts behind a header of the other kinds.
Other(kind, vlen, trailer) ==
  [name |-> "other", kind |-> kind, kind_flag |-> FALSE, vlen |-> vlen,
   trailer |-> trailer, members |-> <<>>]

Integer == Other(1, 0, 4)
Ptr == Other(2, 0, 0)
Array == Other(3, 0, 12)
Enum == Other(6, 2, 16)
Typedef == Other(8, 0, 0)
FuncProto == Other(13, 2, 16)
Var == Other(14, 0, 4)
DataSec == Other(15, 2, 24)
DeclTag == Other(17, 0, 4)
Enum64 == Other(19, 1, 12)
Newer == Other(20, 1, 8)

Task == Struct("task_struct", FALSE, <<Field("pid", 0), Field("start_boottime", 64)>>)
Binprm == Struct("linux_binprm", FALSE, <<Field("buf", 0), Field("filename", 96)>>)

\* The member stands behind a bit field, or is one: the high byte is a width.
BinprmFlagged ==
  Struct("linux_binprm", TRUE, <<Bits("secure", 40, 3), Bits("filename", 96, 8)>>)
BinprmBits == Struct("linux_binprm", TRUE, <<Bits("filename", 43, 3)>>)
BinprmFirst == Struct("linux_binprm", FALSE, <<Field("filename", 0)>>)
BinprmOther == Struct("linux_binprm", FALSE, <<Field("buf", 0)>>)

Kernels == {
  <<Integer, Ptr, Array, Enum, Task, FuncProto, Typedef, Var, Binprm>>,
  <<Enum64, DataSec, DeclTag, BinprmFlagged, Var, Task>>,
  <<Task, Integer, BinprmFirst>>,
  <<Task, BinprmOther, Binprm>>,
  <<Task, Ptr, BinprmBits>>,
  <<Task, Newer, Binprm>>,
  <<Binprm, Integer>> }

Asked == << [struct |-> "task_struct", field |-> "start_boottime"],
            [struct |-> "linux_binprm", field |-> "filename"] >>

\* A path that does not fit, and what fits of it, which is a path as well.
Cut == "long" :> "stem" @@ "stem" :> "stem" @@ "p" :> "p"

Lists == { <<"p", "p">>, <<"p", "stem">>, <<"long">>, <<"long", "stem">> }

\* For the loop alone: one kernel, no deny list.
OneKernel == { <<Task, Binprm>> }
NoLists == { <<>> }

\* For what the documents say of the guard: one short path is listed.
OnlyStem == { <<"stem">> }

TwoPrograms == <<"nazar", "nazar_bprm">>
================================================================================
