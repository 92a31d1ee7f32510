---------------------------------- MODULE Btf ----------------------------------
(******************************************************************************)
(* The BTF parser of nazar-agent (src/nazar-agent/src/btf.rs): field_offset()  *)
(* walks the type section of /sys/kernel/btf/vmlinux from its start, type by  *)
(* type, to a struct or union of the wanted name and the wanted member in it. *)
(*                                                                            *)
(* A type is a header of HeaderLen bytes and a trailer whose length its kind  *)
(* decides.  The section is the sequence of the types the kernel wrote, each  *)
(* with the length of its trailer in the file; the walk knows byte offsets    *)
(* only.  Where it looks at a byte no type begins at, it may read anything.   *)
(* The header's magic and version, string offsets and the ends of the file    *)
(* are errors of a file the kernel does not produce; they are left out.       *)
(******************************************************************************)
EXTENDS Integers, Sequences

CONSTANTS
  Sections,  \* the type sections vmlinux may have
  Queries    \* the structs and fields asked for, in order

VARIABLES
  section,  \* Btf::data, the types of its type section
  off,      \* the walk's byte offset
  answers   \* what field_offset() returned so far

btfVars == <<section, off, answers>>

HeaderLen == 12
BtfStruct == 4
BtfUnion == 5

\* A member, with its true place in the struct and, if it is a bit field, its width;
\* both are counted in bits.
Member == [name : STRING, bit : Nat, width : Nat]
Type ==
  [name : STRING, kind : Nat, kind_flag : BOOLEAN, vlen : Nat, trailer : Nat, members : Seq(Member)]

\* How many words of four bytes the kernel's btf.h puts behind a header: one for
\* an integer, a variable and a tag on a declaration, an array's description, and
\* three or two for each entry.
Words(t) ==
  CASE t.kind \in {1, 14, 17} -> 1
    [] t.kind = 3 -> 3
    [] t.kind \in {4, 5, 15, 19} -> 3 * t.vlen
    [] t.kind \in {6, 13} -> 2 * t.vlen
    [] OTHER -> 0

\* The low 24 bits of a word.
Low == 16777216

\* The word the file has for a member of a type: the width is there, in the high byte,
\* if the type's kind_flag is set.
RawOffset(t, m) == IF t.kind_flag THEN m.width * Low + m.bit ELSE m.bit

\* The kinds btf.h names today; of a newer kind nothing is known.
Formatted(s) ==
  \A i \in DOMAIN s :
    /\ s[i].kind \in 1 .. 19 => s[i].trailer = 4 * Words(s[i])
    /\ s[i].kind_flag => \A m \in DOMAIN s[i].members : s[i].members[m].bit < Low

ASSUME BtfAssumption ==
  /\ \A s \in Sections : s \in Seq(Type) /\ Formatted(s)
  /\ Queries \in Seq([struct : STRING, field : STRING])

BtfInit == section \in Sections /\ off = 0 /\ answers = <<>>

--------------------------------------------------------------------------------
(* The file *)

\* The byte offset of each type, and of the end of the section.
Start ==
  LET start[i \in 1 .. Len(section) + 1] ==
        IF i = 1 THEN 0 ELSE start[i - 1] + HeaderLen + section[i - 1].trailer
  IN start

SectionEnd == Start[Len(section) + 1]

Begins(i) == Start[i] = off

AnyType == UNION {{s[i] : i \in DOMAIN s} : s \in Sections}

\* What the header at the walk's offset says.
TypesRead ==
  IF \E i \in DOMAIN section : Begins(i)
  THEN {section[i] : i \in {j \in DOMAIN section : Begins(j)}}
  ELSE AnyType

--------------------------------------------------------------------------------
(* extra_len(), walk_types(), field_offset() *)

KnownKinds == 1 .. 19

\* Mutant: a variable's linkage word is forgotten.
ExtraLenOldVar(kind, vlen) ==
  CASE kind \in {1, 17} -> 4
    [] kind = 3 -> 12
    [] kind \in {4, 5, 15, 19} -> vlen * 12
    [] kind \in {6, 13} -> vlen * 8
    [] OTHER -> 0

ExtraLen(kind, vlen) ==
  CASE kind \in {1, 14, 17} -> 4
    [] kind = 3 -> 12
    [] kind \in {4, 5, 15, 19} -> vlen * 12
    [] kind \in {6, 13} -> vlen * 8
    [] OTHER -> 0

Query == Queries[Len(answers) + 1]

Wanted(t) == t.kind \in {BtfStruct, BtfUnion} /\ t.name = Query.struct

\* Mutant: the high byte is taken for part of the offset.
BitOffsetWhole(t, m) == RawOffset(t, m)

\* raw & 0x00ff_ffff with kind_flag, or else raw.
BitOffset(t, m) == IF t.kind_flag THEN RawOffset(t, m) % Low ELSE RawOffset(t, m)

\* The bit offset of the first member of that name; none if there is no such member.
FieldBits(t, field) ==
  {BitOffset(t, t.members[i]) : i \in
     {j \in DOMAIN t.members :
        /\ t.members[j].name = field
        /\ \A k \in 1 .. j - 1 : t.members[k].name # field}}

\* The walk steps over a type.
Advance ==
  /\ off < SectionEnd
  /\ \E t \in TypesRead :
       /\ ~Wanted(t)
       /\ t.kind \in KnownKinds
       /\ off' = off + HeaderLen + ExtraLen(t.kind, t.vlen)
  /\ UNCHANGED <<section, answers>>

\* field_offset() returns; the next call walks from the start.
Answer ==
  /\ off < SectionEnd
  /\ \E t \in TypesRead :
       /\ Wanted(t)
       /\ \E bits \in FieldBits(t, Query.field) :
            bits % 8 = 0 /\ answers' = Append(answers, bits \div 8)
  /\ off' = 0
  /\ UNCHANGED section

\* field_offset() fails: no such struct, no such field in the first one of that
\* name, a field that does not start on a byte, or a kind of a newer kernel.
Bails ==
  \/ off >= SectionEnd
  \/ \E t \in TypesRead :
       \/ Wanted(t) /\ \A bits \in FieldBits(t, Query.field) : bits % 8 # 0
       \/ ~Wanted(t) /\ t.kind \notin KnownKinds

--------------------------------------------------------------------------------
(* What the parser promises *)

\* Every offset handed to the kernel programs is the true place of the named member
\* in a type the kernel really wrote, wherever it stands in the section, whatever
\* kinds stand before it and whether or not the file has widths beside offsets (a
\* wrong one would make the probes read the wrong field of task_struct and
\* linux_binprm without any error).
OffsetsTrue ==
  \A q \in DOMAIN answers : \E i \in DOMAIN section :
    /\ section[i].kind \in {BtfStruct, BtfUnion}
    /\ section[i].name = Queries[q].struct
    /\ \E m \in DOMAIN section[i].members :
         /\ section[i].members[m].name = Queries[q].field
         /\ section[i].members[m].bit = 8 * answers[q]

================================================================================
