----------------------------- MODULE TypeBlocks -----------------------------
(***************************************************************************)
(* What a type_t is (types.h): a small number for a simple type, or a      *)
(* pointer to a heap block that holds an array's or a struct's type and,   *)
(* through pointers, the types it is made of.                              *)
(***************************************************************************)
EXTENDS Integers, Sequences

TAG_ERROR == 0
TAG_BOOL  == 1
TAG_SINT  == 2
TAG_INT   == 3
TAG_DINT  == 4
TAG_REAL  == 5
TAG_LINT  == 6
TAG_ARRAY == 7
TAG_STRUCT == 8

ARRAY == 24 \* sizeof(struct tag_array)
HEAD == 8   \* sizeof(struct tag_struct)
PAIR == 16  \* sizeof(struct tag_struct_pair): a name and a type
WORD == 8   \* sizeof(type_t)

(* A pointer that is a small number is a simple type.                      *)
IsSimple(t) == t <= TAG_LINT

type_new_simple(e) == IF e \in TAG_BOOL .. TAG_LINT THEN e ELSE TAG_ERROR

(* A block: an array of len members, or a struct of the fields of, in room *)
(* bytes that type_dup asked for (copy) or type_new_struct.                *)
ArrayBlock(n, m) ==
    [t |-> TAG_ARRAY, len |-> n, of |-> <<m>>, room |-> ARRAY, copy |-> FALSE]
StructBlock(room, fs, copy) ==
    [t |-> TAG_STRUCT, len |-> 1, of |-> fs, room |-> room, copy |-> copy]

(* malloc gives blocks of 24, 40, 56 ... bytes.                            *)
Usable(room) == IF room <= 24 THEN 24 ELSE 24 + 16 * ((room - 24 + 15) \div 16)

(* A struct whose pairs go past its block.                                 *)
Overrun(b) == b.t = TAG_STRUCT /\ HEAD + Len(b.of) * PAIR > Usable(b.room)

=============================================================================
