---------------------------- MODULE TypeOwnership ----------------------------
(***************************************************************************)
(* Who owns the blocks of types: what the constructors, type_dup and       *)
(* type_free of types.c do, in one step each, to the blocks that belong to *)
(* a type, those its pointer leads to.  A new type is a block and its own  *)
(* copy of every block of the types it is made of; a free gives back the   *)
(* arrays of a type.  TagTypes has the recursion that gets there.          *)
(***************************************************************************)
EXTENDS TypeBlocks, Functions

CONSTANTS
    Kinds,      \* what clients pass to type_new_simple
    Lengths,    \* the lengths of the arrays they make
    MaxFields,  \* the most fields of a struct they make
    Addrs       \* where blocks can be

ASSUME ConstantsAssumption ==
    /\ Kinds \subseteq Nat
    /\ Lengths \subseteq Nat /\ \A n \in Lengths : n <= 65535    \* a uint16_t
    /\ MaxFields \in 0 .. 65535                                 \* field_cnt is one too
    /\ Addrs \subseteq Nat /\ \A a \in Addrs : ~IsSimple(a)

VARIABLES
    heap,   \* the allocated blocks, by address
    types,  \* the types the client has and has not freed
    bad     \* a block was freed, or looked into, that was not allocated

vars == <<heap, types, bad>>

-----------------------------------------------------------------------------
(* The blocks a pointer t leads to: the least set that has its block and   *)
(* those that the pointers of its blocks lead to.                          *)
Pointers(b) == {f \in Range(b.of) : ~IsSimple(f)}

Closed(h, S) == \A a \in S : Pointers(h[a]) \cap DOMAIN h \subseteq S

Blocks(h, t) ==
    {a \in DOMAIN h : \A S \in SUBSET DOMAIN h :
        {t} \cap DOMAIN h \subseteq S /\ Closed(h, S) => a \in S}

(* No two pointers of the blocks S lead to one block.                      *)
Once(h, S) ==
    \A a, b \in S : \A i \in DOMAIN h[a].of, j \in DOMAIN h[b].of :
        h[a].of[i] = h[b].of[j] /\ ~IsSimple(h[a].of[i]) => a = b /\ i = j

(* A type is whole if it is a tree of allocated blocks: type_free, which   *)
(* goes down every pointer, then comes to each block once.                 *)
Whole(h, t) ==
    /\ t \in DOMAIN h
    /\ \A a \in Blocks(h, t) : Pointers(h[a]) \subseteq DOMAIN h \ {t}
    /\ Once(h, Blocks(h, t))

(* After an overrun, what the heap is is undefined: the client stops.      *)
Defined == \A a \in DOMAIN heap : ~Overrun(heap[a])

-----------------------------------------------------------------------------
(* What type_dup asks for to copy block b.                                 *)
Dupped(b) ==
    IF b.t = TAG_ARRAY THEN b
    ELSE StructBlock(HEAD + Len(b.of) * WORD, b.of, TRUE)

(* A new block like b has a copy of its own of every block of its i-th     *)
(* field, for every i; c says where.                                       *)
Parts(b) == {p \in (DOMAIN b.of) \X (DOMAIN heap) : p[2] \in Blocks(heap, b.of[p[1]])}

(* Where the copy made for the i-th field points, for a pointer f.         *)
To(c, i, f) == IF IsSimple(f) THEN f ELSE c[<<i, f>>]

Top(b, c) == [b EXCEPT !.of = [i \in DOMAIN b.of |-> To(c, i, b.of[i])]]
Inner(b, c, i) == [Dupped(b) EXCEPT !.of = [j \in DOMAIN b.of |-> To(c, i, b.of[j])]]

(* The heap with the new block at a and the copies where c says.           *)
Extended(b, a, c) ==
    [x \in DOMAIN heap \cup {a} \cup Range(c) |->
        IF x \in DOMAIN heap THEN heap[x]
        ELSE IF x = a THEN Top(b, c)
        ELSE LET p == AntiFunction(c)[x] IN Inner(heap[p[2]], c, p[1])]

Build(b) ==
    /\ Defined
    /\ \E a \in Addrs \ DOMAIN heap :
          /\ types' = types \cup {a}
          /\ \E c \in Injection(Parts(b), Addrs \ (DOMAIN heap \cup {a})) :
                heap' = Extended(b, a, c)
    /\ UNCHANGED bad

Types == {type_new_simple(e) : e \in Kinds} \cup types

NewArray(n, m) == Build(ArrayBlock(n, m))

NewStruct(ms) == Build(StructBlock(HEAD + Len(ms) * PAIR, ms, FALSE))

Dup(t) == Build(Dupped(heap[t]))

(* type_free gives back the arrays of a type, and no struct.               *)
Freed(t) == {a \in Blocks(heap, t) : heap[a].t = TAG_ARRAY}

Free(t) ==
    /\ Defined
    /\ heap' = Restrict(heap, DOMAIN heap \ Freed(t))
    /\ types' = types \ {t}
    /\ bad' = (bad \/ ~Whole(heap, t))

Init == heap = <<>> /\ types = {} /\ bad = FALSE

Next ==
    \/ \E m \in Types, n \in Lengths : NewArray(n, m)
    \/ \E k \in 0 .. MaxFields : \E ms \in [1 .. k -> Types] : NewStruct(ms)
    \/ \E t \in types : Free(t) \/ Dup(t)

Spec == Init /\ [][Next]_vars

-----------------------------------------------------------------------------
Block == [t : {TAG_ARRAY, TAG_STRUCT}, len : Lengths \cup {1}, of : Seq(Nat),
          room : Nat, copy : BOOLEAN]

(* Types: the types the client has are allocated blocks (types.h:39, the   *)
(* structs behind a type_t).                                               *)
TypeOK ==
    /\ DOMAIN heap \subseteq Addrs /\ heap \in [DOMAIN heap -> Block]
    /\ types \subseteq DOMAIN heap
    /\ bad \in BOOLEAN

(* Every type the client has is a tree of blocks that no other type of the *)
(* client leads to: constructors and copies share nothing, whatever they   *)
(* are given, and a free leaves nothing dangling.                          *)
Apart ==
    /\ \A t \in types : Whole(heap, t)
    /\ \A t, u \in types : t # u => Blocks(heap, t) \cap Blocks(heap, u) = {}

(* No block is ever freed twice or looked into after its end: type_free    *)
(* checks nothing.                                                         *)
FreeSafe == ~bad

(* type_free gives back every block of a type except those of structs: at  *)
(* any depth, nothing but a struct's block can leak.                       *)
OnlyStructsLeak ==
    \A a \in DOMAIN heap \ UNION {Blocks(heap, t) : t \in types} : heap[a].t = TAG_STRUCT

(* A struct's fields lie within its block, except in a copy that type_dup  *)
(* made: that one writes past its end.                                     *)
OnlyCopiesOverrun == \A a \in DOMAIN heap : Overrun(heap[a]) => heap[a].copy

(* A type is as it was for as long as the client has it: nothing done with *)
(* other types, or with it, changes or takes away a block of it.           *)
Untouched ==
    \A t \in types \cap types' : \A a \in Blocks(heap, t) :
        a \in DOMAIN heap' /\ heap'[a] = heap[a]

LeftAlone == [][Untouched]_vars

=============================================================================
