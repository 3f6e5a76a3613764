------------------------------ MODULE TagTypes ------------------------------
(***************************************************************************)
(* The types of tags (types.c).  A client makes types out of the simple    *)
(* ones and of those it has, copies them and frees them, as the tests and  *)
(* the tag tree do.  The constructors, type_dup and type_free go down the  *)
(* pointers of a type as the code does; that they do to blocks what the    *)
(* steps of TypeOwnership say is KeepsOwnership.  Field names are left     *)
(* out: they are strings of their own, copied and freed with their field.  *)
(***************************************************************************)
EXTENDS TypeOwnership, SequencesExt

CONSTANTS
    MaxTypes,   \* how many types the client has at a time: a bound of the model
    SizeMod     \* the values a size_t has: 2^64 of them, fewer in a run

ASSUME TagTypesAssumption == MaxTypes \in Nat /\ SizeMod \in Nat \ {0}

VARIABLE
    mine    \* what the client asked for when it made each of its types

-----------------------------------------------------------------------------
(* A result of a constructor: the heap after it and the type it returns.   *)
Fresh(h) == CHOOSE a \in TAG_LINT + 1 .. TAG_LINT + 1 + Cardinality(DOMAIN h) : a \notin DOMAIN h

RECURSIVE type_dup(_, _)

(* Mutant: the member is shared with the caller's.                         *)
type_new_array_sharing(h, n, m) ==
    [heap |-> (Fresh(h) :> ArrayBlock(n, m)) @@ h, type |-> Fresh(h)]

type_new_array(h, n, m) ==
    LET a == Fresh(h)
        dup == type_dup((a :> ArrayBlock(n, TAG_ERROR)) @@ h, m)
    IN  [heap |-> (a :> ArrayBlock(n, dup.type)) @@ dup.heap, type |-> a]

(* A struct of copies of the types ms, in a block of room bytes.           *)
FillStruct(h, ms, room, copy) ==
    LET a == Fresh(h)
        Field(r, m) == LET dup == type_dup(r.heap, m)
                       IN  [heap |-> dup.heap, fields |-> Append(r.fields, dup.type)]
        filled == FoldLeft(Field, [heap |-> (a :> StructBlock(room, <<>>, copy)) @@ h,
                                   fields |-> <<>>], ms)
    IN  [heap |-> (a :> StructBlock(room, filled.fields, copy)) @@ filled.heap, type |-> a]

(* Mutant: the room type_dup asks for.                                     *)
type_new_struct_small(h, ms) == FillStruct(h, ms, HEAD + Len(ms) * WORD, FALSE)

type_new_struct(h, ms) == FillStruct(h, ms, HEAD + Len(ms) * PAIR, FALSE)

type_dup(h, t) ==
    IF IsSimple(t) THEN [heap |-> h, type |-> t]
    ELSE IF h[t].t = TAG_ARRAY THEN type_new_array(h, h[t].len, h[t].of[1])
    ELSE FillStruct(h, h[t].of, HEAD + Len(h[t].of) * WORD, TRUE)

-----------------------------------------------------------------------------
free(s, a) ==
    IF a \in DOMAIN s.heap THEN [s EXCEPT !.heap = Restrict(@, DOMAIN @ \ {a})]
    ELSE [s EXCEPT !.bad = TRUE]

(* Mutant: an array's member stays.                                        *)
FreeArrayOnly(s, t, m) == free(s, t)

(* The member has been freed to s: free the array.                         *)
FreeArray(s, t, m) == free(m, t)

RECURSIVE type_free(_, _)

(* A struct's fields are freed, its block is not.                          *)
type_free(s, t) ==
    IF IsSimple(t) THEN s
    ELSE IF t \notin DOMAIN s.heap THEN [s EXCEPT !.bad = TRUE]
    ELSE IF s.heap[t].t = TAG_ARRAY THEN FreeArray(s, t, type_free(s, s.heap[t].of[1]))
    ELSE FoldLeft(type_free, s, s.heap[t].of)

RECURSIVE type_size_bytes(_, _)

(* Mutant: the element counts once.                                        *)
ArraySizeOne(len, size) == size

(* Sizes are of type size_t, and wrap.                                     *)
ArraySize(len, size) == (len * size) % SizeMod

SimpleSize ==
    (TAG_ERROR :> 0) @@ (TAG_BOOL :> 1) @@ (TAG_SINT :> 1) @@ (TAG_INT :> 2)
    @@ (TAG_DINT :> 4) @@ (TAG_REAL :> 4) @@ (TAG_LINT :> 8)

type_size_bytes(h, t) ==
    IF IsSimple(t) THEN SimpleSize[t]
    ELSE IF h[t].t = TAG_ARRAY THEN ArraySize(h[t].len, type_size_bytes(h, h[t].of[1]))
    ELSE FoldLeft(LAMBDA sum, f : (sum + type_size_bytes(h, f)) % SizeMod, 0, h[t].of)

-----------------------------------------------------------------------------
(* What a client asks for, apart from any heap: a tree.                    *)
Scalar(t) == [t |-> t, len |-> 1, of |-> <<>>]
Array(n, m) == [t |-> TAG_ARRAY, len |-> n, of |-> <<m>>]
Struct(ms) == [t |-> TAG_STRUCT, len |-> 1, of |-> ms]
Asked(t) == IF IsSimple(t) THEN Scalar(t) ELSE mine[t]

MakeCall(r, shape) ==
    /\ Defined
    /\ DOMAIN r.heap \subseteq Addrs /\ Cardinality(types) < MaxTypes
    /\ heap' = r.heap
    /\ types' = types \cup {r.type}
    /\ mine' = (r.type :> shape) @@ mine
    /\ UNCHANGED bad

NewArrayCall(n, m) == MakeCall(type_new_array(heap, n, m), Array(n, Asked(m)))

NewStructCall(ms) ==
    MakeCall(type_new_struct(heap, ms), Struct([i \in DOMAIN ms |-> Asked(ms[i])]))

DupCall(t) == MakeCall(type_dup(heap, t), mine[t])

FreeCall(t) ==
    LET s == type_free([heap |-> heap, bad |-> bad], t)
    IN  /\ Defined
        /\ heap' = s.heap /\ bad' = s.bad
        /\ types' = types \ {t}
        /\ mine' = Restrict(mine, types')

InitCalls == Init /\ mine = <<>>

NextCall ==
    \/ \E m \in Types, n \in Lengths : NewArrayCall(n, m)
    \/ \E ms \in BoundedSeq(Types, MaxFields) : NewStructCall(ms)
    \/ \E t \in types : DupCall(t) \/ FreeCall(t)

CallSpec == InitCalls /\ [][NextCall]_<<vars, mine>>

-----------------------------------------------------------------------------
DANGLING == TAG_LINT + 100

RECURSIVE ShapeOf(_), Leaves(_)

(* The tree that type t is, read from the heap.                            *)
ShapeOf(t) ==
    IF IsSimple(t) THEN Scalar(t)
    ELSE IF t \notin DOMAIN heap THEN Scalar(DANGLING)
    ELSE IF heap[t].t = TAG_ARRAY THEN Array(heap[t].len, ShapeOf(heap[t].of[1]))
    ELSE Struct([i \in DOMAIN heap[t].of |-> ShapeOf(heap[t].of[i])])

(* The scalars of a tree, in the order of their bytes.                     *)
Leaves(shape) ==
    IF shape.of = <<>> /\ IsSimple(shape.t) THEN <<shape.t>>
    ELSE LET once == FlattenSeq([i \in DOMAIN shape.of |-> Leaves(shape.of[i])])
         IN  FlattenSeq([i \in 1 .. shape.len |-> once])

(* A type stays what its maker asked for, whatever becomes of the types it *)
(* was made of or copied from: constructors and copies share nothing.      *)
StaysAsAsked == \A t \in types : ShapeOf(t) = mine[t]

(* type_size_bytes is the sum of the sizes of the scalars in a type, what  *)
(* a tag of that type must have room for, as far as a size_t can count.    *)
SizeIsSum == \A t \in types :
    type_size_bytes(heap, t) =
        FoldLeft(LAMBDA sum, l : sum + SimpleSize[l], 0, Leaves(mine[t])) % SizeMod

(* What the recursion of type_dup and type_free does to blocks, call by    *)
(* call, is what TypeOwnership says: a copy of every block of the types    *)
(* something is made of, the end of every array of a type that is freed.   *)
KeepsOwnership == Spec

=============================================================================
