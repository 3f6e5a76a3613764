------------------------------ MODULE TagData -------------------------------
(***************************************************************************)
(* The data of tags and the calls that make, read and write them, one call *)
(* at a time (TagTree has their interleaving): plc_tag_create with its     *)
(* attribute string, the initial values of tags.inc, and the accessors     *)
(* plc_tag_get_* and plc_tag_set_*, which check an offset in elements and  *)
(* then move as many bytes as their own type has, whatever the tag's.      *)
(* A name is its length; "@tags" is the one name of length 5.              *)
(***************************************************************************)
EXTENDS Integers, SequencesExt

CONSTANTS
    NInit,      \* how many tags tags.inc defines
    Offsets,    \* the offsets clients pass
    Widths,     \* the widths of the accessors they use, in bytes
    Values,     \* the values they write, of one byte
    Attributes, \* the attributes they pass to plc_tag_create
    MaxAttribs, \* how many of them a string has: a bound of the model
    MaxCalls,   \* how many calls are made: the other bound
    NULL        \* no name, no '='; no tag

METATAG_ID == 1
METATAG_NAME == 5       \* strlen("@tags")
PREDEFINED_NAME == 17   \* strlen("DUMMY_AQUA_DATA_0")
HEADER == 22            \* sizeof(struct metatag_t)
WORD == 8               \* sizeof(uintptr_t)
LEN_MOD == 65536        \* how many values the length of an array type has
FILL == 66              \* 0x42
LISTING == -1           \* a byte of the metatag's data: Metatag has its records

PLCTAG_STATUS_OK     == 0
PLCTAG_ERR_BAD_PARAM == -7

TYPE_INT  == 2  \* a simple type is its size
TYPE_LINT == 8

ASSUME ConstantsAssumption ==
    /\ NInit \in Nat
    /\ Offsets \subseteq Int
    /\ Widths \subseteq {1, 2, 4, 8}
    /\ Values \subseteq 0 .. 127
    /\ \A kv \in Attributes : kv.val \in Nat \cup {NULL}
    /\ MaxAttribs \in Nat /\ MaxCalls \in Nat
    /\ NULL \notin Int

VARIABLES
    tags,   \* the tags in the tree, by id: name, type and data
    last,   \* the last call: what was passed and what came back
    fault,  \* what the last call did that C leaves undefined, if anything:
            \* an access outside a tag's data, a write through NULL
    writes, \* the sets accepted of each tag since it was made
    calls   \* how many calls were made

vars == <<tags, last, fault, writes, calls>>

-----------------------------------------------------------------------------
(* The bytes of value v when it is w bytes wide.                           *)
Bytes(v, w) == [b \in 0 .. w - 1 |-> IF b = 0 THEN v ELSE 0]

(* Mutant: just the type's own.                                            *)
DataSizeExact(type) == type

(* At least a word of data.                                                *)
DataSize(type) == IF type < WORD THEN WORD ELSE type

(* What tag_tree_node_create makes.                                        *)
Node(name, type) ==
    [name |-> name, kind |-> "scalar", len |-> 0,
     data |-> [b \in 0 .. DataSize(type) - 1 |-> FILL]]

NextId == IF tags = <<>> THEN METATAG_ID + 1 ELSE Max(DOMAIN tags) + 1

(* The bytes of the records a new metatag has room for: one for every tag  *)
(* of the tree, an old metatag's included.                                 *)
NameBytes == UNION {{i} \X (1 .. tags[i].name) : i \in DOMAIN tags}  \* Mutant: no headers.
RecordBytes == UNION {{i} \X (1 .. HEADER + tags[i].name) : i \in DOMAIN tags}
total_data_size == Cardinality(RecordBytes)

(* Mutant: the memory is for the names alone.                              *)
MetanodeShort ==
    [name |-> METATAG_NAME, kind |-> "array", len |-> total_data_size % LEN_MOD,
     data |-> [b \in 0 .. Cardinality(NameBytes) - 1 |-> LISTING]]

(* What tag_tree_metanode_create makes; the length of its type is 16 bits. *)
Metanode ==
    [name |-> METATAG_NAME, kind |-> "array", len |-> total_data_size % LEN_MOD,
     data |-> [b \in 0 .. total_data_size - 1 |-> LISTING]]

With(id, node) == [i \in DOMAIN tags \cup {id} |-> IF i = id THEN node ELSE tags[i]]
NoWrites(id) == [i \in DOMAIN writes \cup {id} |-> IF i = id THEN <<>> ELSE writes[i]]

-----------------------------------------------------------------------------
(* The client makes call c, and nothing undefined has happened yet.        *)
Call(c) ==
    /\ fault = "none" /\ calls < MaxCalls
    /\ calls' = calls + 1
    /\ last' = c

(* One turn of plc_tag_create's loop, unless it has been left.             *)
ParseFirst(p, kv) ==  \* Mutant: the first name stays.
    IF p.left # "no" THEN p
    ELSE IF kv.val = NULL
         THEN [p EXCEPT !.left = IF kv.key = "protocol" THEN "fault" ELSE "refused"]
    ELSE IF kv.key = "name" /\ p.name = NULL THEN [p EXCEPT !.name = kv.val] ELSE p

Parse(p, kv) ==
    IF p.left # "no" THEN p
    ELSE IF kv.val = NULL
         THEN [p EXCEPT !.left = IF kv.key = "protocol" THEN "fault" ELSE "refused"]
    ELSE IF kv.key = "name" THEN [p EXCEPT !.name = kv.val] ELSE p

(* The loop over all of them.                                              *)
Parsed(attribs) ==
    LET after[n \in 0 .. Len(attribs)] ==
            IF n = 0 THEN [left |-> "no", name |-> NULL]
            ELSE Parse(after[n - 1], attribs[n])
    IN  after[Len(attribs)]

plc_tag_create(attribs) ==
    LET p == Parsed(attribs)
        Returns(ret) == Call([call |-> "create", attribs |-> attribs, ret |-> ret])
    IN  \/ /\ p.left = "fault"
           /\ Returns(NULL) /\ fault' = "null"
           /\ UNCHANGED <<tags, writes>>
        \/ /\ p.left = "refused" \/ (p.left = "no" /\ p.name = NULL)
           /\ Returns(PLCTAG_ERR_BAD_PARAM)
           /\ UNCHANGED <<tags, fault, writes>>
        \/ /\ p.left = "no" /\ p.name = METATAG_NAME
           /\ Returns(METATAG_ID)
           /\ tags' = With(METATAG_ID, Metanode)
           /\ writes' = NoWrites(METATAG_ID)
           /\ UNCHANGED fault
        \/ /\ p.left = "no" /\ p.name \in Nat \ {METATAG_NAME}
           /\ Returns(NextId)
           /\ tags' = [i \in (DOMAIN tags \cup {NextId}) \ {METATAG_ID} |->
                          With(NextId, Node(p.name, TYPE_LINT))[i]]
           /\ writes' = NoWrites(NextId)
           /\ UNCHANGED fault

(* tag_tree_remove; the metatag is not removed.                            *)
plc_tag_destroy(id) ==
    /\ id \in DOMAIN tags
    /\ Call([call |-> "destroy"])
    /\ tags' = [i \in DOMAIN tags \ ({id} \ {METATAG_ID}) |-> tags[i]]
    /\ UNCHANGED <<fault, writes>>

-----------------------------------------------------------------------------
(* tag_tree_lookup: the metatag is built when there is none.               *)
Built(id) == id = METATAG_ID /\ METATAG_ID \notin DOMAIN tags
Found(id) == IF Built(id) THEN Metanode ELSE tags[id]

(* Mutant: one element too many.                                           *)
RefusesMore(t, offset) == IF t.kind = "array" THEN offset > t.len ELSE offset > 0

(* The check of an offset.                                                 *)
Refuses(t, offset) == IF t.kind = "array" THEN offset >= t.len ELSE offset > 0

(* The bytes an accepted access moves; an array's elements have one each.  *)
Inside(t, offset, w) == offset .. offset + w - 1 \subseteq DOMAIN t.data

(* Mutant: every value is written as a 64-bit one.                         *)
SetterWide(data, offset, w, v) ==
    [b \in DOMAIN data |-> IF b \in offset .. offset + 7 THEN Bytes(v, 8)[b - offset]
                           ELSE data[b]]

Setter(data, offset, w, v) ==
    [b \in DOMAIN data |-> IF b \in offset .. offset + w - 1 THEN Bytes(v, w)[b - offset]
                           ELSE data[b]]

Getter(data, offset, w) == [b \in 0 .. w - 1 |-> data[offset + b]]

(* An access of w bytes at offset of tag id, which a get or a set makes.   *)
Access(call, id, offset, w, ret, value) ==
    /\ Call([call |-> call, id |-> id, offset |-> offset, width |-> w,
             ret |-> ret, value |-> value])
    /\ fault' = IF ret = NULL THEN "access" ELSE fault

(* What is neither refused nor inside the data faults: it has no result.   *)
Result(t, offset, w) ==
    IF Refuses(t, offset) THEN PLCTAG_ERR_BAD_PARAM
    ELSE IF Inside(t, offset, w) THEN PLCTAG_STATUS_OK ELSE NULL

plc_tag_get(id, offset, w) ==
    LET t == Found(id)
        ret == Result(t, offset, w)
    IN  /\ id \in DOMAIN tags \cup {METATAG_ID}
        /\ Access("get", id, offset, w, ret,
                  IF ret = PLCTAG_STATUS_OK THEN Getter(t.data, offset, w) ELSE <<>>)
        /\ tags' = With(id, t)
        /\ writes' = IF Built(id) THEN NoWrites(id) ELSE writes

plc_tag_set(id, offset, w, v) ==
    LET t == Found(id)
        ret == Result(t, offset, w)
        before == IF Built(id) THEN NoWrites(id) ELSE writes
    IN  /\ id \in DOMAIN tags \cup {METATAG_ID}
        /\ Access("set", id, offset, w, ret, <<>>)
        /\ IF ret = PLCTAG_STATUS_OK
           THEN /\ tags' = With(id, [t EXCEPT !.data = Setter(@, offset, w, v)])
                /\ writes' = [before EXCEPT ![id] = Append(@, [at |-> offset, value |-> Bytes(v, w)])]
           ELSE tags' = With(id, t) /\ writes' = before

-----------------------------------------------------------------------------
(* The tags of tags.inc: an INT each, whose value is written as one byte.  *)
PredefinedIds == (METATAG_ID + 1) .. (METATAG_ID + NInit)
Value(id) == id - METATAG_ID - 1

DEFINE_SCALAR(id) ==
    LET node == Node(PREDEFINED_NAME, TYPE_INT)
    IN  [node EXCEPT !.data = Setter(@, 0, 1, Value(id))]

Init ==
    /\ tags = [id \in PredefinedIds |-> DEFINE_SCALAR(id)]
    /\ last = [call |-> "none"]
    /\ fault = "none"
    /\ writes = [id \in PredefinedIds |-> <<[at |-> 0, value |-> Bytes(Value(id), 1)]>>]
    /\ calls = 0

Next ==
    \/ \E attribs \in BoundedSeq(Attributes, MaxAttribs) : plc_tag_create(attribs)
    \/ \E id \in DOMAIN tags : plc_tag_destroy(id)
    \/ \E id \in DOMAIN tags \cup {METATAG_ID}, offset \in Offsets, w \in Widths :
          \/ plc_tag_get(id, offset, w)
          \/ \E v \in Values : plc_tag_set(id, offset, w, v)

Spec == Init /\ [][Next]_vars

-----------------------------------------------------------------------------
Reach(t) == IF t.kind = "array" THEN t.len ELSE WORD

(* Types: the data of a scalar are a word at least, those of an array have *)
(* at least the length that its type says.                                 *)
TypeOK ==
    /\ \A i \in DOMAIN tags :
          /\ DOMAIN tags[i] = {"name", "kind", "len", "data"} /\ tags[i].name \in Nat
          /\ tags[i].kind = "array" => i = METATAG_ID /\ tags[i].len \in Nat
          /\ 0 .. Reach(tags[i]) - 1 \subseteq DOMAIN tags[i].data
    /\ last.call \in {"none", "create", "destroy", "get", "set"}
    /\ fault \in {"none", "null", "access"}
    /\ calls \in 0 .. MaxCalls

(* Although the check of an offset knows nothing of the accessor's width,  *)
(* an access goes outside a tag's data in two cases only: the offset is    *)
(* negative, or the tag is the metatag, whose elements are bytes, and the  *)
(* accessor is wider.  No accessor is too wide for a scalar (an INT has a  *)
(* word of data), and no length of the metatag's type exceeds its data.    *)
StraysKnown == fault = "access" =>
    last.offset < 0 \/ (last.id = METATAG_ID /\ last.width > 1)

(* The byte at place b of tag id, as far as the calls made say.            *)
Written(id, b) ==
    LET of == {k \in DOMAIN writes[id] : b - writes[id][k].at \in DOMAIN writes[id][k].value}
    IN  IF of # {} THEN writes[id][Max(of)].value[b - writes[id][Max(of)].at]
        ELSE IF id = METATAG_ID THEN LISTING ELSE FILL

(* A get returns byte for byte what the sets of that tag wrote last since  *)
(* the tag was made, of whatever widths they were, also when the id has    *)
(* belonged to another tag before and when the metatag is built anew.      *)
ReadsLastWrite == last.call = "get" /\ last.ret = PLCTAG_STATUS_OK =>
    \A b \in DOMAIN last.value : last.value[b] = Written(last.id, last.offset + b)

(* An attribute other than "protocol" that has no '=' refuses the whole    *)
(* string, wherever it stands and whatever names come before or after it,  *)
(* and so does a string without a name; else the last of the names names   *)
(* the new tag.  (A bare "protocol" that the loop comes to is a fault:     *)
(* ProtocolAccepted.)                                                      *)
CreateRight == last.call = "create" /\ fault = "none" =>
    LET kv == last.attribs
        bare == {k \in DOMAIN kv : kv[k].val = NULL /\ kv[k].key # "protocol"}
        names == {k \in DOMAIN kv : kv[k].key = "name"}
    IN  IF bare # {} \/ names = {} THEN last.ret = PLCTAG_ERR_BAD_PARAM
        ELSE /\ tags[last.ret].name = kv[Max(names)].val
             /\ last.ret = METATAG_ID <=> kv[Max(names)].val = METATAG_NAME

-----------------------------------------------------------------------------
(* What documentation says and the code does not do.                       *)

(* "DEFINE_SCALAR(name, type, val)" (tags.inc:7), with memory reserved so  *)
(* that it need not "worry about integer promotion" (tagtree.c:116): an    *)
(* INT of tags.inc that was never set has the value given there.           *)
PredefinedValue ==
    /\ last.call = "get" /\ last.ret = PLCTAG_STATUS_OK
    /\ last.id \in PredefinedIds /\ tags[last.id].name = PREDEFINED_NAME
    /\ last.width = TYPE_INT /\ Len(writes[last.id]) = 1
    => last.value = Bytes(Value(last.id), TYPE_INT)

(* "the only attribute we've seen that isn't a key-value pair is           *)
(* "protocol"" (plcstub.c:246): a string with a name, in which all other   *)
(* attributes have their '=', makes a tag.                                 *)
ProtocolAccepted == last.call = "create" =>
    LET kv == last.attribs
    IN  /\ \E k \in DOMAIN kv : kv[k].key = "name"
        /\ \A k \in DOMAIN kv : kv[k].val = NULL => kv[k].key = "protocol"
        => last.ret \in DOMAIN tags

=============================================================================
