------------------------------- MODULE Metatag -------------------------------
(***************************************************************************)
(* The contents of the metatag "@tags" and a client that walks them the    *)
(* way test/04-metatag_lookup.c begins to: the metatag's data is one       *)
(* record per tag, a fixed header and the tag's name, and the client reads *)
(* a record's id and name length with one get each and steps over it,      *)
(* until a get is out of range.  Between two gets other calls may create   *)
(* and destroy tags, and so move the records.  Calls do not overlap here   *)
(* (TagTree has their interleaving).                                       *)
(***************************************************************************)
EXTENDS Integers, Sequences, FiniteSetsExt

CONSTANTS
    Ops,            \* the calls made besides the walk's
    NInit,          \* how many tags tags.inc defines
    NameLengths,    \* lengths of the names of created tags
    LenMod,         \* how many values the length of an array type has
    MaxId,          \* largest tag id: a bound of the model
    MaxCalls,       \* calls besides the walk's: the other bound
    GARBAGE         \* a value read from anywhere but a record

NULL == <<>>            \* no metatag
METATAG_ID == 1
HEADER == 22            \* sizeof(struct metatag_t): 4 + 2 + 2 + 3 * 4 + 2
LENGTH_AT == 20         \* where in it the name's length is
METATAG_NAME == 5       \* strlen("@tags")
PREDEFINED_NAME == 17   \* strlen("DUMMY_AQUA_DATA_0")

ASSUME ConstantsAssumption ==
    /\ Ops \subseteq {"create", "create_meta", "destroy"}
    /\ NInit \in Nat /\ NameLengths \subseteq Nat /\ LenMod \in Nat \ {0}
    /\ MaxId \in Nat /\ METATAG_ID + NInit <= MaxId /\ MaxCalls \in Nat
    /\ GARBAGE \notin Nat

VARIABLES
    tags,           \* name length of each tag in the tree, by id
    meta,           \* the metatag: the length of its type and its records
    at, pos, got,   \* the walk: its next call, its offset, the ids it has read
    start,          \* the tags that existed when the walk began
    destroyed,      \* a tag was destroyed since the listing being walked was built
    calls,          \* how many calls besides the walk's were made
    upset           \* what the walk read was rebuilt after such a destroy, or
                    \* was built while an older metatag was still in the tree

walkVars == <<at, pos, got, start>>
vars == <<tags, meta, walkVars, destroyed, upset, calls>>

-----------------------------------------------------------------------------
RecordSize(length) == HEADER + length

(* The bytes of the records of the tags S among the tags T.                *)
Bytes(T, S) == UNION {{i} \X (1 .. RecordSize(T[i])) : i \in S}

Size(T) == Cardinality(Bytes(T, DOMAIN T))

Offset(T, i) == Cardinality(Bytes(T, {j \in DOMAIN T : j < i}))

(* The records of the tags T, one behind the other by increasing id.       *)
Records(T) ==
    LET offsets == [i \in DOMAIN T |-> Offset(T, i)]
    IN  [o \in {offsets[i] : i \in DOMAIN T} |->
            LET i == CHOOSE j \in DOMAIN T : offsets[j] = o
            IN  [id |-> i, length |-> T[i]]]

(* Mutant: the records are written before the old metatag is unlinked.     *)
MetanodeCreateLate ==
    LET T == IF meta = NULL THEN tags
             ELSE [i \in DOMAIN tags \cup {METATAG_ID} |->
                      IF i = METATAG_ID THEN METATAG_NAME ELSE tags[i]]
    IN  [len |-> Size(T) % LenMod, at |-> Records(T)]

(* tag_tree_metanode_create: the size is summed before the old metatag is  *)
(* unlinked, the records are written after.                                *)
MetanodeCreate ==
    [len |-> (Size(tags) + IF meta = NULL THEN 0 ELSE RecordSize(METATAG_NAME)) % LenMod,
     at  |-> Records(tags)]

(* Mutant: the first free id.                                              *)
FirstFreeId == Min((METATAG_ID + 1 .. MaxId + 1) \ DOMAIN tags)

NextId == Max(DOMAIN tags \cup {METATAG_ID}) + 1

(* Mutant: the metatag stays when a tag is created.                        *)
KeepMetatag == UNCHANGED meta

(* tag_tree_node_create invalidates the metatag.                           *)
Invalidate == meta' = NULL

-----------------------------------------------------------------------------
(* The client makes call o, other than the walk's.                         *)
Call(o) == o \in Ops /\ calls < MaxCalls /\ calls' = calls + 1

Create(length) ==
    /\ Call("create") /\ NextId <= MaxId
    /\ tags' = [i \in DOMAIN tags \cup {NextId} |-> IF i = NextId THEN length ELSE tags[i]]
    /\ Invalidate
    /\ UNCHANGED <<walkVars, destroyed, upset>>

Walking == at \in {"id", "length"}

(* What a new listing means to the walk.                                   *)
Rebuilt ==
    /\ upset' = (upset \/ (destroyed /\ Walking))
    /\ destroyed' = (destroyed /\ Walking)

CreateMeta ==
    /\ Call("create_meta")
    /\ meta' = MetanodeCreate
    /\ Rebuilt
    /\ UNCHANGED <<tags, walkVars>>

(* tag_tree_remove leaves the metatag as it is.                            *)
Destroy(i) ==
    /\ Call("destroy")
    /\ tags' = [j \in DOMAIN tags \ {i} |-> tags[j]]
    /\ destroyed' = TRUE
    /\ UNCHANGED <<meta, walkVars, upset>>

WalkStart ==
    /\ ~Walking
    /\ at' = "id" /\ pos' = 0 /\ got' = <<>>
    /\ start' = DOMAIN tags
    /\ destroyed' = (destroyed /\ meta # NULL)
    /\ upset' = FALSE
    /\ UNCHANGED <<tags, meta, calls>>

(* A get of the metatag looks it up, and builds it if there is none.       *)
Listing == IF meta = NULL THEN MetanodeCreate ELSE meta

(* There are bytes behind the last of its records.                         *)
Padded ==
    /\ Listing.len > 0
    /\ \A o \in DOMAIN Listing.at : Listing.len > o + RecordSize(Listing.at[o].length)

Get ==
    /\ meta' = Listing
    /\ upset' = (upset \/ Padded \/ (meta = NULL /\ destroyed))
    /\ destroyed' = (destroyed /\ meta # NULL)
    /\ UNCHANGED <<tags, start, calls>>

OutOfRange(o) ==
    /\ o >= Listing.len
    /\ at' = "done" /\ UNCHANGED <<pos, got>>

(* In range, but no record begins where the walk is.                       *)
Lost(o) ==
    /\ o < Listing.len /\ pos \notin DOMAIN Listing.at
    /\ at' = "done" /\ got' = Append(got, GARBAGE) /\ UNCHANGED pos

(* plc_tag_get_int32(METATAG_ID, pos): a record's id.                      *)
ReadId ==
    /\ at = "id" /\ Get
    /\ \/ OutOfRange(pos)
       \/ Lost(pos)
       \/ /\ pos < Listing.len /\ pos \in DOMAIN Listing.at
          /\ at' = "length" /\ got' = Append(got, Listing.at[pos].id)
          /\ UNCHANGED pos

(* plc_tag_get_int16(METATAG_ID, pos + LENGTH_AT): its name's length.      *)
ReadLength ==
    /\ at = "length" /\ Get
    /\ \/ OutOfRange(pos + LENGTH_AT)
       \/ Lost(pos + LENGTH_AT)
       \/ /\ pos + LENGTH_AT < Listing.len /\ pos \in DOMAIN Listing.at
          /\ at' = "id" /\ pos' = pos + RecordSize(Listing.at[pos].length)
          /\ UNCHANGED got

-----------------------------------------------------------------------------
Init ==
    /\ tags = [i \in METATAG_ID + 1 .. METATAG_ID + NInit |-> PREDEFINED_NAME]
    /\ meta = NULL
    /\ at = "done" /\ pos = 0 /\ got = <<>> /\ start = {}
    /\ destroyed = FALSE /\ upset = FALSE /\ calls = 0

Next ==
    \/ \E length \in NameLengths : Create(length)
    \/ CreateMeta
    \/ \E i \in DOMAIN tags : Destroy(i)
    \/ WalkStart \/ ReadId \/ ReadLength

Spec == Init /\ [][Next]_vars

-----------------------------------------------------------------------------
TagIds == METATAG_ID + 1 .. MaxId
Lengths == NameLengths \cup {PREDEFINED_NAME}
Found == {got[k] : k \in DOMAIN got}

(* Types; in particular the metatag lists tags, never itself.              *)
TypeOK ==
    /\ DOMAIN tags \subseteq TagIds
    /\ \A i \in DOMAIN tags : tags[i] \in Lengths
    /\ meta # NULL =>
          /\ meta.len \in 0 .. LenMod - 1
          /\ \A o \in DOMAIN meta.at :
                o \in Nat /\ meta.at[o] \in [id : TagIds, length : Lengths]
    /\ at \in {"id", "length", "done"}
    /\ pos \in Nat
    /\ got \in Seq(TagIds \cup {GARBAGE})
    /\ start \subseteq TagIds
    /\ destroyed \in BOOLEAN /\ upset \in BOOLEAN /\ calls \in 0 .. MaxCalls

(* A walk reads records only, although the metatag is rebuilt under it     *)
(* whenever a tag is created: ids grow, so a new record goes to the end    *)
(* and none moves.  (Unless a tag is destroyed too, or "@tags" is created  *)
(* while it exists.)                                                       *)
WalkParses == ~upset => GARBAGE \notin Found

(* Under the same conditions a walk to the end has read every tag that     *)
(* existed when it began, each once.                                       *)
WalkComplete == at = "done" /\ ~upset =>
    /\ start \subseteq Found
    /\ \A k \in 1 .. Len(got) - 1 : got[k] < got[k + 1]

=============================================================================
