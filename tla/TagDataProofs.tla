--------------------------- MODULE TagDataProofs ----------------------------
(***************************************************************************)
(* TagData's theorems, for any tags, offsets, accessors and attributes.    *)
(***************************************************************************)
EXTENDS TagData, NumberLemmas, FiniteSetTheorems, SequenceTheorems, TLAPS

(* The inductive invariant: the tree is finite, which makes the size of    *)
(* the metatag a number; what TypeOK says of every tag; and StraysKnown.   *)
TreeFinite == IsFiniteSet(DOMAIN tags)

Entries == \A i \in DOMAIN tags :
    /\ DOMAIN tags[i] = {"name", "kind", "len", "data"} /\ tags[i].name \in Nat
    /\ tags[i].kind = "array" => i = METATAG_ID /\ tags[i].len \in Nat
    /\ 0 .. Reach(tags[i]) - 1 \subseteq DOMAIN tags[i].data

Inv == TreeFinite /\ TypeOK /\ StraysKnown

(* What a tag's entry has to be.                                           *)
TagOK(i, t) ==
    /\ DOMAIN t = {"name", "kind", "len", "data"} /\ t.name \in Nat
    /\ t.kind = "array" => i = METATAG_ID /\ t.len \in Nat
    /\ 0 .. Reach(t) - 1 \subseteq DOMAIN t.data

-----------------------------------------------------------------------------
(* A scalar is well made if it has a word of data.                         *)
LEMMA ScalarOK ==
    ASSUME NEW i, NEW t, DOMAIN t = {"name", "kind", "len", "data"},
           t.name \in Nat, t.kind = "scalar", 0 .. 7 \subseteq DOMAIN t.data
    PROVE  TagOK(i, t)
<1>1. Reach(t) = 8
  BY DEF Reach, WORD
<1>2. QED
  BY <1>1 DEF TagOK

(* So is every node that tag_tree_node_create makes.                       *)
LEMMA NodeOK ==
    ASSUME NEW i, NEW name \in Nat, NEW type \in Nat
    PROVE  TagOK(i, Node(name, type)) /\ 0 .. 7 \subseteq DOMAIN Node(name, type).data
<1>1. DataSize(type) \in Nat /\ DataSize(type) >= 8
  BY DEF DataSize, WORD
<1>2. 0 .. 7 \subseteq 0 .. DataSize(type) - 1
  BY <1>1
<1>3. /\ DOMAIN Node(name, type) = {"name", "kind", "len", "data"}
      /\ Node(name, type).name = name /\ Node(name, type).kind = "scalar"
      /\ DOMAIN Node(name, type).data = 0 .. DataSize(type) - 1
  BY DEF Node
<1>4. QED
  BY <1>2, <1>3, ScalarOK

(* Sixteen bits of a number are a number no larger.                        *)
LEMMA Low16 ==
    ASSUME NEW n \in Nat
    PROVE  n % LEN_MOD \in Nat /\ n % LEN_MOD <= n
BY DEF LEN_MOD

(* The metatag's size is a number.                                         *)
LEMMA SizeIsNat ==
    ASSUME TreeFinite, Entries
    PROVE  total_data_size \in Nat
<1> DEFINE Rec(i) == {i} \X (1 .. HEADER + tags[i].name)
           f == [i \in DOMAIN tags |-> Rec(i)]
           S == {Rec(i) : i \in DOMAIN tags}
<1>1. \A i \in DOMAIN tags : IsFiniteSet(Rec(i))
  <2>1. SUFFICES ASSUME NEW i \in DOMAIN tags
                 PROVE  IsFiniteSet(Rec(i))
    OBVIOUS
  <2>2. IsFiniteSet({i})
    BY FS_Singleton
  <2>3. tags[i].name \in Nat
    BY Zenon DEF Entries
  <2>4. HEADER + tags[i].name \in Int
    BY <2>3 DEF HEADER
  <2>5. IsFiniteSet(1 .. HEADER + tags[i].name)
    BY <2>4, FS_Interval
  <2>6. QED
    BY <2>2, <2>5, FS_Product
<1>2. f \in Surjection(DOMAIN tags, S)
  BY Zenon DEF Surjection
<1>3. IsFiniteSet(S)
  BY <1>2, FS_Surjection, Zenon DEF TreeFinite
<1>4. IsFiniteSet(UNION S)
  BY <1>1, <1>3, FS_UNION, Zenon
<1>5. QED
  BY <1>4, FS_CardinalityType, Zenon DEF total_data_size, RecordBytes

(* A new metatag's length is no more than its data, although it keeps 16   *)
(* bits of it.                                                             *)
LEMMA MetanodeOK ==
    ASSUME TreeFinite, Entries, NEW t, t = Metanode
    PROVE  TagOK(METATAG_ID, t)
<1>1. PICK n : n = total_data_size
  OBVIOUS
<1>2. n \in Nat
  BY <1>1, SizeIsNat
<1>3. 0 .. (n % LEN_MOD) - 1 \subseteq 0 .. n - 1
  BY <1>2, Low16
<1>4. /\ DOMAIN t = {"name", "kind", "len", "data"} /\ t.name = 5 /\ t.kind = "array" /\ t.len = n % LEN_MOD
      /\ DOMAIN t.data = 0 .. n - 1
  BY <1>1 DEF Metanode, METATAG_NAME
<1>5. Reach(t) = n % LEN_MOD
  BY <1>4 DEF Reach
<1>6. QED
  BY <1>2, <1>3, <1>4, <1>5, Low16 DEF TagOK

(* Whatever tag a get or set finds is well made.                           *)
LEMMA FoundOK ==
    ASSUME TreeFinite, Entries, NEW id \in DOMAIN tags \cup {METATAG_ID}, NEW t, t = Found(id)
    PROVE  TagOK(id, t)
<1>1. CASE Built(id)
  BY <1>1, MetanodeOK DEF Found, Built
<1>2. CASE ~Built(id)
  <2>1. t = tags[id] /\ id \in DOMAIN tags
    BY <1>2 DEF Found, Built
  <2>2. QED
    BY <2>1 DEF Entries, TagOK
<1>3. QED
  BY <1>1, <1>2

(* An access that is neither refused nor inside a tag's data.              *)
LEMMA StrayOnly ==
    ASSUME NEW id, NEW t, TagOK(id, t), NEW offset \in Int, NEW w \in {1, 2, 4, 8},
           ~Refuses(t, offset), ~Inside(t, offset, w), offset >= 0
    PROVE  id = METATAG_ID /\ w > 1
<1>1. CASE t.kind = "array"
  <2>1. t.len \in Nat /\ 0 .. t.len - 1 \subseteq DOMAIN t.data /\ id = METATAG_ID
    BY <1>1 DEF TagOK, Reach
  <2>2. offset < t.len
    BY <1>1, <2>1 DEF Refuses
  <2>3. offset .. offset + 1 - 1 \subseteq DOMAIN t.data
    BY <2>1, <2>2
  <2>4. QED
    BY <2>1, <2>3 DEF Inside
<1>2. CASE t.kind # "array"
  <2>1. offset = 0 /\ 0 .. 7 \subseteq DOMAIN t.data
    BY <1>2 DEF Refuses, TagOK, Reach, WORD
  <2>2. QED
    BY <2>1 DEF Inside
<1>3. QED
  BY <1>1, <1>2

-----------------------------------------------------------------------------
(* The entries after a step in which one tag, id, got the entry t and no   *)
(* other changed.                                                          *)
LEMMA EntriesKept ==
    ASSUME Entries, NEW id, NEW t, TagOK(id, t),
           \A i \in DOMAIN tags' : \/ i \in DOMAIN tags /\ tags'[i] = tags[i]
                                   \/ i = id /\ tags'[i] = t
    PROVE  Entries'
BY DEF Entries, TagOK

(* The tree grows by one tag at most.                                      *)
LEMMA FiniteKept ==
    ASSUME TreeFinite, NEW id, DOMAIN tags' \subseteq DOMAIN tags \cup {id}
    PROVE  TreeFinite'
<1>1. IsFiniteSet(DOMAIN tags \cup {id})
  BY FS_AddElement, Zenon DEF TreeFinite
<1>2. QED
  BY <1>1, FS_Subset, Zenon DEF TreeFinite

(* TypeOK in terms of Entries.                                             *)
Control ==
    /\ last.call \in {"none", "create", "destroy", "get", "set"}
    /\ fault \in {"none", "null", "access"}
    /\ calls \in 0 .. MaxCalls

(* The type invariant in two halves: the tags, and the rest.               *)
LEMMA TypeSplit == TypeOK <=> Entries /\ Control
BY DEF TypeOK, Entries, Control

(* The tags of tags.inc are well made.                                     *)
LEMMA InitInv == Init => Inv
<1>1. SUFFICES ASSUME Init PROVE Inv
  OBVIOUS
<1>2. PICK N : N = Node(PREDEFINED_NAME, TYPE_INT)
  OBVIOUS
<1>3. /\ 0 .. 7 \subseteq DOMAIN N.data /\ N.name \in Nat /\ N.kind = "scalar"
      /\ DOMAIN N = {"name", "kind", "len", "data"}
  <2>1. PREDEFINED_NAME \in Nat /\ TYPE_INT \in Nat
    BY DEF PREDEFINED_NAME, TYPE_INT
  <2>2. /\ N.name = PREDEFINED_NAME /\ N.kind = "scalar"
        /\ DOMAIN N = {"name", "kind", "len", "data"}
    BY <1>2 DEF Node
  <2>3. QED
    BY <1>2, <2>1, <2>2, NodeOK
<1>4. \A id \in DOMAIN tags :
          DOMAIN tags[id] = DOMAIN N /\ tags[id].name = N.name /\ tags[id].kind = "scalar" /\ DOMAIN tags[id].data = DOMAIN N.data
  BY <1>1, <1>2, <1>3 DEF Init, DEFINE_SCALAR, Setter, Node
<1>5. Entries
  BY <1>3, <1>4 DEF Entries, Reach, WORD
<1>6. TreeFinite
  <2>1. IsFiniteSet(PredefinedIds)
    BY FS_Interval, ConstantsAssumption DEF PredefinedIds, METATAG_ID
  <2>2. QED
    BY <1>1, <2>1, Zenon DEF Init, TreeFinite
<1>7. Control /\ StraysKnown
  BY <1>1, ConstantsAssumption DEF Init, Control, StraysKnown
<1>8. QED
  BY <1>5, <1>6, <1>7, TypeSplit DEF Inv

(* The parts of Inv, as the lemmas below prove them.                       *)
LEMMA InvParts ==
    ASSUME TreeFinite', Entries', Control', StraysKnown'
    PROVE  Inv'
BY DEF Inv, TypeOK, Entries, Control

(* Any call makes the log and the counter right.                           *)
LEMMA CallControl ==
    ASSUME Inv, NEW c, Call(c), c.call \in {"create", "destroy", "get", "set"},
           fault' \in {"none", "null", "access"}
    PROVE  Control'
BY TypeSplit, ConstantsAssumption DEF Inv, Control, Call

(* plc_tag_create leaves well-made tags, whatever the string.              *)
LEMMA CreateInv ==
    ASSUME Inv, NEW attribs, plc_tag_create(attribs)
    PROVE  Inv'
<1> DEFINE p == Parsed(attribs)
           Returns(ret) == Call([call |-> "create", attribs |-> attribs, ret |-> ret])
<1>0. TreeFinite /\ Entries /\ Control
  BY TypeSplit DEF Inv
<1>1. /\ \E ret : Returns(ret)
      /\ fault' = fault \/ fault' = "null"
  BY DEF plc_tag_create
<1>2. PICK ret : Returns(ret)
  BY <1>1
<1>3. Control' /\ StraysKnown'
  <2>1. fault = "none"
    BY <1>2 DEF Call
  <2>2. fault' \in {"none", "null"}
    BY <1>1, <2>1
  <2>3. Control'
    BY <1>2, <2>2, CallControl
  <2>4. QED
    BY <2>2, <2>3 DEF StraysKnown
<1>4. TreeFinite' /\ Entries'
  <2>1. CASE UNCHANGED tags
    BY <1>0, <2>1 DEF TreeFinite, Entries
  <2>2. CASE tags' = With(METATAG_ID, Metanode)
    <3>1. PICK t : t = Metanode
      OBVIOUS
    <3>2. TagOK(METATAG_ID, t)
      BY <1>0, <3>1, MetanodeOK
    <3>3. \A i \in DOMAIN tags' : \/ i \in DOMAIN tags /\ tags'[i] = tags[i]
                                  \/ i = METATAG_ID /\ tags'[i] = t
      BY <2>2, <3>1 DEF With
    <3>4. DOMAIN tags' = DOMAIN tags \cup {METATAG_ID}
      BY <2>2 DEF With
    <3>5. Entries'
      BY <1>0, <3>2, <3>3, EntriesKept
    <3>6. TreeFinite'
      BY <1>0, <3>4, FiniteKept
    <3>7. QED
      BY <3>5, <3>6
  <2>3. CASE /\ p.name \in Nat
             /\ tags' = [i \in (DOMAIN tags \cup {NextId}) \ {METATAG_ID} |->
                            With(NextId, Node(p.name, TYPE_LINT))[i]]
    <3>1. PICK id, t : id = NextId /\ t = Node(p.name, TYPE_LINT)
      OBVIOUS
    <3>2. TagOK(id, t)
      BY <2>3, <3>1, NodeOK DEF TYPE_LINT
    <3>3. /\ DOMAIN tags' \subseteq DOMAIN tags \cup {id}
          /\ \A i \in DOMAIN tags' : \/ i \in DOMAIN tags /\ tags'[i] = tags[i]
                                     \/ i = id /\ tags'[i] = t
      BY <2>3, <3>1 DEF With
    <3>4. Entries'
      BY <1>0, <3>2, <3>3, EntriesKept
    <3>5. TreeFinite'
      BY <1>0, <3>3, FiniteKept
    <3>6. QED
      BY <3>4, <3>5
  <2>4. QED
    BY <2>1, <2>2, <2>3 DEF plc_tag_create
<1>5. QED
  BY <1>3, <1>4, InvParts

(* So does plc_tag_destroy.                                                *)
LEMMA DestroyInv ==
    ASSUME Inv, NEW id, plc_tag_destroy(id)
    PROVE  Inv'
<1>0. TreeFinite /\ Entries /\ Control
  BY TypeSplit DEF Inv
<1>1. /\ DOMAIN tags' \subseteq DOMAIN tags
      /\ \A i \in DOMAIN tags' : tags'[i] = tags[i]
      /\ fault = "none" /\ fault' = fault
  BY DEF plc_tag_destroy, Call
<1>2. Entries'
  BY <1>0, <1>1 DEF Entries
<1>3. TreeFinite'
  <2>1. DOMAIN tags' \subseteq DOMAIN tags \cup {id}
    BY <1>1
  <2>2. QED
    BY <1>0, <2>1, FiniteKept
<1>4. Control'
  BY <1>0, <1>1, CallControl DEF plc_tag_destroy
<1>5. StraysKnown'
  BY <1>1 DEF StraysKnown
<1>6. QED
  BY <1>2, <1>3, <1>4, <1>5, InvParts

(* An access, whatever it does with the bytes, of the tag that it found.   *)
LEMMA AccessInv ==
    ASSUME Inv, NEW call \in {"get", "set"}, NEW id \in DOMAIN tags \cup {METATAG_ID},
           NEW offset \in Int, NEW w \in {1, 2, 4, 8}, NEW value, NEW t, t = Found(id),
           Access(call, id, offset, w, Result(t, offset, w), value)
    PROVE  Control' /\ StraysKnown'
<1>0. TreeFinite /\ Entries /\ Control
  BY TypeSplit DEF Inv
<1>1. TagOK(id, t)
  BY <1>0, FoundOK
<1>2. /\ fault' = IF Result(t, offset, w) = NULL THEN "access" ELSE "none"
      /\ last'.offset = offset /\ last'.id = id /\ last'.width = w
  BY DEF Access, Call
<1>3. Control'
  <2>1. PICK c : c = [call |-> call, id |-> id, offset |-> offset, width |-> w,
                      ret |-> Result(t, offset, w), value |-> value]
    OBVIOUS
  <2>2. Call(c) /\ c.call = call
    BY <2>1 DEF Access
  <2>3. QED
    BY <1>2, <2>2, CallControl
<1>4. StraysKnown'
  <2>1. SUFFICES ASSUME Result(t, offset, w) = NULL, offset >= 0
                 PROVE  id = METATAG_ID /\ w > 1
    BY <1>2 DEF StraysKnown
  <2>2. ~Refuses(t, offset) /\ ~Inside(t, offset, w)
    BY <2>1, ConstantsAssumption DEF Result, PLCTAG_ERR_BAD_PARAM, PLCTAG_STATUS_OK
  <2>3. QED
    BY <1>1, <2>1, <2>2, StrayOnly
<1>5. QED
  BY <1>3, <1>4

(* A get or a set puts back the tag it found, with as much data as before. *)
LEMMA TagInv ==
    ASSUME Inv, NEW id \in DOMAIN tags \cup {METATAG_ID}, NEW t, t = Found(id),
           NEW u, DOMAIN u = DOMAIN t, u.name = t.name, u.kind = t.kind, u.len = t.len, DOMAIN u.data = DOMAIN t.data,
           tags' = With(id, u)
    PROVE  TreeFinite' /\ Entries'
<1>0. TreeFinite /\ Entries
  BY TypeSplit DEF Inv
<1>1. TagOK(id, t)
  BY <1>0, FoundOK
<1>2. TagOK(id, u)
  BY <1>1 DEF TagOK, Reach
<1>3. /\ DOMAIN tags' \subseteq DOMAIN tags \cup {id}
      /\ \A i \in DOMAIN tags' : \/ i \in DOMAIN tags /\ tags'[i] = tags[i]
                                 \/ i = id /\ tags'[i] = u
  BY DEF With
<1>4. Entries'
  BY <1>0, <1>2, <1>3, EntriesKept
<1>5. TreeFinite'
  BY <1>0, <1>3, FiniteKept
<1>6. QED
  BY <1>4, <1>5

(* So does a get, which may build the metatag.                             *)
LEMMA GetInv ==
    ASSUME Inv, NEW id, NEW offset \in Int, NEW w \in {1, 2, 4, 8}, plc_tag_get(id, offset, w)
    PROVE  Inv'
<1>1. PICK t : t = Found(id)
  OBVIOUS
<1>2. id \in DOMAIN tags \cup {METATAG_ID} /\ tags' = With(id, t)
  BY <1>1 DEF plc_tag_get
<1>3. PICK value : Access("get", id, offset, w, Result(t, offset, w), value)
  BY <1>1 DEF plc_tag_get
<1>4. Control' /\ StraysKnown'
  BY <1>1, <1>2, <1>3, AccessInv
<1>5. TreeFinite' /\ Entries'
  BY <1>1, <1>2, TagInv
<1>6. QED
  BY <1>4, <1>5, InvParts

(* So does a set, which changes bytes and not how many there are.          *)
LEMMA SetInv ==
    ASSUME Inv, NEW id, NEW offset \in Int, NEW w \in {1, 2, 4, 8}, NEW v,
           plc_tag_set(id, offset, w, v)
    PROVE  Inv'
<1>1. PICK t : t = Found(id)
  OBVIOUS
<1>2. id \in DOMAIN tags \cup {METATAG_ID}
  BY DEF plc_tag_set
<1>3. Access("set", id, offset, w, Result(t, offset, w), <<>>)
  BY <1>1 DEF plc_tag_set
<1>4. Control' /\ StraysKnown'
  BY <1>1, <1>2, <1>3, AccessInv
<1>5. TreeFinite' /\ Entries'
  <2>1. CASE tags' = With(id, t)
    BY <1>1, <1>2, <2>1, TagInv
  <2>2. CASE tags' = With(id, [t EXCEPT !.data = Setter(@, offset, w, v)])
    <3>1. PICK u : u = [t EXCEPT !.data = Setter(@, offset, w, v)]
      OBVIOUS
    <3>2. TagOK(id, t)
      BY <1>1, <1>2, FoundOK, TypeSplit DEF Inv
    <3>3. DOMAIN t = {"name", "kind", "len", "data"}
      BY <3>2 DEF TagOK
    <3>4. /\ DOMAIN u = DOMAIN t /\ u.name = t.name /\ u.kind = t.kind /\ u.len = t.len
          /\ DOMAIN u.data = DOMAIN t.data
      BY <3>1, <3>3 DEF Setter
    <3>5. tags' = With(id, u)
      BY <2>2, <3>1
    <3>6. QED
      BY <1>1, <1>2, <3>4, <3>5, TagInv
  <2>3. QED
    BY <1>1, <2>1, <2>2 DEF plc_tag_set
<1>6. QED
  BY <1>4, <1>5, InvParts

(* So Inv is inductive.                                                    *)
LEMMA StepInv == Inv /\ [Next]_vars => Inv'
<1>1. SUFFICES ASSUME Inv, [Next]_vars PROVE Inv'
  OBVIOUS
<1>2. CASE UNCHANGED vars
  BY <1>1, <1>2 DEF vars, Inv, TreeFinite, TypeOK, StraysKnown
<1>3. ASSUME NEW attribs, plc_tag_create(attribs) PROVE Inv'
  BY <1>1, <1>3, CreateInv
<1>4. ASSUME NEW id, plc_tag_destroy(id) PROVE Inv'
  BY <1>1, <1>4, DestroyInv
<1>5. ASSUME NEW id, NEW offset \in Offsets, NEW w \in Widths, plc_tag_get(id, offset, w)
      PROVE  Inv'
  BY <1>1, <1>5, GetInv, ConstantsAssumption
<1>6. ASSUME NEW id, NEW offset \in Offsets, NEW w \in Widths, NEW v,
             plc_tag_set(id, offset, w, v)
      PROVE  Inv'
  BY <1>1, <1>6, SetInv, ConstantsAssumption
<1>7. QED
  BY <1>1, <1>2, <1>3, <1>4, <1>5, <1>6 DEF Next

(* The data of every tag are as large as its type says and a word at least *)
(* if it is a scalar, for any names, values and attribute strings.         *)
THEOREM TypeCorrect == Spec => []TypeOK
<1>1. Inv => TypeOK
  BY DEF Inv
<1>2. QED
  BY <1>1, InitInv, StepInv, PTL DEF Spec

(* No access at an offset of zero or more goes outside a tag's data unless *)
(* it is of the metatag and wider than a byte: for any tags, offsets and   *)
(* accessors, and however long the metatag is.                             *)
THEOREM StraysAreKnown == Spec => []StraysKnown
<1>1. Inv => StraysKnown
  BY DEF Inv
<1>2. QED
  BY <1>1, InitInv, StepInv, PTL DEF Spec

-----------------------------------------------------------------------------
(* What a get returns.  A log of sets, and the byte it leaves at place b   *)
(* of data that were d before.                                             *)
Entry == [at : Int, value : UNION {[0 .. w - 1 -> Nat] : w \in Nat}]

Covers(e, b) == b - e.at \in DOMAIN e.value

LastByte(log, b, d) ==
    LET of == {k \in DOMAIN log : Covers(log[k], b)}
    IN  IF of # {} THEN log[Max(of)].value[b - log[Max(of)].at] ELSE d

Blank(id) == IF id = METATAG_ID THEN LISTING ELSE FILL

(* The data of tag id, with the entry t, are what the log says.            *)
Follows(id, t, log) ==
    /\ log \in Seq(Entry) /\ DOMAIN t.data \subseteq Int
    /\ \A b \in DOMAIN t.data : t.data[b] = LastByte(log, b, Blank(id))

(* Ids are numbers with an upper bound, so that the next one is new.       *)
IdsInv ==
    /\ tags = [i \in DOMAIN tags |-> tags[i]]
    /\ \A i \in DOMAIN tags : i \in Nat /\ i >= METATAG_ID
    /\ \E k \in Nat : \A i \in DOMAIN tags : i <= k

DataFollow == \A i \in DOMAIN tags : i \in DOMAIN writes /\ Follows(i, tags[i], writes[i])

DataInv == Inv /\ IdsInv /\ DataFollow /\ ReadsLastWrite

(* ReadsLastWrite in these terms, of this state and of the next.           *)
Reads(call, log) ==
    call.call = "get" /\ call.ret = PLCTAG_STATUS_OK =>
        \A b \in DOMAIN call.value :
            call.value[b] = LastByte(log, call.offset + b, Blank(call.id))

(* ReadsLastWrite speaks of the log of the tag that was read,              *)
LEMMA ReadsByLog == ReadsLastWrite <=> Reads(last, writes[last.id])
BY DEF ReadsLastWrite, Reads, Written, LastByte, Covers, Blank

(* after a step as before it.                                              *)
LEMMA ReadsByLogNext == ReadsLastWrite' <=> Reads(last', writes'[last'.id])
BY DEF ReadsLastWrite, Reads, Written, LastByte, Covers, Blank

(* An empty log leaves everything as it was; an accepted set decides the   *)
(* bytes that it covers, and only those.                                   *)
LEMMA EmptyLog ==
    ASSUME NEW b, NEW d
    PROVE  <<>> \in Seq(Entry) /\ LastByte(<<>>, b, d) = d
BY DEF LastByte

(* A longer log: the new entry has the last word where it reaches.         *)
LEMMA LongerLog ==
    ASSUME NEW log \in Seq(Entry), NEW e \in Entry, NEW b \in Int, NEW d
    PROVE  /\ Append(log, e) \in Seq(Entry)
           /\ LastByte(Append(log, e), b, d) =
                 IF Covers(e, b) THEN e.value[b - e.at] ELSE LastByte(log, b, d)
<1> DEFINE longer == Append(log, e)
           n == Len(log) + 1
           Of == {k \in DOMAIN log : Covers(log[k], b)}
           OfLonger == {k \in DOMAIN longer : Covers(longer[k], b)}
<1>1. /\ longer \in Seq(Entry) /\ n \in Nat /\ DOMAIN longer = DOMAIN log \cup {n}
      /\ longer[n] = e /\ n \notin DOMAIN log /\ DOMAIN log = 1 .. Len(log)
      /\ \A k \in DOMAIN log : longer[k] = log[k]
  OBVIOUS
<1> HIDE DEF longer, n
<1>2. CASE Covers(e, b)
  <2>1. n \in OfLonger /\ \A k \in OfLonger : k \in Int /\ k <= n
    BY <1>1, <1>2 DEF n
  <2>2. Max(OfLonger) = n
    BY <2>1, MaxIs
  <2>3. LastByte(longer, b, d) = e.value[b - e.at]
    BY <1>1, <2>1, <2>2 DEF LastByte
  <2>4. QED
    BY <1>1, <1>2, <2>3 DEF longer
<1>3. CASE ~Covers(e, b)
  <2>1. OfLonger = Of
    BY <1>1, <1>3
  <2>2. CASE Of = {}
    BY <1>1, <1>3, <2>1, <2>2 DEF LastByte, longer
  <2>3. CASE Of # {}
    <3>1. Of \in SUBSET Nat /\ Len(log) \in Nat /\ \A k \in Of : k <= Len(log)
      BY <1>1
    <3>2. Max(Of) \in Of
      BY <2>3, <3>1, MaxExists
    <3>3. QED
      BY <1>1, <1>3, <2>1, <2>3, <3>1, <3>2 DEF LastByte, longer
  <2>4. QED
    BY <2>2, <2>3
<1>4. QED
  BY <1>2, <1>3

(* NextId is above every id in use.                                        *)
LEMMA NextIdNew ==
    ASSUME IdsInv
    PROVE  NextId \in Nat /\ NextId > METATAG_ID /\ \A i \in DOMAIN tags : i < NextId
<1>1. CASE tags = <<>>
  BY <1>1 DEF NextId, METATAG_ID
<1>2. CASE tags # <<>>
  <2>1. DOMAIN tags # {}
    <3>1. tags = [i \in DOMAIN tags |-> tags[i]]
      BY DEF IdsInv
    <3>2. QED
      BY ONLY <1>2, <3>1
  <2>2. PICK k \in Nat : \A i \in DOMAIN tags : i <= k
    BY DEF IdsInv
  <2>3. DOMAIN tags \in SUBSET Nat /\ \A i \in DOMAIN tags : i >= METATAG_ID
    BY DEF IdsInv
  <2>4. Max(DOMAIN tags) \in DOMAIN tags /\ \A i \in DOMAIN tags : i <= Max(DOMAIN tags)
    BY <2>1, <2>2, <2>3, MaxExists
  <2>5. QED
    BY <1>2, <2>3, <2>4 DEF NextId, METATAG_ID
<1>3. QED
  BY <1>1, <1>2

(* The ids after a step that gave at most one tag, id, an entry.           *)
LEMMA IdsKept ==
    ASSUME IdsInv, NEW id \in Nat, id >= METATAG_ID, DOMAIN tags' \subseteq DOMAIN tags \cup {id},
           tags' = [i \in DOMAIN tags' |-> tags'[i]]
    PROVE  IdsInv'
<1>1. PICK k \in Nat : \A i \in DOMAIN tags : i <= k
  BY DEF IdsInv
<1>2. PICK j \in Nat : k <= j /\ id <= j
  <2>1. k <= k + id /\ id <= k + id /\ k + id \in Nat
    OBVIOUS
  <2>2. QED
    BY <2>1
<1>3. \A i \in DOMAIN tags' : i \in Nat /\ i >= METATAG_ID /\ i <= j
  BY <1>1, <1>2 DEF IdsInv
<1>4. QED
  BY <1>2, <1>3 DEF IdsInv

(* The data after a step that gave one tag, id, the entry t and the log l, *)
(* and changed no other that stays.                                        *)
LEMMA FollowKept ==
    ASSUME DataFollow, NEW id, NEW t, NEW l, Follows(id, t, l),
           \A i \in DOMAIN tags' : \/ i \in DOMAIN tags /\ i # id /\ tags'[i] = tags[i]
                                   \/ i = id /\ tags'[i] = t,
           DOMAIN writes' = DOMAIN writes \cup {id}, writes'[id] = l,
           \A i \in DOMAIN writes : i # id => writes'[i] = writes[i]
    PROVE  DataFollow'
BY DEF DataFollow, Follows

(* A new tag's data are blank.                                             *)
LEMMA NewFollows ==
    ASSUME NEW id, NEW t, DOMAIN t.data \subseteq Int,
           \A b \in DOMAIN t.data : t.data[b] = Blank(id)
    PROVE  Follows(id, t, <<>>)
BY EmptyLog DEF Follows

(* A new scalar's data are zero bytes.                                     *)
LEMMA NewScalarFollows ==
    ASSUME NEW id, id # METATAG_ID, NEW name, NEW type \in Nat
    PROVE  Follows(id, Node(name, type), <<>>)
<1>1. DataSize(type) \in Nat
  BY DEF DataSize, WORD
<1>2. Node(name, type).data = [b \in 0 .. DataSize(type) - 1 |-> FILL]
  BY DEF Node
<1>3. QED
  BY <1>1, <1>2, NewFollows DEF Blank

(* A new metatag's bytes are what was built into them.                     *)
LEMMA NewMetanodeFollows ==
    ASSUME TreeFinite, Entries
    PROVE  Follows(METATAG_ID, Metanode, <<>>)
<1>1. PICK n : n = total_data_size
  OBVIOUS
<1>2. n \in Nat
  BY <1>1, SizeIsNat
<1>3. Metanode.data = [b \in 0 .. n - 1 |-> LISTING]
  BY <1>1 DEF Metanode
<1>4. QED
  BY <1>2, <1>3, NewFollows DEF Blank

(* A set that writes inside the data adds itself to the log.               *)
LEMMA SetterFollows ==
    ASSUME NEW id, NEW t, NEW u, NEW log, Follows(id, t, log), NEW offset \in Int,
           NEW w \in {1, 2, 4, 8}, NEW v \in Nat, u.data = Setter(t.data, offset, w, v)
    PROVE  Follows(id, u, Append(log, [at |-> offset, value |-> Bytes(v, w)]))
<1> DEFINE e == [at |-> offset, value |-> Bytes(v, w)]
<1>1. Bytes(v, w) \in [0 .. w - 1 -> Nat] /\ w \in Nat /\ DOMAIN Bytes(v, w) = 0 .. w - 1
  BY DEF Bytes
<1>2. e \in Entry
  BY <1>1, SMTT(30) DEF Entry
<1>3. \A b \in Int : Covers(e, b) <=> b \in offset .. offset + w - 1
  BY <1>1 DEF Covers
<1>4. /\ DOMAIN u.data = DOMAIN t.data
      /\ \A b \in DOMAIN t.data :
            u.data[b] = IF b \in offset .. offset + w - 1 THEN Bytes(v, w)[b - offset]
                        ELSE t.data[b]
  BY DEF Setter
<1>5. e.at = offset /\ e.value = Bytes(v, w)
  OBVIOUS
<1> HIDE DEF e
<1>6. log \in Seq(Entry) /\ DOMAIN t.data \subseteq Int
      /\ \A b \in DOMAIN t.data : t.data[b] = LastByte(log, b, Blank(id))
  BY DEF Follows
<1>7. Append(log, e) \in Seq(Entry)
  BY <1>2, <1>6, LongerLog
<1>8. \A b \in DOMAIN t.data : u.data[b] = LastByte(Append(log, e), b, Blank(id))
  BY <1>2, <1>3, <1>4, <1>5, <1>6, LongerLog
<1>9. QED
  BY <1>4, <1>6, <1>7, <1>8 DEF Follows, e

-----------------------------------------------------------------------------
(* A tag that a get or a set finds has the data that its log says.         *)
LEMMA FoundFollows ==
    ASSUME DataInv, NEW id \in DOMAIN tags \cup {METATAG_ID}
    PROVE  Follows(id, Found(id), IF Built(id) THEN <<>> ELSE writes[id])
<1>1. CASE Built(id)
  BY <1>1, NewMetanodeFollows, TypeSplit DEF Found, Built, DataInv, Inv
<1>2. CASE ~Built(id)
  BY <1>2 DEF Found, Built, DataInv, DataFollow
<1>3. QED
  BY <1>1, <1>2

(* plc_tag_create gives the new tag an empty log.                          *)
LEMMA CreateFollows ==
    ASSUME DataInv, NEW attribs, plc_tag_create(attribs)
    PROVE  IdsInv' /\ DataFollow' /\ ReadsLastWrite'
<1> DEFINE p == Parsed(attribs)
<1>0. TreeFinite /\ Entries /\ IdsInv /\ DataFollow
  BY TypeSplit DEF DataInv, Inv
<1>1. ReadsLastWrite'
  <2>1. last'.call = "create"
    BY DEF plc_tag_create, Call
  <2>2. QED
    BY <2>1 DEF ReadsLastWrite
<1>2. CASE UNCHANGED <<tags, writes>>
  BY <1>0, <1>1, <1>2 DEF IdsInv, DataFollow
<1>3. CASE tags' = With(METATAG_ID, Metanode) /\ writes' = NoWrites(METATAG_ID)
  <2>1. PICK t : t = Metanode
    OBVIOUS
  <2>2. Follows(METATAG_ID, t, <<>>)
    BY <1>0, <2>1, NewMetanodeFollows
  <2>3. /\ DOMAIN tags' = DOMAIN tags \cup {METATAG_ID}
        /\ tags' = [i \in DOMAIN tags' |-> tags'[i]]
        /\ \A i \in DOMAIN tags' : \/ i \in DOMAIN tags /\ i # METATAG_ID /\ tags'[i] = tags[i]
                                   \/ i = METATAG_ID /\ tags'[i] = t
    BY <1>3, <2>1 DEF With
  <2>4. /\ DOMAIN writes' = DOMAIN writes \cup {METATAG_ID} /\ writes'[METATAG_ID] = <<>>
        /\ \A i \in DOMAIN writes : i # METATAG_ID => writes'[i] = writes[i]
    BY <1>3 DEF NoWrites
  <2>5. IdsInv'
    BY <1>0, <2>3, IdsKept DEF METATAG_ID
  <2>6. QED
    BY <1>0, <1>1, <2>2, <2>3, <2>4, <2>5, FollowKept
<1>4. CASE /\ tags' = [i \in (DOMAIN tags \cup {NextId}) \ {METATAG_ID} |->
                          With(NextId, Node(p.name, TYPE_LINT))[i]]
           /\ writes' = NoWrites(NextId)
  <2>1. PICK id, t : id = NextId /\ t = Node(p.name, TYPE_LINT)
    OBVIOUS
  <2>2. id \in Nat /\ id > METATAG_ID
    BY <1>0, <2>1, NextIdNew
  <2>3. Follows(id, t, <<>>)
    BY <2>1, <2>2, NewScalarFollows DEF METATAG_ID, TYPE_LINT
  <2>4. /\ DOMAIN tags' \subseteq DOMAIN tags \cup {id}
        /\ tags' = [i \in DOMAIN tags' |-> tags'[i]]
        /\ \A i \in DOMAIN tags' : \/ i \in DOMAIN tags /\ i # id /\ tags'[i] = tags[i]
                                   \/ i = id /\ tags'[i] = t
    BY <1>4, <2>1 DEF With
  <2>5. /\ DOMAIN writes' = DOMAIN writes \cup {id} /\ writes'[id] = <<>>
        /\ \A i \in DOMAIN writes : i # id => writes'[i] = writes[i]
    BY <1>4, <2>1 DEF NoWrites
  <2>6. IdsInv'
    BY <1>0, <2>2, <2>4, IdsKept DEF METATAG_ID
  <2>7. QED
    BY <1>0, <1>1, <2>3, <2>4, <2>5, <2>6, FollowKept
<1>5. QED
  BY <1>2, <1>3, <1>4 DEF plc_tag_create

(* plc_tag_destroy changes no tag that stays.                              *)
LEMMA DestroyFollows ==
    ASSUME DataInv, NEW id, plc_tag_destroy(id)
    PROVE  IdsInv' /\ DataFollow' /\ ReadsLastWrite'
<1>1. /\ DOMAIN tags' \subseteq DOMAIN tags /\ writes' = writes
      /\ tags' = [i \in DOMAIN tags' |-> tags'[i]]
      /\ \A i \in DOMAIN tags' : tags'[i] = tags[i]
  BY DEF plc_tag_destroy
<1>2. last'.call = "destroy"
  BY DEF plc_tag_destroy, Call
<1>3. IdsInv'
  BY <1>1 DEF DataInv, IdsInv
<1>4. DataFollow'
  BY <1>1 DEF DataInv, DataFollow
<1>5. QED
  BY <1>2, <1>3, <1>4 DEF ReadsLastWrite

(* A get or a set, which leaves tag id with the entry u and the log l.     *)
LEMMA AccessFollows ==
    ASSUME DataInv, NEW id \in DOMAIN tags \cup {METATAG_ID}, NEW u, NEW l,
           Follows(id, u, l), tags' = With(id, u),
           DOMAIN writes' = DOMAIN writes \cup {id}, writes'[id] = l,
           \A i \in DOMAIN writes : i # id => writes'[i] = writes[i]
    PROVE  IdsInv' /\ DataFollow'
<1>1. id \in Nat /\ id >= METATAG_ID
  BY DEF DataInv, IdsInv, METATAG_ID
<1>2. /\ DOMAIN tags' = DOMAIN tags \cup {id}
      /\ tags' = [i \in DOMAIN tags' |-> tags'[i]]
      /\ \A i \in DOMAIN tags' : \/ i \in DOMAIN tags /\ i # id /\ tags'[i] = tags[i]
                                 \/ i = id /\ tags'[i] = u
  BY DEF With
<1>3. QED
  BY <1>1, <1>2, IdsKept, FollowKept DEF DataInv

(* A get returns what the log says.                                        *)
LEMMA GetFollows ==
    ASSUME DataInv, NEW id, NEW offset \in Int, NEW w \in {1, 2, 4, 8},
           plc_tag_get(id, offset, w)
    PROVE  IdsInv' /\ DataFollow' /\ ReadsLastWrite'
<1> DEFINE l == IF Built(id) THEN <<>> ELSE writes[id]
<1>1. PICK t : t = Found(id)
  OBVIOUS
<1>2. id \in DOMAIN tags \cup {METATAG_ID} /\ tags' = With(id, t)
  BY <1>1 DEF plc_tag_get
<1>3. Follows(id, t, l)
  BY <1>1, <1>2, FoundFollows
<1>4. /\ DOMAIN writes' = DOMAIN writes \cup {id} /\ writes'[id] = l
      /\ \A i \in DOMAIN writes : i # id => writes'[i] = writes[i]
  <2>1. ~Built(id) => id \in DOMAIN writes
    BY <1>2 DEF DataInv, DataFollow, Built
  <2>2. writes' = IF Built(id) THEN NoWrites(id) ELSE writes
    BY DEF plc_tag_get
  <2>3. QED
    BY <2>1, <2>2 DEF NoWrites
<1>5. IdsInv' /\ DataFollow'
  BY <1>2, <1>3, <1>4, AccessFollows
<1>6. ReadsLastWrite'
  <2>1. PICK ret : ret = Result(t, offset, w)
    OBVIOUS
  <2>2. /\ last'.ret = ret /\ last'.id = id /\ last'.offset = offset
        /\ last'.value = IF ret = PLCTAG_STATUS_OK THEN Getter(t.data, offset, w) ELSE <<>>
    BY <1>1, <2>1 DEF plc_tag_get, Access, Call
  <2>3. SUFFICES ASSUME ret = PLCTAG_STATUS_OK, NEW b \in DOMAIN last'.value
                 PROVE  last'.value[b] = LastByte(writes'[id], offset + b, Blank(id))
    BY <2>2, ReadsByLogNext DEF Reads
  <2>4. last'.value[b] = t.data[offset + b] /\ b \in 0 .. w - 1
    BY <2>2, <2>3 DEF Getter
  <2>5. Inside(t, offset, w)
    BY <2>1, <2>3, ConstantsAssumption DEF Result, PLCTAG_STATUS_OK, PLCTAG_ERR_BAD_PARAM
  <2>6. offset + b \in DOMAIN t.data
    BY <2>4, <2>5 DEF Inside
  <2>7. QED
    BY <1>3, <1>4, <2>4, <2>6 DEF Follows
<1>7. QED
  BY <1>5, <1>6

(* A set that is accepted adds itself to the log.                          *)
LEMMA SetFollows ==
    ASSUME DataInv, NEW id, NEW offset \in Int, NEW w \in {1, 2, 4, 8}, NEW v \in Nat,
           plc_tag_set(id, offset, w, v)
    PROVE  IdsInv' /\ DataFollow' /\ ReadsLastWrite'
<1> DEFINE l == IF Built(id) THEN <<>> ELSE writes[id]
           before == IF Built(id) THEN NoWrites(id) ELSE writes
           e == [at |-> offset, value |-> Bytes(v, w)]
<1>1. PICK t : t = Found(id)
  OBVIOUS
<1>2. id \in DOMAIN tags \cup {METATAG_ID}
  BY DEF plc_tag_set
<1>3. Follows(id, t, l)
  BY <1>1, <1>2, FoundFollows
<1>4. /\ DOMAIN before = DOMAIN writes \cup {id} /\ before[id] = l
      /\ \A i \in DOMAIN writes : i # id => before[i] = writes[i]
  <2>1. ~Built(id) => id \in DOMAIN writes
    BY <1>2 DEF DataInv, DataFollow, Built
  <2>2. QED
    BY <2>1 DEF NoWrites
<1>5. ReadsLastWrite'
  <2>1. last'.call = "set"
    BY DEF plc_tag_set, Access, Call
  <2>2. QED
    BY <2>1 DEF ReadsLastWrite
<1>6. CASE tags' = With(id, t) /\ writes' = before
  BY <1>2, <1>3, <1>4, <1>5, <1>6, AccessFollows
<1>7. CASE /\ tags' = With(id, [t EXCEPT !.data = Setter(@, offset, w, v)])
           /\ writes' = [before EXCEPT ![id] = Append(@, e)]
  <2>1. PICK u : u = [t EXCEPT !.data = Setter(@, offset, w, v)]
    OBVIOUS
  <2>2. TagOK(id, t)
    BY <1>1, <1>2, FoundOK, TypeSplit DEF DataInv, Inv
  <2>3. u.data = Setter(t.data, offset, w, v)
    BY <2>1, <2>2 DEF TagOK
  <2>4. Follows(id, u, Append(l, e))
    BY <1>3, <2>3, SetterFollows
  <2> HIDE DEF before, e, l
  <2>5. /\ DOMAIN writes' = DOMAIN writes \cup {id} /\ writes'[id] = Append(l, e)
        /\ \A i \in DOMAIN writes : i # id => writes'[i] = writes[i]
    BY <1>4, <1>7
  <2>6. tags' = With(id, u)
    BY <1>7, <2>1
  <2>7. QED
    BY <1>2, <1>5, <2>4, <2>5, <2>6, AccessFollows
<1>8. QED
  BY <1>1, <1>6, <1>7 DEF plc_tag_set

(* The tags of tags.inc, whose values count as sets of one byte.           *)
LEMMA InitFollows == Init => IdsInv /\ DataFollow /\ ReadsLastWrite
<1> SUFFICES ASSUME Init PROVE IdsInv /\ DataFollow /\ ReadsLastWrite
  OBVIOUS
<1>1. /\ DOMAIN tags = PredefinedIds /\ DOMAIN writes = PredefinedIds
      /\ tags = [i \in DOMAIN tags |-> tags[i]]
  BY DEF Init
<1>2. PredefinedIds \subseteq Nat /\ METATAG_ID + NInit \in Nat
      /\ \A i \in PredefinedIds : i > METATAG_ID /\ i <= METATAG_ID + NInit
  BY ConstantsAssumption DEF PredefinedIds, METATAG_ID
<1>3. IdsInv
  <2>1. \A i \in DOMAIN tags : i \in Nat /\ i >= METATAG_ID
    BY <1>1, <1>2 DEF METATAG_ID
  <2>2. QED
    BY <1>1, <1>2, <2>1 DEF IdsInv
<1>4. ASSUME NEW id \in PredefinedIds
      PROVE  Follows(id, tags[id], writes[id])
  <2> DEFINE e == [at |-> 0, value |-> Bytes(Value(id), 1)]
  <2>1. PICK t : t = Node(PREDEFINED_NAME, TYPE_INT)
    OBVIOUS
  <2>2. Follows(id, t, <<>>)
    BY <1>2, <2>1, NewScalarFollows DEF METATAG_ID, TYPE_INT
  <2>3. Value(id) \in Nat
    BY <1>2 DEF Value, METATAG_ID
  <2>4. tags[id].data = Setter(t.data, 0, 1, Value(id))
    BY <2>1 DEF Init, DEFINE_SCALAR, Node
  <2>5. Follows(id, tags[id], Append(<<>>, e))
    <3>1. 0 \in Int /\ 1 \in {1, 2, 4, 8}
      OBVIOUS
    <3>2. QED
      BY ONLY <2>2, <2>3, <2>4, <3>1, SetterFollows
  <2>6. writes[id] = <<e>>
    BY DEF Init
  <2> HIDE DEF e
  <2>7. Append(<<>>, e) = <<e>>
    OBVIOUS
  <2>8. QED
    BY <2>5, <2>6, <2>7
<1>5. DataFollow
  BY <1>1, <1>4 DEF DataFollow
<1>6. ReadsLastWrite
  BY DEF Init, ReadsLastWrite
<1>7. QED
  BY <1>3, <1>5, <1>6

(* Every call keeps the data and the logs in step.                         *)
LEMMA StepFollows ==
    ASSUME DataInv, [Next]_vars
    PROVE  IdsInv' /\ DataFollow' /\ ReadsLastWrite'
<1>1. CASE UNCHANGED vars
  <2>1. UNCHANGED <<tags, last, writes>>
    BY <1>1 DEF vars
  <2>2. IdsInv' /\ DataFollow'
    BY <2>1 DEF DataInv, IdsInv, DataFollow, Follows
  <2>3. ReadsLastWrite'
    BY <2>1, ReadsByLog, ReadsByLogNext DEF DataInv
  <2>4. QED
    BY <2>2, <2>3
<1>2. ASSUME NEW attribs, plc_tag_create(attribs)
      PROVE  IdsInv' /\ DataFollow' /\ ReadsLastWrite'
  BY <1>2, CreateFollows
<1>3. ASSUME NEW id, plc_tag_destroy(id)
      PROVE  IdsInv' /\ DataFollow' /\ ReadsLastWrite'
  BY <1>3, DestroyFollows
<1>4. ASSUME NEW id, NEW offset \in Offsets, NEW w \in Widths, plc_tag_get(id, offset, w)
      PROVE  IdsInv' /\ DataFollow' /\ ReadsLastWrite'
  BY <1>4, GetFollows, ConstantsAssumption
<1>5. ASSUME NEW id, NEW offset \in Offsets, NEW w \in Widths, NEW v \in Values,
             plc_tag_set(id, offset, w, v)
      PROVE  IdsInv' /\ DataFollow' /\ ReadsLastWrite'
  <2>1. offset \in Int /\ w \in {1, 2, 4, 8}
    BY ConstantsAssumption
  <2>2. v \in Nat
    BY ConstantsAssumption
  <2>3. QED
    BY <1>5, <2>1, <2>2, SetFollows
<1>6. QED
  BY <1>1, <1>2, <1>3, <1>4, <1>5 DEF Next

(* The data of every tag are always what the sets since it was made left   *)
(* in them.                                                                *)
THEOREM DataInductive == Spec => []DataInv
<1>1. Init => DataInv
  BY InitInv, InitFollows DEF DataInv
<1>2. DataInv /\ [Next]_vars => DataInv'
  BY StepInv, StepFollows DEF DataInv
<1>3. QED
  BY <1>1, <1>2, PTL DEF Spec

(* So a get returns what was written last, for any tags, offsets, values,  *)
(* mixture of widths and number of calls.                                  *)
THEOREM LastWriteRead == Spec => []ReadsLastWrite
<1>1. DataInv => ReadsLastWrite
  BY DEF DataInv
<1>2. QED
  BY <1>1, DataInductive, PTL

-----------------------------------------------------------------------------
(* An outcome of the loop over attributes, with the attributes kv so far.  *)
Outcome(kv, p, n) ==
    /\ p = [left |-> p.left, name |-> p.name]
    /\ \/ \E k \in 1 .. n :
             /\ kv[k].val = NULL /\ \A j \in 1 .. k - 1 : kv[j].val # NULL
             /\ p.left = IF kv[k].key = "protocol" THEN "fault" ELSE "refused"
       \/ /\ \A k \in 1 .. n : kv[k].val # NULL
          /\ p.left = "no" /\ p.name = NULL
          /\ \A k \in 1 .. n : kv[k].key # "name"
       \/ /\ \A k \in 1 .. n : kv[k].val # NULL
          /\ p.left = "no"
          /\ \E k \in 1 .. n :
                /\ kv[k].key = "name" /\ p.name = kv[k].val
                /\ \A j \in k + 1 .. n : kv[j].key # "name"

(* One more turn of the loop.                                              *)
LEMMA TurnRight ==
    ASSUME NEW kv, NEW p, NEW n \in Nat, Outcome(kv, p, n)
    PROVE  Outcome(kv, Parse(p, kv[n + 1]), n + 1)
<1> DEFINE q == Parse(p, kv[n + 1])
           First(m, k) == k \in 1 .. m /\ kv[k].val = NULL
                             /\ \A j \in 1 .. k - 1 : kv[j].val # NULL
<1>1. p = [left |-> p.left, name |-> p.name]
  BY DEF Outcome
<1>2. q = [left |-> q.left, name |-> q.name]
  BY <1>1 DEF Parse
<1>3. n + 1 \in Nat /\ 1 .. n + 1 = 1 .. n \cup {n + 1} /\ n + 1 \notin 1 .. n
  OBVIOUS
<1>4. CASE p.left # "no"
  <2>1. q = p
    BY <1>4 DEF Parse
  <2>2. PICK k \in 1 .. n :
             /\ kv[k].val = NULL /\ \A j \in 1 .. k - 1 : kv[j].val # NULL
             /\ p.left = IF kv[k].key = "protocol" THEN "fault" ELSE "refused"
    BY <1>4, Zenon DEF Outcome
  <2>3. k \in 1 .. n + 1
    BY <1>3
  <2>4. QED
    BY <1>2, <2>1, <2>2, <2>3, Zenon DEF Outcome
<1>5. CASE p.left = "no" /\ kv[n + 1].val = NULL
  <2>1. q.left = IF kv[n + 1].key = "protocol" THEN "fault" ELSE "refused"
    BY <1>1, <1>5 DEF Parse
  <2>2. \A k \in 1 .. n : kv[k].val # NULL
    BY <1>5, Zenon DEF Outcome
  <2>3. n + 1 \in 1 .. n + 1 /\ 1 .. (n + 1) - 1 = 1 .. n
    OBVIOUS
  <2>4. QED
    BY <1>2, <1>5, <2>1, <2>2, <2>3, Zenon DEF Outcome
<1>6. CASE p.left = "no" /\ kv[n + 1].val # NULL /\ kv[n + 1].key = "name"
  <2>1. q.left = "no" /\ q.name = kv[n + 1].val
    BY <1>1, <1>6 DEF Parse
  <2>2. \A k \in 1 .. n : kv[k].val # NULL
    BY <1>6, Zenon DEF Outcome
  <2>3. n + 1 \in 1 .. n + 1 /\ (n + 1) + 1 .. n + 1 = {}
    OBVIOUS
  <2>4. QED
    BY <1>2, <1>3, <1>6, <2>1, <2>2, <2>3, Zenon DEF Outcome
<1>7. CASE p.left = "no" /\ kv[n + 1].val # NULL /\ kv[n + 1].key # "name"
  <2>1. q = p
    BY <1>7 DEF Parse
  <2>2. \A k \in 1 .. n + 1 : kv[k].val # NULL
    BY <1>3, <1>7, Zenon DEF Outcome
  <2>3. CASE p.name = NULL /\ \A k \in 1 .. n : kv[k].key # "name"
    <3>1. \A k \in 1 .. n + 1 : kv[k].key # "name"
      BY <1>3, <1>7, <2>3, Zenon
    <3>2. QED
      BY <1>2, <1>7, <2>1, <2>2, <2>3, <3>1, Zenon DEF Outcome
  <2>4. CASE \E k \in 1 .. n :
                /\ kv[k].key = "name" /\ p.name = kv[k].val
                /\ \A j \in k + 1 .. n : kv[j].key # "name"
    <3>1. PICK k \in 1 .. n :
                /\ kv[k].key = "name" /\ p.name = kv[k].val
                /\ \A j \in k + 1 .. n : kv[j].key # "name"
      BY <2>4
    <3>2. k \in 1 .. n + 1 /\ k + 1 .. n + 1 = (k + 1 .. n) \cup {n + 1}
      OBVIOUS
    <3>3. \A j \in k + 1 .. n + 1 : kv[j].key # "name"
      BY <1>7, <3>1, <3>2, Zenon
    <3>4. QED
      BY <1>2, <1>7, <2>1, <2>2, <3>1, <3>2, <3>3, Zenon DEF Outcome
  <2>5. QED
    BY <1>7, <2>3, <2>4, Zenon DEF Outcome
<1>8. QED
  BY <1>4, <1>5, <1>6, <1>7, Zenon

(* The loop over the first n attributes of a string.                       *)
Turns(kv, f, n) ==
    f = [m \in 0 .. n |-> IF m = 0 THEN [left |-> "no", name |-> NULL]
                          ELSE Parse(f[m - 1], kv[m])]

(* There is one for every n: a shortest string without would have one      *)
(* attribute more than a string with.                                      *)
LEMMA TurnsExist ==
    ASSUME NEW kv
    PROVE  \A n \in Nat : \E f : Turns(kv, f, n)
<1> DEFINE Without == {n \in Nat : ~ \E f : Turns(kv, f, n)}
<1>1. SUFFICES ASSUME Without # {}
               PROVE  FALSE
  BY Zenon
<1>2. PICK n \in Without : \A m \in Without : n <= m
  <2>1. Without \subseteq Nat
    OBVIOUS
  <2>2. QED
    BY <1>1, <2>1, LeastOf, Zenon
<1>3. CASE n = 0
  <2> DEFINE f == [m \in 0 .. 0 |-> [left |-> "no", name |-> NULL]]
  <2>1. Turns(kv, f, 0)
    BY DEF Turns
  <2>2. QED
    BY <1>2, <1>3, <2>1, Zenon
<1>4. CASE n # 0
  <2>1. n - 1 \in Nat /\ n \in Nat /\ ~ (n <= n - 1)
    BY <1>2, <1>4
  <2>2. n - 1 \notin Without
    BY <1>2, <2>1, Zenon
  <2>3. PICK f : Turns(kv, f, n - 1)
    BY <2>1, <2>2, Zenon
  <2> DEFINE g == [m \in 0 .. n |-> IF m = n THEN Parse(f[n - 1], kv[n]) ELSE f[m]]
  <2>4. \A m \in 0 .. n - 1 : g[m] = f[m]
    BY <2>1
  <2>5. ASSUME NEW m \in 0 .. n
        PROVE  g[m] = IF m = 0 THEN [left |-> "no", name |-> NULL] ELSE Parse(g[m - 1], kv[m])
    <3>1. CASE m = n
      <4>1. n - 1 \in 0 .. n - 1
        BY <2>1
      <4>2. g[n - 1] = f[n - 1]
        BY <2>4, <4>1, Zenon
      <4>3. g[n] = Parse(f[n - 1], kv[n])
        BY <2>1
      <4>4. QED
        BY <1>4, <3>1, <4>2, <4>3, Zenon
    <3>2. CASE m # n /\ m # 0
      <4>1. m \in 0 .. n - 1 /\ m - 1 \in 0 .. n - 1
        BY <2>1, <3>2
      <4>2. f[m] = Parse(f[m - 1], kv[m])
        BY <2>3, <3>2, <4>1 DEF Turns
      <4>3. QED
        BY <2>4, <3>2, <4>1, <4>2, Zenon
    <3>3. CASE m # n /\ m = 0
      <4>1. 0 \in 0 .. n - 1
        BY <2>1
      <4>2. f[0] = [left |-> "no", name |-> NULL]
        BY <2>3, <4>1 DEF Turns
      <4>3. QED
        BY <2>4, <3>3, <4>1, <4>2, Zenon
    <3>4. QED
      BY <3>1, <3>2, <3>3, Zenon
  <2>6. DOMAIN g = 0 .. n /\ g = [m \in DOMAIN g |-> g[m]]
    OBVIOUS
  <2> HIDE DEF g
  <2>7. Turns(kv, g, n)
    BY <2>5, <2>6 DEF Turns
  <2>8. QED
    BY <1>2, <2>7, Zenon
<1>5. QED
  BY <1>3, <1>4

(* So the outcome of a whole string is as it should be.                    *)
LEMMA ParsedRight ==
    ASSUME NEW kv, Len(kv) \in Nat
    PROVE  Outcome(kv, Parsed(kv), Len(kv))
<1> DEFINE f == CHOOSE after :
             after = [m \in 0 .. Len(kv) |->
                         IF m = 0 THEN [left |-> "no", name |-> NULL]
                         ELSE Parse(after[m - 1], kv[m])]
<1>1. Parsed(kv) = f[Len(kv)]
  BY Zenon DEF Parsed
<1>2. Turns(kv, f, Len(kv))
  <2>1. PICK g : g = [m \in 0 .. Len(kv) |->
                         IF m = 0 THEN [left |-> "no", name |-> NULL]
                         ELSE Parse(g[m - 1], kv[m])]
    BY TurnsExist, Zenon DEF Turns
  <2>2. f = [m \in 0 .. Len(kv) |->
                         IF m = 0 THEN [left |-> "no", name |-> NULL]
                         ELSE Parse(f[m - 1], kv[m])]
    BY <2>1, Zenon
  <2>3. QED
    BY <2>2, Zenon DEF Turns
<1> HIDE DEF f
<1> DEFINE Wrong == {n \in 0 .. Len(kv) : ~ Outcome(kv, f[n], n)}
<1>3. ASSUME Wrong # {}
      PROVE  FALSE
  <2>1. Wrong \subseteq Nat
    OBVIOUS
  <2>2. PICK n \in Wrong : \A m \in Wrong : n <= m
    BY <1>3, <2>1, LeastOf, Zenon
  <2>3. CASE n = 0
    <3>1. f[0] = [left |-> "no", name |-> NULL]
      BY <1>2 DEF Turns
    <3>2. Outcome(kv, f[0], 0)
      BY <3>1 DEF Outcome
    <3>3. QED
      BY <2>2, <2>3, <3>2, Zenon
  <2>4. CASE n # 0
    <3>1. n - 1 \in 0 .. Len(kv) /\ n - 1 \in Nat /\ ~ (n <= n - 1) /\ (n - 1) + 1 = n
      BY <2>2, <2>4
    <3>2. f[n] = Parse(f[n - 1], kv[n])
      BY <1>2, <2>2, <2>4 DEF Turns
    <3>3. Outcome(kv, f[n - 1], n - 1)
      BY <2>2, <3>1, Zenon
    <3>4. Outcome(kv, Parse(f[n - 1], kv[(n - 1) + 1]), (n - 1) + 1)
      BY <3>1, <3>3, TurnRight, Zenon
    <3>5. Outcome(kv, f[n], n)
      BY <3>1, <3>2, <3>4, Zenon
    <3>6. QED
      BY <2>2, <3>5, Zenon
  <2>5. QED
    BY <2>3, <2>4
<1>4. Len(kv) \in 0 .. Len(kv)
  OBVIOUS
<1>5. QED
  BY <1>1, <1>3, <1>4, Zenon

(* A string is refused for a bare attribute, and else the last name holds. *)
LEMMA Deciding ==
    ASSUME NEW kv, Len(kv) \in Nat, DOMAIN kv = 1 .. Len(kv), NEW p, Outcome(kv, p, Len(kv))
    PROVE  LET bare == {k \in DOMAIN kv : kv[k].val = NULL /\ kv[k].key # "protocol"}
               names == {k \in DOMAIN kv : kv[k].key = "name"}
           IN  /\ p.left = "refused" => bare # {}
               /\ p.left = "no" => bare = {}
               /\ p.left = "no" /\ names = {} => p.name = NULL
               /\ p.left = "no" /\ names # {} => p.name = kv[Max(names)].val /\ p.name # NULL
<1> DEFINE N == Len(kv)
           bare == {k \in DOMAIN kv : kv[k].val = NULL /\ kv[k].key # "protocol"}
           names == {k \in DOMAIN kv : kv[k].key = "name"}
<1>1. names \in SUBSET Int
  OBVIOUS
<1>2. CASE \E k \in 1 .. N :
             /\ kv[k].val = NULL /\ \A j \in 1 .. k - 1 : kv[j].val # NULL
             /\ p.left = IF kv[k].key = "protocol" THEN "fault" ELSE "refused"
  <2>1. PICK k \in 1 .. N :
             /\ kv[k].val = NULL
             /\ p.left = IF kv[k].key = "protocol" THEN "fault" ELSE "refused"
    BY <1>2
  <2>2. p.left # "no" /\ (p.left = "refused" => k \in bare)
    BY <2>1
  <2>3. QED
    BY <2>2
<1>3. CASE /\ \A k \in 1 .. N : kv[k].val # NULL
           /\ p.left = "no" /\ p.name = NULL
           /\ \A k \in 1 .. N : kv[k].key # "name"
  BY <1>3
<1>4. CASE /\ \A k \in 1 .. N : kv[k].val # NULL
           /\ p.left = "no"
           /\ \E k \in 1 .. N :
                 /\ kv[k].key = "name" /\ p.name = kv[k].val
                 /\ \A j \in k + 1 .. N : kv[j].key # "name"
  <2>1. PICK k \in 1 .. N :
                 /\ kv[k].key = "name" /\ p.name = kv[k].val
                 /\ \A j \in k + 1 .. N : kv[j].key # "name"
    BY <1>4
  <2>2. k \in names
    BY <2>1
  <2>3. ASSUME NEW x \in names
        PROVE  x <= k
    <3>1. x \in 1 .. N /\ kv[x].key = "name"
      OBVIOUS
    <3>2. x \notin k + 1 .. N
      BY <2>1, <3>1
    <3>3. QED
      BY <3>1, <3>2
  <2>4. Max(names) = k
    BY <1>1, <2>2, <2>3, MaxIs
  <2>5. bare = {}
    BY <1>4
  <2>6. QED
    BY <1>4, <2>1, <2>2, <2>4, <2>5
<1>5. QED
  BY <1>2, <1>3, <1>4, Zenon DEF Outcome

(* The attribute strings that a client may pass are sequences.             *)
LEMMA StringsAreSequences ==
    ASSUME NEW kv \in BoundedSeq(Attributes, MaxAttribs)
    PROVE  Len(kv) \in Nat /\ DOMAIN kv = 1 .. Len(kv)
<1>1. PICK n \in 0 .. MaxAttribs : kv \in [1 .. n -> Attributes]
  BY Zenon DEF BoundedSeq, SeqOf
<1>2. n \in Nat
  BY <1>1, ConstantsAssumption
<1>3. kv \in Seq(Attributes)
  BY <1>1, <1>2, SeqDef, Zenon
<1>4. QED
  BY <1>3

(* plc_tag_create does what the string says.                               *)
LEMMA CreateMakes ==
    ASSUME IdsInv, NEW kv \in BoundedSeq(Attributes, MaxAttribs), plc_tag_create(kv)
    PROVE  CreateRight'
<1> DEFINE p == Parsed(kv)
           bare == {k \in DOMAIN kv : kv[k].val = NULL /\ kv[k].key # "protocol"}
           names == {k \in DOMAIN kv : kv[k].key = "name"}
<1>1. /\ p.left = "refused" => bare # {}
      /\ p.left = "no" => bare = {}
      /\ p.left = "no" /\ names = {} => p.name = NULL
      /\ p.left = "no" /\ names # {} => p.name = kv[Max(names)].val /\ p.name # NULL
  BY StringsAreSequences, ParsedRight, Deciding, Zenon
<1>2. NextId \in Nat /\ NextId > METATAG_ID
  BY NextIdNew
<1>3. last'.attribs = kv
  BY DEF plc_tag_create, Call
<1> HIDE DEF p, bare, names
<1>4. SUFFICES ASSUME fault' = "none"
               PROVE  IF bare # {} \/ names = {} THEN last'.ret = PLCTAG_ERR_BAD_PARAM
                      ELSE /\ tags'[last'.ret].name = kv[Max(names)].val
                           /\ last'.ret = METATAG_ID <=> kv[Max(names)].val = METATAG_NAME
  BY <1>3, Zenon DEF CreateRight, bare, names
<1>5. CASE p.left = "fault" /\ fault' = "null"
  BY <1>4, <1>5
<1>6. CASE /\ p.left = "refused" \/ (p.left = "no" /\ p.name = NULL)
           /\ last'.ret = PLCTAG_ERR_BAD_PARAM
  BY <1>1, <1>6
<1>7. CASE /\ p.left = "no" /\ p.name = METATAG_NAME
           /\ last'.ret = METATAG_ID /\ tags' = With(METATAG_ID, Metanode)
  <2>1. tags'[METATAG_ID].name = METATAG_NAME
    BY <1>7 DEF With, Metanode
  <2>2. bare = {} /\ names # {}
    BY <1>1, <1>7, ConstantsAssumption DEF METATAG_NAME
  <2>3. QED
    BY <1>1, <1>7, <2>1, <2>2, Zenon
<1>8. CASE /\ p.left = "no" /\ p.name \in Nat \ {METATAG_NAME}
           /\ last'.ret = NextId
           /\ tags' = [i \in (DOMAIN tags \cup {NextId}) \ {METATAG_ID} |->
                          With(NextId, Node(p.name, TYPE_LINT))[i]]
  <2>1. NextId # METATAG_ID
    BY <1>2 DEF METATAG_ID
  <2>2. tags'[NextId].name = p.name
    <3>1. tags'[NextId] = Node(p.name, TYPE_LINT)
      BY <1>8, <2>1, Zenon DEF With
    <3>2. QED
      BY <3>1 DEF Node
  <2>3. bare = {} /\ names # {}
    BY <1>1, <1>8, ConstantsAssumption
  <2>4. QED
    BY <1>1, <1>8, <2>1, <2>2, <2>3, Zenon
<1>9. QED
  <2>1. \A ret : Call([call |-> "create", attribs |-> kv, ret |-> ret]) => last'.ret = ret
    BY DEF Call
  <2>2. QED
    BY <1>5, <1>6, <1>7, <1>8, <2>1, Zenon DEF plc_tag_create, p

(* A bare attribute other than "protocol" refuses the string, else the     *)
(* last name names the new tag, if the call survives: for any strings.     *)
THEOREM CreateMakesIt == Spec => []CreateRight
<1>1. Init => CreateRight
  BY DEF Init, CreateRight
<1>2. DataInv /\ CreateRight /\ [Next]_vars => CreateRight'
  <2>1. SUFFICES ASSUME DataInv, CreateRight, [Next]_vars
                 PROVE  CreateRight'
    OBVIOUS
  <2>2. CASE UNCHANGED vars
    BY <2>1, <2>2, Zenon DEF CreateRight, vars
  <2>3. CASE \E attribs \in BoundedSeq(Attributes, MaxAttribs) : plc_tag_create(attribs)
    BY <2>1, <2>3, CreateMakes, Zenon DEF DataInv
  <2>4. ASSUME NEW id \in DOMAIN tags, plc_tag_destroy(id)
        PROVE  CreateRight'
    <3>1. last'.call # "create"
      BY <2>4 DEF plc_tag_destroy, Call
    <3>2. QED
      BY <3>1, Zenon DEF CreateRight
  <2>5. ASSUME NEW id, NEW offset, NEW w, plc_tag_get(id, offset, w)
        PROVE  CreateRight'
    <3>1. last'.call # "create"
      BY <2>5 DEF plc_tag_get, Access, Call
    <3>2. QED
      BY <3>1, Zenon DEF CreateRight
  <2>6. ASSUME NEW id, NEW offset, NEW w, NEW v, plc_tag_set(id, offset, w, v)
        PROVE  CreateRight'
    <3>1. last'.call # "create"
      BY <2>6 DEF plc_tag_set, Access, Call
    <3>2. QED
      BY <3>1, Zenon DEF CreateRight
  <2>7. QED
    BY <2>1, <2>2, <2>3, <2>4, <2>5, <2>6, Zenon DEF Next
<1>3. QED
  BY <1>1, <1>2, DataInductive, PTL DEF Spec

=============================================================================
