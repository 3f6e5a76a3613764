---------------------------- MODULE MetatagProofs ----------------------------
(***************************************************************************)
(* Metatag's theorems, for any tags, names and calls.                      *)
(***************************************************************************)
EXTENDS Metatag, NumberLemmas, FiniteSetTheorems, TLAPS

(* The tags of which a listing may consist.                                *)
Listings == UNION {[S -> Lengths] : S \in SUBSET TagIds}

Offsets(T) == {Offset(T, i) : i \in DOMAIN T}

Ascending(s) == \A k \in 1 .. Len(s) - 1 : s[k] < s[k + 1]

(* A walk from the tags s to its call a at offset p, having read the ids   *)
(* g, is at a record of the tags T, or behind the last of them, and has    *)
(* read the ids of exactly the records before.                             *)
IdsOf(g) == {g[k] : k \in DOMAIN g}

Walked(T, a, p, g, s) ==
    /\ s \subseteq DOMAIN T
    /\ p \in Offsets(T) \cup {Size(T)}
    /\ a = "length" => p \in Offsets(T)
    /\ a = "id" => IdsOf(g) = {i \in DOMAIN T : Offset(T, i) < p}
    /\ a = "length" => IdsOf(g) = {i \in DOMAIN T : Offset(T, i) <= p}

On(T) == Walked(T, at, pos, got, start)

(* The metatag lists T: the tags as they were when it was built, which     *)
(* they still are unless one was destroyed.                                *)
Lists(T) ==
    /\ meta = [len |-> meta.len, at |-> Records(T)]
    /\ \E extra \in {0, RecordSize(METATAG_NAME)} : meta.len = (Size(T) + extra) % LenMod
    /\ DOMAIN tags \subseteq DOMAIN T
    /\ ~destroyed => T = tags

ListingInv ==
    /\ meta # NULL =>
          \E T \in Listings : Lists(T) /\ (Walking /\ ~upset => On(T))
    /\ meta = NULL /\ ~destroyed /\ Walking /\ ~upset => On(tags)

(* No listing is so long that the length of its type wraps.                *)
NoWrap == \E n \in Nat :
    /\ \A length \in Lengths : RecordSize(length) <= n
    /\ MaxId * n < LenMod

GotInv == ~upset =>
    /\ GARBAGE \notin Found
    /\ Ascending(got)
    /\ at = "done" /\ NoWrap => start \subseteq Found

MInv ==
    /\ tags \in Listings
    /\ at \in {"id", "length", "done"}
    /\ pos \in Nat
    /\ got \in Seq(TagIds \cup {GARBAGE})
    /\ start \subseteq TagIds
    /\ destroyed \in BOOLEAN /\ upset \in BOOLEAN /\ calls \in 0 .. MaxCalls
    /\ ListingInv
    /\ GotInv

-----------------------------------------------------------------------------
(* Listings in other words.                                                *)
LEMMA InListings ==
    ASSUME NEW T
    PROVE  /\ T \in Listings => /\ DOMAIN T \subseteq TagIds
                                /\ T = [i \in DOMAIN T |-> T[i]]
                                /\ \A i \in DOMAIN T : T[i] \in Lengths
           /\ (/\ DOMAIN T \subseteq TagIds
               /\ T = [i \in DOMAIN T |-> T[i]]
               /\ \A i \in DOMAIN T : T[i] \in Lengths) => T \in Listings
<1>1. ASSUME T \in Listings
      PROVE  /\ DOMAIN T \subseteq TagIds
             /\ T = [i \in DOMAIN T |-> T[i]]
             /\ \A i \in DOMAIN T : T[i] \in Lengths
  <2>1. PICK S \in SUBSET TagIds : T \in [S -> Lengths]
    BY <1>1 DEF Listings
  <2>2. QED
    BY <2>1
<1>2. ASSUME DOMAIN T \subseteq TagIds, T = [i \in DOMAIN T |-> T[i]],
             \A i \in DOMAIN T : T[i] \in Lengths
      PROVE  T \in Listings
  <2>1. T \in [DOMAIN T -> Lengths] /\ DOMAIN T \in SUBSET TagIds
    BY <1>2
  <2>2. QED
    BY <2>1, Zenon DEF Listings
<1>3. QED
  BY <1>1, <1>2

(* Ids and lengths are numbers, and there are finitely many ids.           *)
LEMMA Numbers ==
    /\ TagIds \subseteq Nat /\ IsFiniteSet(TagIds)
    /\ Lengths \subseteq Nat
    /\ \A length \in Lengths : RecordSize(length) \in Nat /\ RecordSize(length) > LENGTH_AT
<1>1. METATAG_ID + 1 \in Int /\ MaxId \in Int
  BY ConstantsAssumption DEF METATAG_ID
<1>2. IsFiniteSet(TagIds)
  BY <1>1, FS_Interval, Zenon DEF TagIds
<1>3. TagIds \subseteq Nat
  BY ConstantsAssumption DEF TagIds, METATAG_ID
<1>4. Lengths \subseteq Nat
  BY ConstantsAssumption DEF Lengths, PREDEFINED_NAME
<1>5. QED
  BY <1>2, <1>3, <1>4 DEF RecordSize, HEADER, LENGTH_AT

-----------------------------------------------------------------------------
(* The bytes of finitely many records can be counted.                      *)
LEMMA BytesFinite ==
    ASSUME NEW T \in Listings, NEW S \in SUBSET DOMAIN T
    PROVE  IsFiniteSet(Bytes(T, S)) /\ Cardinality(Bytes(T, S)) \in Nat
<1> DEFINE Of(i) == {i} \X (1 .. RecordSize(T[i]))
           f == [i \in S |-> Of(i)]
           Parts == {Of(i) : i \in S}
<1>1. DOMAIN T \subseteq TagIds /\ \A i \in DOMAIN T : T[i] \in Lengths
  BY InListings
<1>2. IsFiniteSet(S)
  <2>1. S \in SUBSET TagIds /\ IsFiniteSet(TagIds)
    BY <1>1, Numbers
  <2>2. QED
    BY <2>1, FS_Subset, Zenon
<1>3. f \in Surjection(S, Parts)
  BY DEF Surjection
<1>4. IsFiniteSet(Parts)
  BY <1>2, <1>3, FS_Surjection, Zenon
<1>5. ASSUME NEW i \in S
      PROVE  IsFiniteSet(Of(i))
  <2>1. RecordSize(T[i]) \in Nat
    BY <1>1, Numbers, Zenon
  <2>2. 1 \in Int /\ RecordSize(T[i]) \in Int
    BY <2>1
  <2>3. IsFiniteSet(1 .. RecordSize(T[i]))
    BY <2>2, FS_Interval, Zenon
  <2>4. QED
    BY <2>3, FS_Singleton, FS_Product, Zenon
<1>6. \A P \in Parts : IsFiniteSet(P)
  BY <1>5, Zenon
<1>7. IsFiniteSet(UNION Parts)
  BY <1>4, <1>6, FS_UNION, Zenon
<1>8. Bytes(T, S) = UNION Parts
  BY Zenon DEF Bytes
<1>9. QED
  BY <1>7, <1>8, FS_CardinalityType, Zenon

(* A record more is as many bytes more as it has.                          *)
LEMMA RecordMore ==
    ASSUME NEW T \in Listings, NEW S \in SUBSET DOMAIN T, NEW i \in DOMAIN T, i \notin S
    PROVE  Cardinality(Bytes(T, S \cup {i})) = Cardinality(Bytes(T, S)) + RecordSize(T[i])
<1> DEFINE Old == Bytes(T, S)
           New == {i} \X (1 .. RecordSize(T[i]))
<1>1. T[i] \in Lengths /\ RecordSize(T[i]) \in Nat
  BY InListings, Numbers
<1>2. Bytes(T, S \cup {i}) = Old \cup New
  BY Zenon DEF Bytes
<1>3. Old \cap New = {}
  BY DEF Bytes
<1>4. IsFiniteSet(New) /\ Cardinality(New) = RecordSize(T[i])
  <2>1. 1 \in Int /\ RecordSize(T[i]) \in Int
    BY <1>1
  <2>2. IsFiniteSet(1 .. RecordSize(T[i]))
        /\ Cardinality(1 .. RecordSize(T[i])) = RecordSize(T[i])
    BY <1>1, <2>1, FS_Interval
  <2>3. IsFiniteSet({i}) /\ Cardinality({i}) = 1
    BY FS_Singleton, Zenon
  <2>4. IsFiniteSet(New) /\ Cardinality(New) = Cardinality({i}) * Cardinality(1 .. RecordSize(T[i]))
    BY <2>2, <2>3, FS_Product, Zenon
  <2> HIDE DEF New
  <2>5. QED
    BY <1>1, <2>2, <2>3, <2>4
<1>5. IsFiniteSet(Old) /\ Cardinality(Old) \in Nat
  BY BytesFinite
<1>6. Cardinality(Old \cup New) = Cardinality(Old) + Cardinality(New) - 0
  BY <1>3, <1>4, <1>5, FS_Union, FS_EmptySet
<1> HIDE DEF New
<1>7. Cardinality(Old \cup New) = Cardinality(Old) + RecordSize(T[i])
  BY <1>1, <1>4, <1>5, <1>6
<1>8. QED
  BY <1>2, <1>7, Zenon

(* More records are no fewer bytes.                                        *)
LEMMA RecordsMore ==
    ASSUME NEW T \in Listings, NEW S \in SUBSET DOMAIN T, NEW R \in SUBSET S
    PROVE  Cardinality(Bytes(T, R)) <= Cardinality(Bytes(T, S))
<1>1. Bytes(T, R) \in SUBSET Bytes(T, S)
  BY Zenon DEF Bytes
<1>2. QED
  BY <1>1, BytesFinite, FS_Subset, Zenon

-----------------------------------------------------------------------------
(* Records follow each other by id without overlap, inside the listing.    *)
LEMMA Places ==
    ASSUME NEW T \in Listings
    PROVE  /\ Size(T) \in Nat
           /\ \A i \in DOMAIN T :
                 /\ i \in Nat /\ i \in TagIds /\ T[i] \in Lengths
                 /\ RecordSize(T[i]) \in Nat /\ RecordSize(T[i]) > LENGTH_AT
                 /\ Offset(T, i) \in Nat
                 /\ Offset(T, i) + RecordSize(T[i]) <= Size(T)
                 /\ \A j \in DOMAIN T :
                       i < j => Offset(T, i) + RecordSize(T[i]) <= Offset(T, j)
<1> DEFINE Before(i) == {j \in DOMAIN T : j < i}
<1>1. Size(T) \in Nat
  BY BytesFinite DEF Size
<1>2. ASSUME NEW i \in DOMAIN T
      PROVE  /\ i \in Nat /\ i \in TagIds /\ T[i] \in Lengths
             /\ RecordSize(T[i]) \in Nat /\ RecordSize(T[i]) > LENGTH_AT
             /\ Offset(T, i) \in Nat
             /\ Offset(T, i) + RecordSize(T[i]) <= Size(T)
             /\ \A j \in DOMAIN T :
                   i < j => Offset(T, i) + RecordSize(T[i]) <= Offset(T, j)
  <2>1. i \in TagIds /\ T[i] \in Lengths
    BY InListings
  <2>2. i \in Nat /\ RecordSize(T[i]) \in Nat /\ RecordSize(T[i]) > LENGTH_AT
    BY <2>1, Numbers, Zenon
  <2>3. Before(i) \in SUBSET DOMAIN T /\ i \notin Before(i)
    BY <2>2
  <2>4. Offset(T, i) \in Nat
    BY <2>3, BytesFinite, Zenon DEF Offset
  <2>5. Cardinality(Bytes(T, Before(i) \cup {i})) = Offset(T, i) + RecordSize(T[i])
    BY <2>3, RecordMore, Zenon DEF Offset
  <2>6. Offset(T, i) + RecordSize(T[i]) <= Size(T)
    <3>1. Before(i) \cup {i} \in SUBSET DOMAIN T
      OBVIOUS
    <3>2. QED
      BY <2>5, <3>1, RecordsMore, Zenon DEF Size
  <2>7. ASSUME NEW j \in DOMAIN T, i < j
        PROVE  Offset(T, i) + RecordSize(T[i]) <= Offset(T, j)
    <3>1. j \in Nat /\ \A k \in DOMAIN T : k \in Nat
      BY InListings, Numbers
    <3>2. Before(i) \cup {i} \in SUBSET Before(j) /\ Before(j) \in SUBSET DOMAIN T
      BY <2>2, <2>7, <3>1
    <3>3. QED
      BY <2>5, <3>2, RecordsMore, Zenon DEF Offset
  <2>8. QED
    BY <2>1, <2>2, <2>4, <2>6, <2>7, Zenon
<1>3. QED
  BY <1>1, <1>2, Zenon

(* So offsets and ids are in the same order.                               *)
LEMMA SameOrder ==
    ASSUME NEW T \in Listings, NEW i \in DOMAIN T, NEW j \in DOMAIN T
    PROVE  /\ Offset(T, i) < Offset(T, j) <=> i < j
           /\ Offset(T, i) = Offset(T, j) <=> i = j
           /\ Offset(T, i) <= Offset(T, j) <=> i <= j
<1>1. /\ i \in Nat /\ RecordSize(T[i]) \in Nat /\ RecordSize(T[i]) > LENGTH_AT
      /\ Offset(T, i) \in Nat
      /\ i < j => Offset(T, i) + RecordSize(T[i]) <= Offset(T, j)
  BY Places, Zenon
<1>2. /\ j \in Nat /\ RecordSize(T[j]) \in Nat /\ RecordSize(T[j]) > LENGTH_AT
      /\ Offset(T, j) \in Nat
      /\ j < i => Offset(T, j) + RecordSize(T[j]) <= Offset(T, i)
  BY Places, Zenon
<1>3. QED
  BY <1>1, <1>2 DEF LENGTH_AT

(* At a tag's offset Records has that tag.                                 *)
LEMMA RecordsAre ==
    ASSUME NEW T \in Listings
    PROVE  /\ DOMAIN Records(T) = Offsets(T)
           /\ \A i \in DOMAIN T : Records(T)[Offset(T, i)] = [id |-> i, length |-> T[i]]
<1> DEFINE offsets == [i \in DOMAIN T |-> Offset(T, i)]
           Holder(o) == CHOOSE j \in DOMAIN T : offsets[j] = o
           R == [o \in {offsets[i] : i \in DOMAIN T} |->
                    LET i == Holder(o) IN [id |-> i, length |-> T[i]]]
<1>1. Records(T) = R
  BY Zenon DEF Records
<1>2. {offsets[i] : i \in DOMAIN T} = Offsets(T)
  BY DEF Offsets
<1>3. ASSUME NEW i \in DOMAIN T
      PROVE  Holder(Offset(T, i)) = i /\ Offset(T, i) \in {offsets[k] : k \in DOMAIN T}
  <2>1. \A j \in DOMAIN T : offsets[j] = Offset(T, i) <=> j = i
    BY SameOrder
  <2>2. QED
    BY <2>1
<1> HIDE DEF offsets, Holder
<1>4. QED
  BY <1>1, <1>2, <1>3

(* Behind a record is the next one, or the end of the listing.             *)
LEMMA NextPlace ==
    ASSUME NEW T \in Listings, NEW i \in DOMAIN T
    PROVE  LET next == Offset(T, i) + RecordSize(T[i])
           IN  /\ next \in Offsets(T) \cup {Size(T)}
               /\ {j \in DOMAIN T : Offset(T, j) < next}
                     = {j \in DOMAIN T : Offset(T, j) <= Offset(T, i)}
<1> DEFINE next == Offset(T, i) + RecordSize(T[i])
           Before(k) == {j \in DOMAIN T : j < k}
           Behind == {j \in DOMAIN T : i < j}
<1>1. \A j \in DOMAIN T : j \in Nat /\ Offset(T, j) \in Nat
  BY Places, Zenon
<1>2. Cardinality(Bytes(T, Before(i) \cup {i})) = next
  <2>1. Before(i) \in SUBSET DOMAIN T /\ i \notin Before(i)
    BY <1>1
  <2>2. QED
    BY <2>1, RecordMore, Zenon DEF Offset
<1>3. next \in Offsets(T) \cup {Size(T)}
  <2>1. CASE Behind = {}
    <3>1. Before(i) \cup {i} = DOMAIN T
      BY <1>1, <2>1
    <3>2. Size(T) = next
      BY <1>2, <3>1, Zenon DEF Size
    <3>3. QED
      BY <3>2, Zenon
  <2>2. CASE Behind # {}
    <3>1. Behind \subseteq Nat
      BY <1>1
    <3>2. PICK k \in Behind : \A j \in Behind : k <= j
      BY <2>2, <3>1, LeastOf, Zenon
    <3>3. Before(i) \cup {i} = Before(k)
      BY <1>1, <3>2
    <3>4. Offset(T, k) = next /\ k \in DOMAIN T
      BY <1>2, <3>3, Zenon DEF Offset
    <3>5. QED
      BY <3>4, Zenon DEF Offsets
  <2>3. QED
    BY <2>1, <2>2
<1>4. ASSUME NEW j \in DOMAIN T
      PROVE  Offset(T, j) < next <=> Offset(T, j) <= Offset(T, i)
  <2>1. /\ RecordSize(T[i]) \in Nat /\ RecordSize(T[i]) > LENGTH_AT
        /\ i < j => next <= Offset(T, j)
    BY Places, Zenon
  <2>2. Offset(T, j) <= Offset(T, i) <=> j <= i
    BY SameOrder
  <2>3. QED
    BY <1>1, <2>1, <2>2 DEF LENGTH_AT
<1>5. QED
  BY <1>3, <1>4

-----------------------------------------------------------------------------
(* A walk begins at the first record, or at the end of an empty listing.   *)
LEMMA WalkedNothing ==
    ASSUME NEW T \in Listings, NEW s, s \subseteq DOMAIN T
    PROVE  Walked(T, "id", 0, <<>>, s)
<1>1. \A j \in DOMAIN T : j \in Nat /\ Offset(T, j) \in Nat
  BY Places, Zenon
<1>2. 0 \in Offsets(T) \cup {Size(T)}
  <2>1. \A S : S = {} => Cardinality(Bytes(T, S)) = 0
    <3>1. Bytes(T, {}) = {}
      BY DEF Bytes
    <3>2. QED
      BY <3>1, FS_EmptySet, Zenon
  <2>2. CASE DOMAIN T = {}
    BY <2>1, <2>2, Zenon DEF Size
  <2>3. CASE DOMAIN T # {}
    <3>1. DOMAIN T \subseteq Nat
      BY <1>1
    <3>2. PICK k \in DOMAIN T : \A j \in DOMAIN T : k <= j
      BY <2>3, <3>1, LeastOf, Zenon
    <3>3. {j \in DOMAIN T : j < k} = {}
      BY <1>1, <3>2
    <3>4. Offset(T, k) = 0
      BY <2>1, <3>3, Zenon DEF Offset
    <3>5. QED
      BY <3>4, Zenon DEF Offsets
  <2>4. QED
    BY <2>2, <2>3
<1>3. {i \in DOMAIN T : Offset(T, i) < 0} = {}
  BY <1>1
<1>4. IdsOf(<<>>) = {}
  BY DEF IdsOf
<1>5. QED
  BY <1>2, <1>3, <1>4 DEF Walked

(* A tag with a greater id than all others gets the record behind theirs,  *)
(* and moves none of them.                                                 *)
LEMMA LongerListing ==
    ASSUME NEW T \in Listings, NEW k \in TagIds, NEW length \in Lengths,
           \A i \in DOMAIN T : i < k,
           NEW U, U = [i \in DOMAIN T \cup {k} |-> IF i = k THEN length ELSE T[i]]
    PROVE  /\ U \in Listings /\ DOMAIN U = DOMAIN T \cup {k}
           /\ \A i \in DOMAIN T : Offset(U, i) = Offset(T, i)
           /\ Offset(U, k) = Size(T)
<1>1. /\ \A j \in DOMAIN T : j \in Nat /\ j \in TagIds /\ T[j] \in Lengths
      /\ k \in Nat
  BY Places, Numbers
<1>2. DOMAIN U = DOMAIN T \cup {k} /\ \A i \in DOMAIN T : U[i] = T[i]
  BY <1>1
<1>3. U \in Listings
  <2>1. U = [i \in DOMAIN U |-> U[i]]
    OBVIOUS
  <2>2. DOMAIN U \subseteq TagIds /\ \A i \in DOMAIN U : U[i] \in Lengths
    BY <1>1
  <2>3. QED
    BY <2>1, <2>2, InListings
<1>4. ASSUME NEW S \in SUBSET DOMAIN T
      PROVE  Bytes(U, S) = Bytes(T, S)
  BY <1>2 DEF Bytes
<1>5. ASSUME NEW i \in DOMAIN T
      PROVE  Offset(U, i) = Offset(T, i)
  <2>1. {j \in DOMAIN U : j < i} = {j \in DOMAIN T : j < i}
    BY <1>1, <1>2
  <2>2. {j \in DOMAIN T : j < i} \in SUBSET DOMAIN T
    OBVIOUS
  <2>3. QED
    BY <1>4, <2>1, <2>2, Zenon DEF Offset
<1>6. Offset(U, k) = Size(T)
  <2>1. {j \in DOMAIN U : j < k} = DOMAIN T
    BY <1>1, <1>2
  <2>2. QED
    BY <1>4, <2>1, Zenon DEF Offset, Size
<1>7. QED
  BY <1>2, <1>3, <1>5, <1>6, Zenon

(* So a walk of the shorter listing is as far on the longer one.           *)
LEMMA WalkedLonger ==
    ASSUME NEW T \in Listings, NEW k \in TagIds, NEW length \in Lengths,
           \A i \in DOMAIN T : i < k,
           NEW U, U = [i \in DOMAIN T \cup {k} |-> IF i = k THEN length ELSE T[i]],
           NEW a, NEW p, NEW g, NEW s, Walked(T, a, p, g, s)
    PROVE  Walked(U, a, p, g, s)
<1>1. /\ U \in Listings /\ DOMAIN U = DOMAIN T \cup {k}
      /\ \A i \in DOMAIN T : Offset(U, i) = Offset(T, i)
      /\ Offset(U, k) = Size(T)
  BY LongerListing
<1>2. /\ Size(T) \in Nat
      /\ \A i \in DOMAIN T :
            /\ Offset(T, i) \in Nat /\ RecordSize(T[i]) \in Nat
            /\ RecordSize(T[i]) > LENGTH_AT
            /\ Offset(T, i) + RecordSize(T[i]) <= Size(T)
  BY Places, Zenon
<1>3. \A i \in DOMAIN T : Offset(T, i) < Size(T)
  BY <1>2 DEF LENGTH_AT
<1>4. Offsets(U) = Offsets(T) \cup {Size(T)}
  BY <1>1 DEF Offsets
<1>5. p \in Nat /\ p <= Size(T)
  BY <1>2, <1>3 DEF Walked, Offsets
<1>6. {i \in DOMAIN U : Offset(U, i) < p} = {i \in DOMAIN T : Offset(T, i) < p}
  <2>1. ~ (Offset(U, k) < p)
    BY <1>1, <1>2, <1>5
  <2>2. QED
    BY <1>1, <2>1, Zenon
<1>7. ASSUME p \in Offsets(T)
      PROVE  {i \in DOMAIN U : Offset(U, i) <= p} = {i \in DOMAIN T : Offset(T, i) <= p}
  <2>1. p < Size(T)
    BY <1>3, <1>7 DEF Offsets
  <2>2. ~ (Offset(U, k) <= p)
    BY <1>1, <1>2, <1>5, <2>1
  <2>3. QED
    BY <1>1, <2>2, Zenon
<1>8. QED
  BY <1>1, <1>4, <1>6, <1>7 DEF Walked

(* Reading an id from a record adds it to those read, in order.            *)
LEMMA WalkedId ==
    ASSUME NEW T \in Listings, NEW p \in Offsets(T),
           NEW g \in Seq(TagIds \cup {GARBAGE}), NEW s, Walked(T, "id", p, g, s),
           GARBAGE \notin IdsOf(g), Ascending(g)
    PROVE  LET i == Records(T)[p].id
               longer == Append(g, i)
           IN  /\ i \in TagIds /\ longer \in Seq(TagIds \cup {GARBAGE})
               /\ Walked(T, "length", p, longer, s)
               /\ GARBAGE \notin IdsOf(longer) /\ Ascending(longer)
<1> DEFINE longer(i) == Append(g, i)
<1>1. PICK i \in DOMAIN T : p = Offset(T, i)
  BY DEF Offsets
<1>2. Records(T)[p].id = i
  <2>1. Records(T)[Offset(T, i)] = [id |-> i, length |-> T[i]]
    BY RecordsAre, Zenon
  <2>2. QED
    BY <1>1, <2>1
<1>3. i \in Nat /\ i \in TagIds /\ Offset(T, i) \in Nat
  BY Places, Zenon
<1>4. /\ longer(i) \in Seq(TagIds \cup {GARBAGE}) /\ Len(longer(i)) = Len(g) + 1
      /\ DOMAIN g = 1 .. Len(g) /\ DOMAIN longer(i) = 1 .. Len(g) + 1 /\ Len(g) \in Nat
      /\ longer(i)[Len(g) + 1] = i /\ \A k \in 1 .. Len(g) : longer(i)[k] = g[k]
  BY <1>3
<1> HIDE DEF longer
<1>5. IdsOf(longer(i)) = IdsOf(g) \cup {i}
  BY <1>4 DEF IdsOf
<1>6. \A j \in IdsOf(g) : j \in DOMAIN T /\ j \in Nat /\ j < i
  <2>1. \A j \in IdsOf(g) : j \in DOMAIN T /\ Offset(T, j) < Offset(T, i)
    BY <1>1 DEF Walked
  <2>2. QED
    BY <2>1, SameOrder, Places, Zenon
<1>7. Walked(T, "length", p, longer(i), s)
  <2>1. \A j \in DOMAIN T : Offset(T, j) <= p <=> Offset(T, j) < p \/ j = i
    <3>1. \A j \in DOMAIN T : Offset(T, j) \in Nat
      BY Places, Zenon
    <3>2. \A j \in DOMAIN T : Offset(T, j) = Offset(T, i) <=> j = i
      BY SameOrder, Zenon
    <3>3. QED
      BY <1>1, <1>3, <3>1, <3>2
  <2>2. {j \in DOMAIN T : Offset(T, j) <= p} = {j \in DOMAIN T : Offset(T, j) < p} \cup {i}
    BY <2>1
  <2>3. QED
    BY <1>5, <2>2 DEF Walked
<1>8. GARBAGE \notin IdsOf(longer(i))
  BY <1>3, <1>5, ConstantsAssumption
<1>9. Ascending(longer(i))
  <2>1. ASSUME NEW k \in 1 .. Len(longer(i)) - 1
        PROVE  longer(i)[k] < longer(i)[k + 1]
    <3>1. k \in 1 .. Len(g) /\ longer(i)[k] = g[k]
      BY <1>4, <2>1
    <3>2. CASE k = Len(g)
      <4>1. g[k] \in IdsOf(g)
        BY <1>4, <3>1 DEF IdsOf
      <4>2. QED
        BY <1>4, <1>6, <3>1, <3>2, <4>1
    <3>3. CASE k # Len(g)
      <4>1. Len(g) \in Nat /\ k \in 1 .. Len(g)
        BY <1>4, <3>1, Zenon
      <4>2. k \in 1 .. Len(g) - 1 /\ k + 1 \in 1 .. Len(g)
        BY <3>3, <4>1
      <4>3. g[k] < g[k + 1] /\ longer(i)[k + 1] = g[k + 1]
        BY <1>4, <4>2, Zenon DEF Ascending
      <4>4. QED
        BY <3>1, <4>3
    <3>4. QED
      BY <3>2, <3>3
  <2>2. QED
    BY <2>1 DEF Ascending
<1>10. QED
  BY <1>2, <1>3, <1>4, <1>7, <1>8, <1>9 DEF longer

(* Reading its length steps to the next record.                            *)
LEMMA WalkedLength ==
    ASSUME NEW T \in Listings, NEW p, NEW g, NEW s, Walked(T, "length", p, g, s)
    PROVE  /\ p + RecordSize(Records(T)[p].length) \in Nat
           /\ Walked(T, "id", p + RecordSize(Records(T)[p].length), g, s)
<1>1. PICK i \in DOMAIN T : p = Offset(T, i)
  BY DEF Walked, Offsets
<1>2. Records(T)[p].length = T[i]
  <2>1. Records(T)[Offset(T, i)] = [id |-> i, length |-> T[i]]
    BY RecordsAre, Zenon
  <2>2. QED
    BY <1>1, <2>1
<1>3. /\ p + RecordSize(T[i]) \in Offsets(T) \cup {Size(T)}
      /\ {j \in DOMAIN T : Offset(T, j) < p + RecordSize(T[i])}
            = {j \in DOMAIN T : Offset(T, j) <= p}
  BY <1>1, NextPlace
<1>4. p \in Nat /\ RecordSize(T[i]) \in Nat
  BY <1>1, Places, Zenon
<1>5. QED
  BY <1>2, <1>3, <1>4 DEF Walked

(* A walk that is behind the last record has read every tag's id.          *)
LEMMA WalkedAll ==
    ASSUME NEW T \in Listings, NEW p, NEW g, NEW s, Walked(T, "id", p, g, s), p >= Size(T)
    PROVE  s \subseteq IdsOf(g)
<1>1. /\ Size(T) \in Nat
      /\ \A i \in DOMAIN T :
            /\ Offset(T, i) \in Nat /\ RecordSize(T[i]) \in Nat
            /\ RecordSize(T[i]) > LENGTH_AT
            /\ Offset(T, i) + RecordSize(T[i]) <= Size(T)
  BY Places, Zenon
<1>2. p \in Nat
  BY <1>1 DEF Walked, Offsets
<1>3. \A i \in DOMAIN T : Offset(T, i) < p
  BY <1>1, <1>2 DEF LENGTH_AT
<1>4. QED
  BY <1>3 DEF Walked

-----------------------------------------------------------------------------
(* Under NoWrap the length of a listing's type is its length.              *)
LEMMA Fits ==
    ASSUME NoWrap, NEW T \in Listings, NEW extra \in {0, RecordSize(METATAG_NAME)}
    PROVE  (Size(T) + extra) % LenMod = Size(T) + extra
<1>1. PICK n \in Nat : (\A length \in Lengths : RecordSize(length) <= n) /\ MaxId * n < LenMod
  BY DEF NoWrap
<1> DEFINE Cells == (1 .. MaxId) \X (1 .. n)
           Own == {METATAG_ID} \X (1 .. RecordSize(METATAG_NAME))
           All == Bytes(T, DOMAIN T)
<1>2. MaxId \in Nat /\ MaxId >= 1 /\ LenMod \in Nat /\ LenMod # 0
  BY ConstantsAssumption DEF METATAG_ID
<1>3. IsFiniteSet(Cells) /\ Cardinality(Cells) = MaxId * n
  <2>1. 1 \in Int /\ n \in Int /\ MaxId \in Int
    BY <1>1, <1>2
  <2>2. IsFiniteSet(1 .. MaxId) /\ Cardinality(1 .. MaxId) = MaxId
    BY <1>2, <2>1, FS_Interval
  <2>3. IsFiniteSet(1 .. n) /\ Cardinality(1 .. n) = n
    BY <1>1, <2>1, FS_Interval
  <2>4. IsFiniteSet(Cells) /\ Cardinality(Cells) = Cardinality(1 .. MaxId) * Cardinality(1 .. n)
    BY <2>2, <2>3, FS_Product, Zenon
  <2>5. QED
    BY <2>2, <2>3, <2>4, Zenon
<1>4. IsFiniteSet(Own) /\ Cardinality(Own) = RecordSize(METATAG_NAME)
      /\ RecordSize(METATAG_NAME) \in Nat
  <2>1. RecordSize(METATAG_NAME) \in Nat /\ 1 \in Int /\ RecordSize(METATAG_NAME) \in Int
        /\ RecordSize(METATAG_NAME) >= 1
    BY DEF RecordSize, HEADER, METATAG_NAME
  <2>2. IsFiniteSet(1 .. RecordSize(METATAG_NAME))
        /\ Cardinality(1 .. RecordSize(METATAG_NAME)) = RecordSize(METATAG_NAME)
    BY <2>1, FS_Interval
  <2>3. IsFiniteSet({METATAG_ID}) /\ Cardinality({METATAG_ID}) = 1
    BY FS_Singleton, Zenon
  <2>4. IsFiniteSet(Own) /\ Cardinality(Own) = Cardinality({METATAG_ID}) * Cardinality(1 .. RecordSize(METATAG_NAME))
    BY <2>2, <2>3, FS_Product, Zenon
  <2> HIDE DEF Own
  <2>5. QED
    BY <2>1, <2>2, <2>3, <2>4
<1>5. IsFiniteSet(All) /\ Cardinality(All) = Size(T) /\ Size(T) \in Nat
  <2>1. DOMAIN T \in SUBSET DOMAIN T
    OBVIOUS
  <2>2. QED
    BY <2>1, BytesFinite, Zenon DEF Size
<1>6. Own \cap All = {}
  BY InListings DEF Bytes, TagIds, METATAG_ID
<1>7. Own \cup All \in SUBSET Cells
  <2>1. Own \in SUBSET Cells
    <3>1. RecordSize(PREDEFINED_NAME) <= n
      BY <1>1 DEF Lengths
    <3>2. RecordSize(METATAG_NAME) <= n
      BY <1>1, <3>1 DEF RecordSize, HEADER, METATAG_NAME, PREDEFINED_NAME
    <3>3. QED
      BY <1>1, <1>2, <1>4, <3>2 DEF METATAG_ID
  <2>2. ASSUME NEW i \in DOMAIN T
        PROVE  {i} \X (1 .. RecordSize(T[i])) \in SUBSET Cells
    <3>1. i \in TagIds /\ RecordSize(T[i]) \in Nat /\ T[i] \in Lengths
      BY Places, Zenon
    <3>2. i \in 1 .. MaxId
      BY <3>1 DEF TagIds, METATAG_ID
    <3>3. RecordSize(T[i]) <= n
      BY <1>1, <3>1
    <3>4. QED
      BY <1>1, <3>1, <3>2, <3>3
  <2>3. All \in SUBSET Cells
    BY <2>2, Zenon DEF Bytes
  <2>4. QED
    BY <2>1, <2>3, Zenon
<1> HIDE DEF Own, All, Cells
<1>8. Cardinality(Own \cup All) = RecordSize(METATAG_NAME) + Size(T)
  <2>1. Cardinality(Own \cup All) = Cardinality(Own) + Cardinality(All) - Cardinality({})
    BY <1>4, <1>5, <1>6, FS_Union
  <2>2. Cardinality({}) = 0
    BY FS_EmptySet, Zenon
  <2>3. QED
    BY <1>4, <1>5, <2>1, <2>2
<1>9. Cardinality(Own \cup All) <= Cardinality(Cells)
  BY <1>3, <1>7, FS_Subset, Zenon
<1>10. Size(T) + extra \in Nat /\ Size(T) + extra < LenMod
  <2>1. RecordSize(METATAG_NAME) + Size(T) <= MaxId * n
    BY <1>3, <1>8, <1>9, Zenon
  <2>2. extra \in Nat /\ extra <= RecordSize(METATAG_NAME)
    BY <1>4
  <2>3. MaxId * n \in Nat
    BY <1>1, <1>2
  <2>4. QED
    BY <1>1, <1>2, <1>4, <1>5, <2>1, <2>2, <2>3
<1>11. QED
  BY <1>2, <1>10

(* A listing longer than its records is padded.                            *)
LEMMA Longer ==
    ASSUME NEW T \in Listings, NEW len \in Nat, len > Size(T)
    PROVE  \A o \in Offsets(T) : len > o + RecordSize(Records(T)[o].length)
<1>1. ASSUME NEW i \in DOMAIN T
      PROVE  len > Offset(T, i) + RecordSize(Records(T)[Offset(T, i)].length)
  <2>1. /\ Size(T) \in Nat /\ Offset(T, i) \in Nat /\ RecordSize(T[i]) \in Nat
        /\ Offset(T, i) + RecordSize(T[i]) <= Size(T)
    BY Places, Zenon
  <2>2. Records(T)[Offset(T, i)] = [id |-> i, length |-> T[i]]
    BY RecordsAre, Zenon
  <2>3. Records(T)[Offset(T, i)].length = T[i]
    BY <2>2
  <2>4. len > Offset(T, i) + RecordSize(T[i])
    BY <2>1
  <2>5. QED
    BY <2>3, <2>4, Zenon
<1>2. QED
  BY <1>1, Zenon DEF Offsets

(* What the next get sees lists some tags T, those of the tree if nothing  *)
(* was destroyed since; and the walk, unless it is or becomes upset, is on *)
(* them.                                                                   *)
LEMMA ListingIs ==
    ASSUME MInv
    PROVE  \E T \in Listings :
              /\ Listing = [len |-> Listing.len, at |-> Records(T)]
              /\ \E extra \in {0, RecordSize(METATAG_NAME)} :
                    Listing.len = (Size(T) + extra) % LenMod
              /\ DOMAIN tags \subseteq DOMAIN T
              /\ ~(destroyed /\ meta # NULL) => T = tags
              /\ Walking /\ ~upset /\ ~(meta = NULL /\ destroyed) => On(T)
<1>1. CASE meta = NULL
  <2>1. Listing = MetanodeCreate
    BY <1>1, Zenon DEF Listing
  <2>2. /\ Listing = [len |-> Listing.len, at |-> Records(tags)]
        /\ Listing.len = (Size(tags) + 0) % LenMod
    BY <1>1, <2>1 DEF MetanodeCreate
  <2>3. tags \in Listings /\ (Walking /\ ~upset /\ ~destroyed => On(tags))
    BY <1>1, Zenon DEF MInv, ListingInv
  <2>4. QED
    BY <1>1, <2>2, <2>3
<1>2. CASE meta # NULL
  <2>1. PICK T \in Listings : Lists(T) /\ (Walking /\ ~upset => On(T))
    BY <1>2, Zenon DEF MInv, ListingInv
  <2>2. Listing = meta
    BY <1>2, Zenon DEF Listing
  <2>3. QED
    BY <1>2, <2>1, <2>2, Zenon DEF Lists
<1>3. QED
  BY <1>1, <1>2

(* The types the invariant gives the walk, and what they need of a get.    *)
WalkTypes ==
    /\ at \in {"id", "length", "done"}
    /\ pos \in Nat
    /\ got \in Seq(TagIds \cup {GARBAGE})

(* A get leaves a listing of some tags T, and the walk on them unless it   *)
(* is upset now.                                                           *)
LEMMA GetListing ==
    ASSUME MInv, Get
    PROVE  \E T \in Listings :
              /\ Lists(T)' /\ meta' # NULL
              /\ Listing.at = Records(T) /\ Listing.len \in Nat
              /\ NoWrap => Listing.len >= Size(T)
              /\ Walking /\ ~upset' => On(T) /\ ~upset /\ ~(Listing.len > Size(T))
<1>1. PICK T \in Listings :
              /\ Listing = [len |-> Listing.len, at |-> Records(T)]
              /\ \E extra \in {0, RecordSize(METATAG_NAME)} :
                    Listing.len = (Size(T) + extra) % LenMod
              /\ DOMAIN tags \subseteq DOMAIN T
              /\ ~(destroyed /\ meta # NULL) => T = tags
              /\ Walking /\ ~upset /\ ~(meta = NULL /\ destroyed) => On(T)
  BY ListingIs
<1>2. Listing.at = Records(T)
  BY <1>1
<1>3. PICK extra \in {0, RecordSize(METATAG_NAME)} : Listing.len = (Size(T) + extra) % LenMod
  BY <1>1
<1>4. Size(T) \in Nat /\ extra \in Nat
  BY <1>3, Places DEF RecordSize, HEADER, METATAG_NAME
<1>5. Listing.len \in Nat /\ (NoWrap => Listing.len >= Size(T))
  <2>1. LenMod \in Nat /\ LenMod # 0
    BY ConstantsAssumption
  <2>2. Listing.len \in Nat
    BY <1>3, <1>4, <2>1
  <2>3. NoWrap => Listing.len = Size(T) + extra
    BY <1>3, Fits, Zenon
  <2>4. QED
    BY <1>4, <2>2, <2>3
<1>6. Listing.len > Size(T) => Padded
  <2>1. SUFFICES ASSUME Listing.len > Size(T)
                 PROVE  Padded
    OBVIOUS
  <2>2. Listing.len > 0
    BY <1>4, <1>5, <2>1
  <2>3. DOMAIN Listing.at = Offsets(T)
    BY <1>2, RecordsAre
  <2>4. \A o \in Offsets(T) : Listing.len > o + RecordSize(Records(T)[o].length)
    BY <1>5, <2>1, Longer, Zenon
  <2>5. QED
    BY <1>2, <2>2, <2>3, <2>4, Zenon DEF Padded
<1>7. /\ meta' = Listing /\ tags' = tags
      /\ upset' = (upset \/ Padded \/ (meta = NULL /\ destroyed))
      /\ destroyed' = (destroyed /\ meta # NULL)
  BY Zenon DEF Get
<1>8. Lists(T)'
  BY <1>1, <1>7, Zenon DEF Lists
<1>9. meta' # NULL
  <2>1. meta' = [len |-> Listing.len, at |-> Records(T)]
    BY <1>1, <1>7, Zenon
  <2>2. QED
    BY <2>1 DEF NULL
<1>10. Walking /\ ~upset' => On(T) /\ ~upset /\ ~(Listing.len > Size(T))
  BY <1>1, <1>6, <1>7, Zenon
<1>11. QED
  BY <1>2, <1>5, <1>8, <1>9, <1>10, Zenon

(* What a get's step has to show of the walk.                              *)
LEMMA GetKeeps ==
    ASSUME MInv, Get, NEW T \in Listings, Lists(T)', meta' # NULL, WalkTypes', GotInv',
           Walking' /\ ~upset' => On(T)'
    PROVE  MInv'
<1>1. tags' = tags /\ start' = start /\ calls' = calls
  BY Zenon DEF Get
<1>2. destroyed' \in BOOLEAN /\ upset' \in BOOLEAN
  BY Zenon DEF Get
<1>3. ListingInv'
  BY Zenon DEF ListingInv
<1>4. QED
  BY <1>1, <1>2, <1>3, Zenon DEF MInv, WalkTypes

(* The two gets of the walk.                                               *)
LEMMA ReadIdKeeps ==
    ASSUME MInv, ReadId
    PROVE  MInv'
<1>1. at = "id" /\ Get /\ Walking
  BY DEF ReadId, Walking
<1>2. PICK T \in Listings :
              /\ Lists(T)' /\ meta' # NULL
              /\ Listing.at = Records(T) /\ Listing.len \in Nat
              /\ NoWrap => Listing.len >= Size(T)
              /\ Walking /\ ~upset' => On(T) /\ ~upset /\ ~(Listing.len > Size(T))
  BY <1>1, GetListing, Zenon
<1>3. pos \in Nat /\ got \in Seq(TagIds \cup {GARBAGE}) /\ start' = start
  BY <1>1 DEF MInv, Get
<1>4. ~upset' => /\ Walked(T, "id", pos, got, start) /\ ~(Listing.len > Size(T))
                 /\ GARBAGE \notin IdsOf(got) /\ Ascending(got)
  BY <1>1, <1>2, Zenon DEF On, MInv, GotInv, Found, IdsOf
<1>5. CASE OutOfRange(pos)
  <2>1. at' = "done" /\ pos' = pos /\ got' = got /\ pos >= Listing.len
    BY <1>5 DEF OutOfRange
  <2>2. WalkTypes' /\ ~Walking'
    BY <1>3, <2>1 DEF WalkTypes, Walking
  <2>3. ASSUME ~upset', NoWrap
        PROVE  start \subseteq IdsOf(got)
    <3>1. Size(T) \in Nat
      BY Places, Zenon
    <3>2. pos >= Size(T)
      BY <1>2, <1>3, <2>1, <2>3, <3>1
    <3>3. QED
      BY <1>4, <2>3, <3>2, WalkedAll, Zenon
  <2>4. GotInv'
    BY <1>3, <1>4, <2>1, <2>3, Zenon DEF GotInv, Found, IdsOf, NoWrap
  <2>5. QED
    BY <1>1, <1>2, <2>2, <2>4, GetKeeps, Zenon
<1>6. CASE Lost(pos)
  <2>1. /\ at' = "done" /\ pos' = pos /\ got' = Append(got, GARBAGE)
        /\ pos < Listing.len /\ pos \notin DOMAIN Listing.at
    BY <1>6 DEF Lost
  <2>2. WalkTypes' /\ ~Walking'
    BY <1>3, <2>1 DEF WalkTypes, Walking
  <2>3. upset'
    <3>1. SUFFICES ASSUME ~upset'
                   PROVE  FALSE
      OBVIOUS
    <3>2. pos \notin Offsets(T)
      BY <1>2, <2>1, RecordsAre
    <3>3. pos = Size(T)
      BY <1>4, <3>1, <3>2 DEF Walked
    <3>4. QED
      BY <1>2, <1>3, <1>4, <2>1, <3>1, <3>3
  <2>4. GotInv'
    BY <2>3, Zenon DEF GotInv
  <2>5. QED
    BY <1>1, <1>2, <2>2, <2>4, GetKeeps, Zenon
<1>7. CASE /\ pos < Listing.len /\ pos \in DOMAIN Listing.at
           /\ at' = "length" /\ got' = Append(got, Listing.at[pos].id)
           /\ UNCHANGED pos
  <2>1. /\ at' = "length" /\ pos' = pos /\ got' = Append(got, Records(T)[pos].id)
        /\ pos \in Offsets(T)
    BY <1>2, <1>7, RecordsAre
  <2>2. Records(T)[pos].id \in TagIds
    <3>1. PICK i \in DOMAIN T : pos = Offset(T, i)
      BY <2>1 DEF Offsets
    <3>2. Records(T)[Offset(T, i)] = [id |-> i, length |-> T[i]] /\ i \in TagIds
      BY RecordsAre, Places, Zenon
    <3>3. QED
      BY <3>1, <3>2
  <2>3. WalkTypes'
    BY <1>3, <2>1, <2>2 DEF WalkTypes
  <2>4. ASSUME ~upset'
        PROVE  /\ Walked(T, "length", pos, got', start)
               /\ GARBAGE \notin IdsOf(got') /\ Ascending(got')
    <3>1. /\ Walked(T, "id", pos, got, start)
          /\ GARBAGE \notin IdsOf(got) /\ Ascending(got)
      BY <1>4, <2>4, Zenon
    <3>2. /\ Walked(T, "length", pos, Append(got, Records(T)[pos].id), start)
          /\ GARBAGE \notin IdsOf(Append(got, Records(T)[pos].id))
          /\ Ascending(Append(got, Records(T)[pos].id))
      BY <1>3, <2>1, <3>1, WalkedId, Zenon
    <3>3. QED
      BY <2>1, <3>2, Zenon
  <2>5. GotInv'
    <3>1. at' # "done"
      BY <2>1
    <3>2. QED
      BY <2>4, <3>1, Zenon DEF GotInv, Found, IdsOf
  <2>6. Walking' /\ ~upset' => On(T)'
    BY <1>3, <2>1, <2>4, Zenon DEF On
  <2>7. QED
    BY <1>1, <1>2, <2>3, <2>5, <2>6, GetKeeps, Zenon
<1>8. QED
  BY <1>5, <1>6, <1>7, Zenon DEF ReadId

(* ReadLength appends the record to the walk and moves to the next one.    *)
LEMMA ReadLengthKeeps ==
    ASSUME MInv, ReadLength
    PROVE  MInv'
<1>1. at = "length" /\ Get /\ Walking
  BY DEF ReadLength, Walking
<1>2. PICK T \in Listings :
              /\ Lists(T)' /\ meta' # NULL
              /\ Listing.at = Records(T) /\ Listing.len \in Nat
              /\ NoWrap => Listing.len >= Size(T)
              /\ Walking /\ ~upset' => On(T) /\ ~upset /\ ~(Listing.len > Size(T))
  BY <1>1, GetListing, Zenon
<1>3. pos \in Nat /\ got \in Seq(TagIds \cup {GARBAGE}) /\ start' = start
  BY <1>1 DEF MInv, Get
<1>4. ~upset' => /\ Walked(T, "length", pos, got, start)
                 /\ GARBAGE \notin IdsOf(got) /\ Ascending(got)
  BY <1>1, <1>2, Zenon DEF On, MInv, GotInv, Found, IdsOf
<1>5. DOMAIN Listing.at = Offsets(T)
  BY <1>2, RecordsAre
<1>6. CASE OutOfRange(pos + LENGTH_AT)
  <2>1. at' = "done" /\ pos' = pos /\ got' = got /\ pos + LENGTH_AT >= Listing.len
    BY <1>6 DEF OutOfRange
  <2>2. WalkTypes' /\ ~Walking'
    BY <1>3, <2>1 DEF WalkTypes, Walking
  <2>3. ASSUME ~upset', NoWrap
        PROVE  FALSE
    <3>1. PICK i \in DOMAIN T : pos = Offset(T, i)
      BY <1>4, <2>3 DEF Walked, Offsets
    <3>2. /\ Size(T) \in Nat /\ RecordSize(T[i]) \in Nat /\ RecordSize(T[i]) > LENGTH_AT
          /\ pos + RecordSize(T[i]) <= Size(T)
      BY <3>1, Places, Zenon
    <3>3. Listing.len >= Size(T) /\ Listing.len \in Nat
      BY <1>2, <2>3
    <3>4. QED
      BY <1>3, <2>1, <3>2, <3>3 DEF LENGTH_AT
  <2>4. GotInv'
    BY <1>3, <1>4, <2>1, <2>3, Zenon DEF GotInv, Found, IdsOf, NoWrap
  <2>5. QED
    BY <1>1, <1>2, <2>2, <2>4, GetKeeps, Zenon
<1>7. CASE Lost(pos + LENGTH_AT)
  <2>1. /\ at' = "done" /\ pos' = pos /\ got' = Append(got, GARBAGE)
        /\ pos \notin DOMAIN Listing.at
    BY <1>7 DEF Lost
  <2>2. WalkTypes' /\ ~Walking'
    BY <1>3, <2>1 DEF WalkTypes, Walking
  <2>3. upset'
    BY <1>4, <1>5, <2>1 DEF Walked
  <2>4. GotInv'
    BY <2>3, Zenon DEF GotInv
  <2>5. QED
    BY <1>1, <1>2, <2>2, <2>4, GetKeeps, Zenon
<1>8. CASE /\ pos + LENGTH_AT < Listing.len /\ pos \in DOMAIN Listing.at
           /\ at' = "id" /\ pos' = pos + RecordSize(Listing.at[pos].length)
           /\ UNCHANGED got
  <2>1. /\ at' = "id" /\ pos' = pos + RecordSize(Records(T)[pos].length) /\ got' = got
        /\ pos \in Offsets(T)
    BY <1>2, <1>5, <1>8
  <2>2. pos' \in Nat
    <3>1. PICK i \in DOMAIN T : pos = Offset(T, i)
      BY <2>1 DEF Offsets
    <3>2. Records(T)[Offset(T, i)] = [id |-> i, length |-> T[i]] /\ RecordSize(T[i]) \in Nat
      BY RecordsAre, Places, Zenon
    <3>3. Records(T)[pos].length = T[i]
      BY <3>1, <3>2
    <3>4. pos' = pos + RecordSize(T[i])
      BY <2>1, <3>3, Zenon
    <3>5. QED
      BY <1>3, <3>2, <3>4
  <2>3. WalkTypes'
    BY <1>3, <2>1, <2>2 DEF WalkTypes
  <2>4. GotInv'
    <3>1. at' # "done"
      BY <2>1
    <3>2. QED
      BY <1>4, <2>1, <3>1, Zenon DEF GotInv, Found, IdsOf
  <2>5. Walking' /\ ~upset' => On(T)'
    <3>1. ASSUME ~upset'
          PROVE  Walked(T, "id", pos + RecordSize(Records(T)[pos].length), got, start)
      BY <1>4, <3>1, WalkedLength, Zenon
    <3>2. QED
      BY <1>3, <2>1, <3>1, Zenon DEF On
  <2>6. QED
    BY <1>1, <1>2, <2>3, <2>4, <2>5, GetKeeps, Zenon
<1>9. QED
  BY <1>6, <1>7, <1>8, Zenon DEF ReadLength

-----------------------------------------------------------------------------
(* Without a destroy since, a listing or none, the walk is on the tags in  *)
(* the tree.                                                               *)
LEMMA OnTags ==
    ASSUME MInv, ~destroyed, Walking, ~upset
    PROVE  On(tags)
<1>1. CASE meta = NULL
  BY <1>1, Zenon DEF MInv, ListingInv
<1>2. CASE meta # NULL
  BY <1>2, Zenon DEF MInv, ListingInv, Lists
<1>3. QED
  BY <1>1, <1>2

(* A new tag's id is greater than those of all others.                     *)
LEMMA NextIdGreater ==
    ASSUME tags \in Listings, NextId <= MaxId
    PROVE  NextId \in TagIds /\ \A i \in DOMAIN tags : i < NextId
<1> DEFINE S == DOMAIN tags \cup {METATAG_ID}
<1>1. METATAG_ID \in Nat /\ MaxId \in Nat /\ METATAG_ID <= MaxId
  BY ConstantsAssumption DEF METATAG_ID
<1>2. \A i \in DOMAIN tags : i \in Nat /\ i <= MaxId
  BY <1>1, InListings DEF TagIds, METATAG_ID
<1>3. S \in SUBSET Nat /\ S # {} /\ \A i \in S : i <= MaxId
  BY <1>1, <1>2
<1>4. Max(S) \in S /\ \A i \in S : i <= Max(S)
  BY <1>1, <1>3, MaxExists
<1>5. Max(S) \in Nat /\ Max(S) >= METATAG_ID
  BY <1>3, <1>4
<1>6. NextId = Max(S) + 1
  BY Zenon DEF NextId
<1> HIDE DEF S
<1>7. NextId \in TagIds
  BY <1>1, <1>5, <1>6 DEF TagIds
<1>8. \A i \in DOMAIN tags : i \in S
  BY Zenon DEF S
<1>9. QED
  BY <1>2, <1>4, <1>5, <1>6, <1>7, <1>8

(* The calls besides the walk's.                                           *)
LEMMA CallCounts ==
    ASSUME MInv, NEW o, Call(o)
    PROVE  calls' \in 0 .. MaxCalls
BY ConstantsAssumption DEF MInv, Call

(* A creation frees the metatag, and its id is above all that are listed.  *)
LEMMA CreateKeeps ==
    ASSUME MInv, NEW length \in NameLengths, Create(length)
    PROVE  MInv'
<1>1. /\ NextId <= MaxId /\ meta' = NULL
      /\ tags' = [i \in DOMAIN tags \cup {NextId} |-> IF i = NextId THEN length ELSE tags[i]]
      /\ at' = at /\ pos' = pos /\ got' = got /\ start' = start
      /\ destroyed' = destroyed /\ upset' = upset
  BY DEF Create, Invalidate, walkVars
<1>2. calls' \in 0 .. MaxCalls
  BY CallCounts, Zenon DEF Create
<1>3. tags \in Listings /\ length \in Lengths
  BY DEF MInv, Lengths
<1>4. NextId \in TagIds /\ \A i \in DOMAIN tags : i < NextId
  BY <1>1, <1>3, NextIdGreater, Zenon
<1>5. tags' \in Listings
  <2>1. PICK U : U = tags'
    OBVIOUS
  <2>2. U = [i \in DOMAIN tags \cup {NextId} |-> IF i = NextId THEN length ELSE tags[i]]
    BY <1>1, <2>1
  <2>3. U \in Listings
    BY <1>3, <1>4, <2>2, LongerListing
  <2>4. QED
    BY <2>1, <2>3, Zenon
<1>6. ListingInv'
  <2>1. SUFFICES ASSUME ~destroyed, Walking, ~upset
                 PROVE  Walked(tags', at, pos, got, start)
    BY <1>1, Zenon DEF ListingInv, Walking, On
  <2>2. Walked(tags, at, pos, got, start)
    BY <2>1, OnTags, Zenon DEF On
  <2>3. PICK U : U = tags'
    OBVIOUS
  <2>4. U = [i \in DOMAIN tags \cup {NextId} |-> IF i = NextId THEN length ELSE tags[i]]
    BY <1>1, <2>3
  <2>5. Walked(U, at, pos, got, start)
    BY <1>3, <1>4, <2>2, <2>4, WalkedLonger
  <2>6. QED
    BY <2>3, <2>5, Zenon
<1>7. GotInv'
  BY <1>1, Zenon DEF MInv, GotInv, Found, NoWrap
<1>8. QED
  BY <1>1, <1>2, <1>5, <1>6, <1>7, Zenon DEF MInv

(* A creation of @tags lists the tags anew.                                *)
LEMMA CreateMetaKeeps ==
    ASSUME MInv, CreateMeta
    PROVE  MInv'
<1>1. /\ meta' = MetanodeCreate /\ tags' = tags
      /\ at' = at /\ pos' = pos /\ got' = got /\ start' = start
      /\ upset' = (upset \/ (destroyed /\ Walking)) /\ destroyed' = (destroyed /\ Walking)
  BY DEF CreateMeta, Rebuilt, walkVars
<1>2. calls' \in 0 .. MaxCalls
  BY CallCounts, Zenon DEF CreateMeta
<1>3. tags \in Listings
  BY DEF MInv
<1>4. Lists(tags)' /\ meta' # NULL
  <2>1. /\ meta' = [len |-> meta'.len, at |-> Records(tags)]
        /\ \E extra \in {0, RecordSize(METATAG_NAME)} : meta'.len = (Size(tags) + extra) % LenMod
    BY <1>1 DEF MetanodeCreate
  <2>2. meta' # NULL
    BY <2>1 DEF NULL
  <2>3. DOMAIN tags \subseteq DOMAIN tags
    OBVIOUS
  <2>4. QED
    BY <1>1, <2>1, <2>2, <2>3, Zenon DEF Lists
<1>5. Walking' /\ ~upset' => On(tags)'
  <2>1. SUFFICES ASSUME Walking', ~upset'
                 PROVE  Walked(tags', at', pos', got', start')
    BY Zenon DEF On
  <2>2. Walking /\ ~upset /\ ~destroyed
    BY <1>1, <2>1, Zenon DEF Walking
  <2>3. QED
    BY <1>1, <2>2, OnTags, Zenon DEF On
<1>6. ListingInv'
  <2>1. PICK T \in Listings : T = tags
    BY <1>3
  <2>2. Lists(T)' /\ (Walking' /\ ~upset' => On(T)')
    BY <1>1, <1>4, <1>5, <2>1, Zenon DEF Lists, On
  <2>3. QED
    BY <1>4, <2>2, Zenon DEF ListingInv
<1>7. GotInv'
  BY <1>1, Zenon DEF MInv, GotInv, Found, NoWrap
<1>8. destroyed' \in BOOLEAN /\ upset' \in BOOLEAN
  BY <1>1, Zenon
<1>9. QED
  BY <1>1, <1>2, <1>6, <1>7, <1>8, Zenon DEF MInv

(* A destroy leaves the metatag as it is.                                  *)
LEMMA DestroyKeeps ==
    ASSUME MInv, NEW i \in DOMAIN tags, Destroy(i)
    PROVE  MInv'
<1>1. /\ meta' = meta /\ tags' = [j \in DOMAIN tags \ {i} |-> tags[j]]
      /\ at' = at /\ pos' = pos /\ got' = got /\ start' = start
      /\ upset' = upset /\ destroyed' = TRUE
  BY DEF Destroy, walkVars
<1>2. calls' \in 0 .. MaxCalls
  BY CallCounts, Zenon DEF Destroy
<1>3. DOMAIN tags' \subseteq DOMAIN tags
  BY <1>1
<1>4. tags' \in Listings
  <2>1. /\ DOMAIN tags \subseteq TagIds
        /\ \A j \in DOMAIN tags : tags[j] \in Lengths
    BY InListings DEF MInv
  <2>2. DOMAIN tags' \subseteq TagIds /\ tags' = [j \in DOMAIN tags' |-> tags'[j]]
    BY <1>1, <2>1
  <2>3. \A j \in DOMAIN tags' : tags'[j] \in Lengths
    BY <1>1, <2>1
  <2>4. QED
    BY <2>2, <2>3, InListings
<1>5. ListingInv'
  <2>1. meta # NULL =>
          \E T \in Listings : Lists(T)' /\ (Walking' /\ ~upset' => On(T)')
    <3>1. SUFFICES ASSUME meta # NULL
                   PROVE  \E T \in Listings : Lists(T)' /\ (Walking' /\ ~upset' => On(T)')
      OBVIOUS
    <3>2. PICK T \in Listings : Lists(T) /\ (Walking /\ ~upset => On(T))
      BY <3>1, Zenon DEF MInv, ListingInv
    <3>3. DOMAIN tags' \subseteq DOMAIN T
      BY <1>3, <3>2 DEF Lists
    <3>4. Lists(T)'
      BY <1>1, <3>2, <3>3, Zenon DEF Lists
    <3>5. Walking' /\ ~upset' => On(T)'
      BY <1>1, <3>2, Zenon DEF Walking, On
    <3>6. QED
      BY <3>4, <3>5, Zenon
  <2>2. QED
    BY <1>1, <2>1, Zenon DEF ListingInv
<1>6. GotInv'
  BY <1>1, Zenon DEF MInv, GotInv, Found, NoWrap
<1>7. QED
  BY <1>1, <1>2, <1>4, <1>5, <1>6, Zenon DEF MInv

(* A walk starts with nothing read.                                        *)
LEMMA WalkStartKeeps ==
    ASSUME MInv, WalkStart
    PROVE  MInv'
<1>1. /\ at' = "id" /\ pos' = 0 /\ got' = <<>> /\ start' = DOMAIN tags
      /\ destroyed' = (destroyed /\ meta # NULL) /\ upset' = FALSE
      /\ tags' = tags /\ meta' = meta /\ calls' = calls
  BY DEF WalkStart
<1>2. tags \in Listings /\ DOMAIN tags \subseteq TagIds
  BY InListings DEF MInv
<1>3. ASSUME NEW T \in Listings, DOMAIN tags \subseteq DOMAIN T
      PROVE  Walked(T, at', pos', got', start')
  BY <1>1, <1>3, WalkedNothing, Zenon
<1>4. ListingInv'
  <2>1. meta # NULL =>
          \E T \in Listings : Lists(T)' /\ On(T)'
    <3>1. SUFFICES ASSUME meta # NULL
                   PROVE  \E T \in Listings : Lists(T)' /\ On(T)'
      OBVIOUS
    <3>2. PICK T \in Listings : Lists(T)
      BY <3>1, Zenon DEF MInv, ListingInv
    <3>3. Lists(T)'
      BY <1>1, <3>1, <3>2, Zenon DEF Lists
    <3>4. On(T)'
      BY <1>3, <3>2, Zenon DEF Lists, On
    <3>5. QED
      BY <3>3, <3>4, Zenon
  <2>2. On(tags)'
    <3>1. DOMAIN tags \subseteq DOMAIN tags
      OBVIOUS
    <3>2. Walked(tags, at', pos', got', start')
      BY <1>2, <1>3, <3>1, Zenon
    <3>3. QED
      BY <1>1, <3>2, Zenon DEF On
  <2>3. QED
    BY <1>1, <2>1, <2>2, Zenon DEF ListingInv
<1>5. GotInv'
  <2>1. Found' = {}
    BY <1>1 DEF Found
  <2>2. Ascending(got')
    BY <1>1 DEF Ascending
  <2>3. at' # "done"
    BY <1>1
  <2>4. QED
    BY <2>1, <2>2, <2>3, Zenon DEF GotInv
<1>6. at' \in {"id", "length", "done"} /\ pos' \in Nat /\ got' \in Seq(TagIds \cup {GARBAGE})
      /\ start' \subseteq TagIds
  BY <1>1, <1>2
<1>7. destroyed' \in BOOLEAN /\ upset' \in BOOLEAN
  BY <1>1, Zenon
<1>8. QED
  BY <1>1, <1>4, <1>5, <1>6, <1>7, Zenon DEF MInv

(* The invariant holds initially, and a step keeps it.                     *)
LEMMA MInit == Init => MInv
<1>1. SUFFICES ASSUME Init
               PROVE  MInv
  OBVIOUS
<1>2. tags \in Listings
  <2>1. /\ DOMAIN tags = METATAG_ID + 1 .. METATAG_ID + NInit
        /\ tags = [i \in DOMAIN tags |-> tags[i]]
        /\ \A i \in DOMAIN tags : tags[i] = PREDEFINED_NAME
    BY <1>1 DEF Init
  <2>2. DOMAIN tags \subseteq TagIds
    BY <2>1, ConstantsAssumption DEF TagIds, METATAG_ID
  <2>3. \A i \in DOMAIN tags : tags[i] \in Lengths
    BY <2>1 DEF Lengths
  <2>4. QED
    BY <2>1, <2>2, <2>3, InListings
<1>3. ListingInv
  BY <1>1 DEF Init, ListingInv, Walking
<1>4. GotInv
  BY <1>1 DEF Init, GotInv, Found, Ascending
<1>5. /\ at \in {"id", "length", "done"} /\ pos \in Nat
      /\ got \in Seq(TagIds \cup {GARBAGE}) /\ start \subseteq TagIds
      /\ calls \in 0 .. MaxCalls
  BY <1>1, ConstantsAssumption DEF Init
<1>6. destroyed \in BOOLEAN /\ upset \in BOOLEAN
  BY <1>1, Zenon DEF Init
<1>7. QED
  BY <1>2, <1>3, <1>4, <1>5, <1>6, Zenon DEF MInv

(* So MInv is inductive.                                                   *)
LEMMA MStep == MInv /\ [Next]_vars => MInv'
<1>1. SUFFICES ASSUME MInv, [Next]_vars
               PROVE  MInv'
  OBVIOUS
<1>2. CASE UNCHANGED vars
  <2>1. /\ tags' = tags /\ meta' = meta /\ at' = at /\ pos' = pos /\ got' = got
        /\ start' = start /\ destroyed' = destroyed /\ upset' = upset /\ calls' = calls
    BY <1>2 DEF vars, walkVars
  <2>2. ListingInv'
    BY <1>1, <2>1, Zenon DEF MInv, ListingInv, Lists, On, Walking
  <2>3. GotInv'
    BY <1>1, <2>1, Zenon DEF MInv, GotInv, Found, NoWrap
  <2>4. QED
    BY <1>1, <2>1, <2>2, <2>3, Zenon DEF MInv
<1>3. CASE Next
  BY <1>1, <1>3, CreateKeeps, CreateMetaKeeps, DestroyKeeps, WalkStartKeeps, ReadIdKeeps,
     ReadLengthKeeps, Zenon DEF Next
<1>4. QED
  BY <1>1, <1>2, <1>3

(* The invariant is one of every run: the metatag lists the tags as they   *)
(* were when it was built (tag_tree_metanode_create), and an undisturbed   *)
(* walk has read the ids of exactly the records it has stepped over.       *)
THEOREM WalkInductive == Spec => []MInv
<1>1. QED
  BY MInit, MStep, PTL DEF Spec

(* Types; in particular the metatag lists tags with the names they have,   *)
(* and never itself.                                                       *)
THEOREM MetatagTypes == Spec => []TypeOK
<1>1. ASSUME MInv
      PROVE  TypeOK
  <2>1. DOMAIN tags \subseteq TagIds /\ \A i \in DOMAIN tags : tags[i] \in Lengths
    BY <1>1, InListings DEF MInv
  <2>2. ASSUME meta # NULL
        PROVE  /\ meta.len \in 0 .. LenMod - 1
               /\ \A o \in DOMAIN meta.at :
                     o \in Nat /\ meta.at[o] \in [id : TagIds, length : Lengths]
    <3>1. PICK T \in Listings : Lists(T)
      BY <1>1, <2>2, Zenon DEF MInv, ListingInv
    <3>2. PICK extra \in {0, RecordSize(METATAG_NAME)} : meta.len = (Size(T) + extra) % LenMod
      BY <3>1, Zenon DEF Lists
    <3>3. Size(T) \in Nat /\ extra \in Nat /\ LenMod \in Nat /\ LenMod # 0
      BY Places, ConstantsAssumption DEF RecordSize, HEADER, METATAG_NAME
    <3>4. meta.len \in 0 .. LenMod - 1
      BY <3>2, <3>3
    <3>5. meta.at = Records(T)
      BY <3>1 DEF Lists
    <3>6. DOMAIN meta.at = Offsets(T)
      BY <3>5, RecordsAre
    <3>7. ASSUME NEW i \in DOMAIN T
          PROVE  /\ Offset(T, i) \in Nat
                 /\ meta.at[Offset(T, i)] \in [id : TagIds, length : Lengths]
      <4>1. Records(T)[Offset(T, i)] = [id |-> i, length |-> T[i]]
        BY RecordsAre, Zenon
      <4>2. Offset(T, i) \in Nat /\ i \in TagIds /\ T[i] \in Lengths
        BY Places, Zenon
      <4>3. QED
        BY <3>5, <4>1, <4>2
    <3>8. QED
      BY <3>4, <3>6, <3>7, Zenon DEF Offsets
  <2>3. QED
    BY <1>1, <2>1, <2>2, Zenon DEF MInv, TypeOK
<1>2. QED
  BY <1>1, WalkInductive, PTL

(* An undisturbed walk reads records only, although creates rebuild the    *)
(* metatag under it (tag_tree_node_create unlinks it, the next get builds  *)
(* it anew); also when the length of its type has wrapped.                 *)
THEOREM WalkReadsRecords == Spec => []WalkParses
<1>1. MInv => WalkParses
  BY Zenon DEF MInv, GotInv, WalkParses
<1>2. QED
  BY <1>1, WalkInductive, PTL

(* An undisturbed walk to the end has read every tag there was when it     *)
(* began, each once, if the length of no listing wraps.                    *)
THEOREM WalkReadsAll == NoWrap => (Spec => []WalkComplete)
<1> SUFFICES ASSUME NoWrap
             PROVE  Spec => []WalkComplete
  OBVIOUS
<1>1. MInv => WalkComplete
  BY Zenon DEF MInv, GotInv, WalkComplete, Ascending
<1>2. QED
  BY <1>1, WalkInductive, PTL

=============================================================================
