------------------------- MODULE TypeOwnershipProofs -------------------------
(***************************************************************************)
(* Theorems of TypeOwnership, for types of any size and depth, any number  *)
(* of blocks and any sequence of calls.                                    *)
(***************************************************************************)
EXTENDS TypeOwnership, TLAPS

-----------------------------------------------------------------------------
(* The blocks of a type, in any heap h.                                    *)
LEMMA BlocksFacts ==
    ASSUME NEW h, NEW t
    PROVE  /\ Blocks(h, t) \subseteq DOMAIN h
           /\ t \in DOMAIN h => t \in Blocks(h, t)
           /\ Closed(h, Blocks(h, t))
<1>1. Blocks(h, t) \subseteq DOMAIN h /\ (t \in DOMAIN h => t \in Blocks(h, t))
  BY DEF Blocks
<1>2. ASSUME NEW a \in Blocks(h, t), NEW f \in Pointers(h[a]) \cap DOMAIN h
      PROVE  f \in Blocks(h, t)
  <2>1. ASSUME NEW S \in SUBSET DOMAIN h, {t} \cap DOMAIN h \subseteq S, Closed(h, S)
        PROVE  f \in S
    BY <1>2, <2>1 DEF Blocks, Closed
  <2>2. QED
    BY <1>2, <2>1 DEF Blocks
<1>3. QED
  BY <1>1, <1>2 DEF Closed

LEMMA BlocksLeast ==
    ASSUME NEW h, NEW t, NEW S \in SUBSET DOMAIN h, t \in S, Closed(h, S)
    PROVE  Blocks(h, t) \subseteq S
BY DEF Blocks

(* The types inside of a whole type are whole.                             *)
LEMMA Nested ==
    ASSUME NEW h, NEW t, Whole(h, t), NEW f \in Pointers(h[t])
    PROVE  /\ Whole(h, f)
           /\ Blocks(h, f) \subseteq Blocks(h, t) \ {t}
<1> DEFINE T == Blocks(h, t)
           F == Blocks(h, f)
<1>1. t \in T /\ T \subseteq DOMAIN h /\ Closed(h, T) /\ Closed(h, F)
  BY BlocksFacts DEF Whole
<1>2. f \in T /\ f # t /\ ~IsSimple(f) /\ f \in DOMAIN h
  BY <1>1 DEF Whole, Closed, Pointers
<1>3. Closed(h, T \ {t})
  BY <1>1 DEF Whole, Closed
<1>4. F \subseteq T \ {t}
  BY <1>1, <1>2, <1>3, BlocksLeast
<1>5. ASSUME NEW a \in F  PROVE  f \notin Pointers(h[a])
  <2>1. SUFFICES ASSUME f \in Pointers(h[a])  PROVE FALSE
    OBVIOUS
  <2>2. PICK i \in DOMAIN h[a].of : h[a].of[i] = f
    BY <2>1 DEF Pointers, Range
  <2>3. PICK j \in DOMAIN h[t].of : h[t].of[j] = f
    BY DEF Pointers, Range
  <2>4. a = t
    BY <1>1, <1>2, <1>4, <1>5, <2>2, <2>3 DEF Whole, Once
  <2>5. QED
    BY <1>4, <1>5, <2>4
<1>6. \A a \in F : Pointers(h[a]) \subseteq DOMAIN h \ {f}
  BY <1>4, <1>5 DEF Whole
<1>7. Once(h, F)
  BY <1>4 DEF Whole, Once
<1>8. QED
  BY <1>2, <1>4, <1>6, <1>7 DEF Whole

(* A type does not change while its blocks do not.                         *)
LEMMA Kept ==
    ASSUME NEW h, NEW g, NEW t, Whole(h, t), Blocks(h, t) \subseteq DOMAIN g,
           \A a \in Blocks(h, t) : g[a] = h[a]
    PROVE  Blocks(g, t) = Blocks(h, t) /\ Whole(g, t)
<1> DEFINE H == Blocks(h, t)
           G == Blocks(g, t)
<1>1. t \in H /\ H \subseteq DOMAIN h /\ Closed(h, H)
  BY BlocksFacts DEF Whole
<1>2. \A a \in H : Pointers(g[a]) \subseteq H \ {t}
  BY <1>1 DEF Whole, Closed
<1>3. t \in G /\ Closed(g, G)
  BY <1>1, BlocksFacts
<1>4. Closed(g, H)
  BY <1>2 DEF Closed
<1>5. G \subseteq H
  BY <1>1, <1>4, BlocksLeast
<1>6. \A a \in G : Pointers(h[a]) \cap DOMAIN h \subseteq G
  BY <1>2, <1>3, <1>5 DEF Closed
<1>7. Closed(h, G)
  BY <1>6 DEF Closed
<1>8. H \subseteq G
  BY <1>1, <1>3, <1>5, <1>7, BlocksLeast
<1>9. H = G
  BY <1>5, <1>8
<1>10. Once(h, H) => Once(g, H)
  BY DEF Once
<1>11. QED
  BY <1>1, <1>2, <1>9, <1>10 DEF Whole

LEMMA BlocksNone ==
    ASSUME NEW h, NEW t, t \notin DOMAIN h
    PROVE  Blocks(h, t) = {}
<1>1. Closed(h, {})
  BY DEF Closed
<1>2. QED
  BY <1>1 DEF Blocks

-----------------------------------------------------------------------------
LEMMA Addresses == \A x \in Addrs : x \in Nat /\ ~IsSimple(x)
BY ConstantsAssumption

(* What is built out of a block b: the pointers of b are whole types, and  *)
(* the new block and the copies get addresses of their own.                *)
Copyable(b) == b \in Block /\ \A f \in Pointers(b) : Whole(heap, f)

Placed(b, a, c) ==
    /\ a \in Addrs \ DOMAIN heap
    /\ c \in Injection(Parts(b), Addrs \ (DOMAIN heap \cup {a}))

LEMMA PartsFacts ==
    ASSUME TypeOK, NEW b, Copyable(b)
    PROVE  /\ \A i \in DOMAIN b.of : ~IsSimple(b.of[i]) => <<i, b.of[i]>> \in Parts(b)
           /\ \A p \in Parts(b) :
                 /\ p = <<p[1], p[2]>> /\ p[1] \in DOMAIN b.of /\ p[2] \in DOMAIN heap
                 /\ p[2] \in Blocks(heap, b.of[p[1]])
                 /\ ~IsSimple(b.of[p[1]]) /\ Whole(heap, b.of[p[1]])
                 /\ \A f \in Pointers(heap[p[2]]) :
                       <<p[1], f>> \in Parts(b) /\ f # b.of[p[1]]
<1>1. ASSUME NEW i \in DOMAIN b.of, ~IsSimple(b.of[i])
      PROVE  Whole(heap, b.of[i])
  BY <1>1 DEF Copyable, Pointers, Range
<1>2. ASSUME NEW i \in DOMAIN b.of, ~IsSimple(b.of[i])
      PROVE  <<i, b.of[i]>> \in Parts(b)
  <2>1. b.of[i] \in DOMAIN heap
    BY <1>1, <1>2 DEF Whole
  <2>2. b.of[i] \in Blocks(heap, b.of[i])
    BY <2>1, BlocksFacts
  <2>3. QED
    BY <2>1, <2>2 DEF Parts
<1>3. ASSUME NEW p \in Parts(b)
      PROVE  /\ p = <<p[1], p[2]>> /\ p[1] \in DOMAIN b.of /\ p[2] \in DOMAIN heap
             /\ p[2] \in Blocks(heap, b.of[p[1]])
  BY DEF Parts
<1>4. ASSUME NEW p \in Parts(b)
      PROVE  ~IsSimple(b.of[p[1]])
  <2>1. b.of[p[1]] \in DOMAIN heap
    BY <1>3, BlocksNone
  <2>2. QED
    BY <2>1, Addresses DEF TypeOK
<1>5. ASSUME NEW p \in Parts(b), NEW f \in Pointers(heap[p[2]])
      PROVE  <<p[1], f>> \in Parts(b) /\ f # b.of[p[1]]
  <2> DEFINE t == b.of[p[1]]
  <2>1. Whole(heap, t) /\ p[2] \in Blocks(heap, t) /\ p[1] \in DOMAIN b.of
    BY <1>1, <1>3, <1>4
  <2>2. f \in DOMAIN heap /\ f # t
    BY <2>1 DEF Whole
  <2>3. f \in Blocks(heap, t)
    BY <2>1, <2>2, BlocksFacts DEF Closed
  <2>4. QED
    BY <2>1, <2>2, <2>3 DEF Parts
<1>6. QED
  BY <1>1, <1>2, <1>3, <1>4, <1>5

(* Where the new blocks are ...                                            *)
LEMMA PlacedDomain ==
    ASSUME NEW b, NEW a, NEW c, Placed(b, a, c)
    PROVE  /\ DOMAIN Extended(b, a, c) = DOMAIN heap \cup {a} \cup Range(c)
           /\ DOMAIN c = Parts(b)
           /\ a \in Addrs /\ a \notin DOMAIN heap
BY DEF Placed, Extended, Injection

LEMMA PlacedOnce ==
    ASSUME NEW b, NEW a, NEW c, Placed(b, a, c), NEW p \in Parts(b), NEW q \in Parts(b),
           c[p] = c[q]
    PROVE  p = q
<1>1. c \in [Parts(b) -> Addrs \ (DOMAIN heap \cup {a})] /\ IsInjective(c)
  BY DEF Placed, Injection
<1>2. QED
  BY <1>1 DEF IsInjective

LEMMA PlacedAt ==
    ASSUME NEW b, NEW a, NEW c, Placed(b, a, c), NEW p \in Parts(b)
    PROVE  /\ c[p] \in Range(c) /\ ~IsSimple(c[p])
           /\ c[p] \in Addrs /\ c[p] \notin DOMAIN heap /\ c[p] # a
<1>1. c \in [Parts(b) -> Addrs \ (DOMAIN heap \cup {a})]
  BY DEF Placed, Injection
<1>2. c[p] \in Range(c)
  BY <1>1 DEF Range
<1>3. QED
  BY <1>1, <1>2, Addresses

LEMMA PlacedBack ==
    ASSUME NEW b, NEW a, NEW c, Placed(b, a, c), NEW x \in Range(c)
    PROVE  \E p \in Parts(b) : x = c[p]
<1>1. DOMAIN c = Parts(b)
  BY PlacedDomain
<1>2. QED
  BY <1>1 DEF Range

(* ... and what is in them.                                                *)
LEMMA OldIn ==
    ASSUME NEW b, NEW a, NEW c, NEW x \in DOMAIN heap
    PROVE  Extended(b, a, c)[x] = heap[x]
BY DEF Extended

LEMMA TopIn ==
    ASSUME NEW b, NEW a, NEW c, Placed(b, a, c)
    PROVE  Extended(b, a, c)[a] = Top(b, c)
BY DEF Extended, Placed

LEMMA CopyIn ==
    ASSUME NEW b, NEW a, NEW c, Placed(b, a, c), NEW p \in Parts(b)
    PROVE  Extended(b, a, c)[c[p]] = Inner(heap[p[2]], c, p[1])
<1> DEFINE q == AntiFunction(c)[c[p]]
<1>1. c[p] \in Range(c) /\ c[p] \notin DOMAIN heap /\ c[p] # a
  BY PlacedAt
<1>2. DOMAIN c = Parts(b)
  BY PlacedDomain
<1>3. \E r \in Parts(b) : c[p] \in Range(c) => c[r] = c[p]
  OBVIOUS
<1>4. q = CHOOSE r \in Parts(b) : c[p] \in Range(c) => c[r] = c[p]
  BY <1>1, <1>2 DEF AntiFunction, Inverse
<1>5. q \in Parts(b) /\ c[q] = c[p]
  BY <1>1, <1>3, <1>4
<1>6. q = p
  BY <1>5, PlacedOnce
<1>7. Extended(b, a, c)[c[p]] = Inner(heap[q[2]], c, q[1])
  BY <1>1 DEF Extended
<1>8. QED
  BY <1>6, <1>7

LEMMA TopLinks ==
    ASSUME NEW b \in Block, NEW c
    PROVE  Top(b, c).of = [j \in DOMAIN b.of |-> To(c, j, b.of[j])]
BY DEF Top, Block

LEMMA InnerLinks ==
    ASSUME NEW b \in Block, NEW c, NEW i
    PROVE  Inner(b, c, i).of = [j \in DOMAIN b.of |-> To(c, i, b.of[j])]
<1>1. CASE b.t = TAG_ARRAY
  BY <1>1 DEF Inner, Dupped, Block
<1>2. CASE b.t # TAG_ARRAY
  BY <1>2 DEF Inner, Dupped, StructBlock
<1>3. QED
  BY <1>1, <1>2

(* The heap g after a step that builds.                                    *)
Builds(b, a, c, g) ==
    TypeOK /\ Copyable(b) /\ Placed(b, a, c) /\ g = Extended(b, a, c)

(* The pointers of the new block lead to copies ...                        *)
LEMMA TopPointers ==
    ASSUME NEW b, NEW a, NEW c, NEW g, Builds(b, a, c, g)
    PROVE  /\ DOMAIN g[a].of = DOMAIN b.of
           /\ \A i \in DOMAIN b.of :
                 \/ IsSimple(b.of[i]) /\ g[a].of[i] = b.of[i]
                 \/ /\ ~IsSimple(b.of[i]) /\ <<i, b.of[i]>> \in Parts(b)
                    /\ g[a].of[i] = c[<<i, b.of[i]>>]
<1>1. g[a] = Top(b, c) /\ b \in Block
  BY TopIn DEF Builds, Copyable
<1>2. g[a].of = [j \in DOMAIN b.of |-> To(c, j, b.of[j])]
  BY <1>1, TopLinks
<1>3. ASSUME NEW i \in DOMAIN b.of
      PROVE  IsSimple(b.of[i]) \/ <<i, b.of[i]>> \in Parts(b)
  BY PartsFacts DEF Builds
<1>4. QED
  BY <1>2, <1>3 DEF To

(* ... and those of a copy to others for the same field, never to its top. *)
LEMMA CopyLinks ==
    ASSUME NEW b, NEW a, NEW c, NEW g, Builds(b, a, c, g), NEW p \in Parts(b)
    PROVE  g[c[p]].of = [j \in DOMAIN heap[p[2]].of |-> To(c, p[1], heap[p[2]].of[j])]
<1>1. p[2] \in DOMAIN heap
  BY PartsFacts DEF Builds
<1>2. heap[p[2]] \in Block
  BY <1>1 DEF Builds, TypeOK
<1>3. g[c[p]] = Inner(heap[p[2]], c, p[1])
  BY CopyIn DEF Builds
<1>4. QED
  BY <1>2, <1>3, InnerLinks

LEMMA CopyDomain ==
    ASSUME NEW b, NEW a, NEW c, NEW g, Builds(b, a, c, g), NEW p \in Parts(b)
    PROVE  DOMAIN g[c[p]].of = DOMAIN heap[p[2]].of
<1>1. g[c[p]].of = [j \in DOMAIN heap[p[2]].of |-> To(c, p[1], heap[p[2]].of[j])]
  BY CopyLinks
<1>2. QED
  BY <1>1

LEMMA CopyPointers ==
    ASSUME NEW b, NEW a, NEW c, NEW g, Builds(b, a, c, g), NEW p \in Parts(b),
           NEW i \in DOMAIN heap[p[2]].of, NEW f, f = heap[p[2]].of[i]
    PROVE  \/ IsSimple(f) /\ g[c[p]].of[i] = f
           \/ /\ ~IsSimple(f) /\ <<p[1], f>> \in Parts(b) /\ f # b.of[p[1]]
              /\ g[c[p]].of[i] = c[<<p[1], f>>]
<1>1. g[c[p]].of[i] = To(c, p[1], f)
  <2>1. g[c[p]].of = [j \in DOMAIN heap[p[2]].of |-> To(c, p[1], heap[p[2]].of[j])]
    BY CopyLinks
  <2>2. QED
    BY <2>1
<1>2. ASSUME ~IsSimple(f)
      PROVE  <<p[1], f>> \in Parts(b) /\ f # b.of[p[1]]
  <2>1. f \in Pointers(heap[p[2]])
    BY <1>2 DEF Pointers, Range
  <2>2. QED
    BY <2>1, PartsFacts DEF Builds
<1>3. QED
  BY <1>1, <1>2 DEF To

(* The blocks of the new type are the new block and the copies.            *)
LEMMA NewBlocks ==
    ASSUME NEW b, NEW a, NEW c, NEW g, Builds(b, a, c, g)
    PROVE  /\ Blocks(g, a) = {a} \cup Range(c)
           /\ \A x \in Blocks(g, a) : Pointers(g[x]) \subseteq Range(c)
<1> DEFINE B == {a} \cup Range(c)
<1>a. TypeOK /\ Copyable(b) /\ Placed(b, a, c) /\ g = Extended(b, a, c)
  BY DEF Builds
<1>1. DOMAIN g = DOMAIN heap \cup B
  <2>1. DOMAIN Extended(b, a, c) = DOMAIN heap \cup {a} \cup Range(c)
    BY <1>a, PlacedDomain
  <2>2. QED
    BY <1>a, <2>1
<1>2. Pointers(g[a]) \subseteq Range(c)
  <2>1. ASSUME NEW i \in DOMAIN g[a].of, ~IsSimple(g[a].of[i])
        PROVE  g[a].of[i] \in Range(c)
    <3>1. <<i, b.of[i]>> \in Parts(b) /\ g[a].of[i] = c[<<i, b.of[i]>>]
      BY <2>1, TopPointers
    <3>2. QED
      BY <1>a, <3>1, PlacedAt
  <2>2. QED
    BY <2>1 DEF Pointers, Range
<1>3. ASSUME NEW p \in Parts(b)  PROVE  Pointers(g[c[p]]) \subseteq Range(c)
  <2>1. ASSUME NEW i \in DOMAIN g[c[p]].of, ~IsSimple(g[c[p]].of[i])
        PROVE  g[c[p]].of[i] \in Range(c)
    <3>1. DOMAIN g[c[p]].of = DOMAIN heap[p[2]].of
      BY CopyDomain
    <3> DEFINE f == heap[p[2]].of[i]
    <3>2. \/ IsSimple(f) /\ g[c[p]].of[i] = f
          \/ <<p[1], f>> \in Parts(b) /\ g[c[p]].of[i] = c[<<p[1], f>>]
      <4>1. i \in DOMAIN heap[p[2]].of
        BY <3>1
      <4>2. QED
        BY <4>1, CopyPointers
    <3>3. <<p[1], f>> \in Parts(b) /\ g[c[p]].of[i] = c[<<p[1], f>>]
      BY <2>1, <3>2
    <3>4. QED
      BY <1>a, <3>3, PlacedAt
  <2>2. QED
    BY <2>1 DEF Pointers, Range
<1>4. ASSUME NEW x \in B  PROVE Pointers(g[x]) \subseteq Range(c)
  <2>1. x \in Range(c) => \E p \in Parts(b) : x = c[p]
    BY <1>a, PlacedBack
  <2>2. QED
    BY <1>2, <1>3, <2>1
<1>5. Closed(g, B)
  BY <1>4 DEF Closed
<1>6. Blocks(g, a) \subseteq B
  BY <1>1, <1>5, BlocksLeast
<1>7. a \in Blocks(g, a) /\ Closed(g, Blocks(g, a))
  BY <1>1, BlocksFacts
<1>8. ASSUME NEW i \in DOMAIN b.of, ~IsSimple(b.of[i]), NEW x \in Blocks(heap, b.of[i])
      PROVE  c[<<i, x>>] \in Blocks(g, a)
  <2> DEFINE t == b.of[i]
             S == {y \in Blocks(heap, t) : c[<<i, y>>] \in Blocks(g, a)}
  <2>1. Blocks(heap, t) \subseteq DOMAIN heap /\ Closed(heap, Blocks(heap, t))
    BY BlocksFacts
  <2>2. <<i, t>> \in Parts(b) /\ i \in DOMAIN g[a].of /\ g[a].of[i] = c[<<i, t>>]
    BY <1>8, TopPointers
  <2>3. t \in S
    <3>1. t \in Blocks(heap, t)
      BY <2>2 DEF Parts
    <3>2. c[<<i, t>>] \in Range(c) /\ ~IsSimple(c[<<i, t>>])
      BY <1>a, <2>2, PlacedAt
    <3>3. c[<<i, t>>] \in Pointers(g[a])
      BY <2>2, <3>2 DEF Pointers, Range
    <3>4. c[<<i, t>>] \in DOMAIN g
      BY <1>1, <3>2
    <3>5. QED
      BY <1>7, <3>1, <3>3, <3>4 DEF Closed
  <2>4. ASSUME NEW y \in S, NEW f \in Pointers(heap[y]) \cap DOMAIN heap
        PROVE  f \in S
    <3> DEFINE p == <<i, y>>
               q == <<i, f>>
    <3>1. p \in Parts(b) /\ p[1] = i /\ p[2] = y
      BY <2>1 DEF Parts
    <3>2. f \in Blocks(heap, t)
      BY <2>1, <2>4 DEF Closed
    <3>3. PICK j \in DOMAIN heap[y].of : f = heap[y].of[j] /\ ~IsSimple(f)
      BY DEF Pointers, Range
    <3>4. DOMAIN g[c[p]].of = DOMAIN heap[p[2]].of
      BY <3>1, CopyDomain
    <3>5. q \in Parts(b) /\ g[c[p]].of[j] = c[q]
      <4>1. j \in DOMAIN heap[p[2]].of /\ f = heap[p[2]].of[j]
        BY <3>1, <3>3
      <4>2. <<p[1], f>> \in Parts(b) /\ g[c[p]].of[j] = c[<<p[1], f>>]
        BY <3>1, <3>3, <4>1, CopyPointers
      <4>3. QED
        BY <3>1, <4>2
    <3>6. c[q] \in DOMAIN g /\ ~IsSimple(c[q])
      <4>1. c[q] \in Range(c) /\ ~IsSimple(c[q])
        BY <1>a, <3>5, PlacedAt
      <4>2. QED
        BY <1>1, <4>1
    <3>7. c[q] \in Pointers(g[c[p]])
      BY <3>1, <3>3, <3>4, <3>5, <3>6 DEF Pointers, Range
    <3>8. c[q] \in Blocks(g, a)
      BY <1>7, <3>6, <3>7 DEF Closed
    <3>9. QED
      BY <3>2, <3>8
  <2>5. Closed(heap, S)
    BY <2>4 DEF Closed
  <2>6. S \in SUBSET DOMAIN heap
    BY <2>1
  <2>7. Blocks(heap, t) \subseteq S
    BY <2>3, <2>5, <2>6, BlocksLeast
  <2>8. QED
    BY <2>7
<1>9. ASSUME NEW x \in Range(c)  PROVE x \in Blocks(g, a)
  <2>1. PICK p \in Parts(b) : x = c[p]
    BY <1>a, PlacedBack
  <2>2. /\ p = <<p[1], p[2]>> /\ p[1] \in DOMAIN b.of
        /\ ~IsSimple(b.of[p[1]]) /\ p[2] \in Blocks(heap, b.of[p[1]])
    BY <1>a, PartsFacts
  <2>3. c[<<p[1], p[2]>>] \in Blocks(g, a)
    BY <1>8, <2>2
  <2>4. QED
    BY <2>1, <2>2, <2>3
<1>10. QED
  BY <1>4, <1>6, <1>7, <1>9

(* A pointer of a new block leads to the copy of one part, which tells the *)
(* block and the pointer: the new type is a tree.                          *)
FromTop(b, a, x, i, p) == x = a /\ i \in DOMAIN b.of /\ p = <<i, b.of[i]>>

FromCopy(b, c, x, i, p, q) ==
    /\ x = c[q] /\ i \in DOMAIN heap[q[2]].of /\ p = <<q[1], heap[q[2]].of[i]>>
    /\ ~IsSimple(heap[q[2]].of[i]) /\ heap[q[2]].of[i] # b.of[q[1]]

Leads(b, a, c, x, i, p) ==
    FromTop(b, a, x, i, p) \/ \E q \in Parts(b) : FromCopy(b, c, x, i, p, q)

LEMMA NewLeads ==
    ASSUME NEW b, NEW a, NEW c, NEW g, Builds(b, a, c, g), NEW x \in {a} \cup Range(c),
           NEW i \in DOMAIN g[x].of, ~IsSimple(g[x].of[i])
    PROVE  \E p \in Parts(b) : g[x].of[i] = c[p] /\ Leads(b, a, c, x, i, p)
<1>1. CASE x = a
  <2>1. DOMAIN g[a].of = DOMAIN b.of
    BY TopPointers
  <2>2. i \in DOMAIN b.of /\ ~IsSimple(g[a].of[i])
    BY <1>1, <2>1
  <2>3. <<i, b.of[i]>> \in Parts(b) /\ g[a].of[i] = c[<<i, b.of[i]>>]
    BY <2>2, TopPointers
  <2>4. QED
    BY <1>1, <2>2, <2>3 DEF Leads, FromTop
<1>2. CASE x \in Range(c)
  <2>1. Placed(b, a, c)
    BY DEF Builds
  <2>2. PICK q \in Parts(b) : x = c[q]
    BY <1>2, <2>1, PlacedBack
  <2> DEFINE f == heap[q[2]].of[i]
             p == <<q[1], f>>
  <2>3. DOMAIN g[c[q]].of = DOMAIN heap[q[2]].of
    BY CopyDomain
  <2>4. i \in DOMAIN heap[q[2]].of
    BY <2>2, <2>3
  <2>5. \/ IsSimple(f) /\ g[c[q]].of[i] = f
        \/ ~IsSimple(f) /\ p \in Parts(b) /\ f # b.of[q[1]] /\ g[c[q]].of[i] = c[p]
    BY <2>4, CopyPointers
  <2>6. ~IsSimple(f) /\ p \in Parts(b) /\ f # b.of[q[1]] /\ g[x].of[i] = c[p]
    BY <2>2, <2>5
  <2>7. FromCopy(b, c, x, i, p, q)
    BY <2>2, <2>4, <2>6 DEF FromCopy
  <2>8. QED
    BY <2>6, <2>7 DEF Leads
<1>3. QED
  BY <1>1, <1>2

LEMMA LeadsOnce ==
    ASSUME NEW b, NEW a, NEW c, NEW g, Builds(b, a, c, g),
           NEW x, NEW i, NEW y, NEW j, NEW p,
           Leads(b, a, c, x, i, p), Leads(b, a, c, y, j, p)
    PROVE  x = y /\ i = j
<1>1. ASSUME FromTop(b, a, x, i, p), FromTop(b, a, y, j, p)
      PROVE  x = y /\ i = j
  BY <1>1 DEF FromTop
<1>2. ASSUME FromTop(b, a, x, i, p), NEW q \in Parts(b), FromCopy(b, c, y, j, p, q)
      PROVE  FALSE
  BY <1>2 DEF FromTop, FromCopy
<1>3. ASSUME FromTop(b, a, y, j, p), NEW q \in Parts(b), FromCopy(b, c, x, i, p, q)
      PROVE  FALSE
  BY <1>3 DEF FromTop, FromCopy
<1>4. ASSUME NEW q \in Parts(b), FromCopy(b, c, x, i, p, q),
             NEW r \in Parts(b), FromCopy(b, c, y, j, p, r)
      PROVE  x = y /\ i = j
  <2>1. q[1] = r[1] /\ heap[q[2]].of[i] = heap[r[2]].of[j]
    BY <1>4 DEF FromCopy
  <2>2. q = <<q[1], q[2]>> /\ q[2] \in Blocks(heap, b.of[q[1]]) /\ Whole(heap, b.of[q[1]])
    BY PartsFacts DEF Builds
  <2>3. r = <<r[1], r[2]>> /\ r[2] \in Blocks(heap, b.of[r[1]])
    BY PartsFacts DEF Builds
  <2>4. Once(heap, Blocks(heap, b.of[q[1]])) /\ r[2] \in Blocks(heap, b.of[q[1]])
    BY <2>1, <2>2, <2>3 DEF Whole
  <2>5. /\ i \in DOMAIN heap[q[2]].of /\ j \in DOMAIN heap[r[2]].of
        /\ ~IsSimple(heap[q[2]].of[i])
    BY <1>4 DEF FromCopy
  <2>6. q[2] = r[2] /\ i = j
    BY <2>1, <2>2, <2>4, <2>5 DEF Once
  <2>7. q = r
    BY <2>1, <2>2, <2>3, <2>6
  <2>8. QED
    BY <1>4, <2>6, <2>7 DEF FromCopy
<1>5. QED
  BY <1>1, <1>2, <1>3, <1>4 DEF Leads

LEMMA NewWhole ==
    ASSUME NEW b, NEW a, NEW c, NEW g, Builds(b, a, c, g)
    PROVE  Whole(g, a)
<1>1. TypeOK /\ Copyable(b) /\ Placed(b, a, c) /\ g = Extended(b, a, c)
  BY DEF Builds
<1>2. DOMAIN Extended(b, a, c) = DOMAIN heap \cup {a} \cup Range(c)
  BY <1>1, PlacedDomain
<1>3. DOMAIN g = DOMAIN heap \cup {a} \cup Range(c)
  BY <1>1, <1>2
<1>4. a \notin Range(c)
  <2>1. ASSUME NEW x \in Range(c)  PROVE x # a
    <3>1. PICK p \in Parts(b) : x = c[p]
      BY <1>1, PlacedBack
    <3>2. QED
      BY <1>1, <3>1, PlacedAt
  <2>2. QED
    BY <2>1
<1>5. Blocks(g, a) = {a} \cup Range(c)
  BY NewBlocks
<1>6. \A x \in Blocks(g, a) : Pointers(g[x]) \subseteq Range(c)
  BY NewBlocks
<1>7. \A x \in Blocks(g, a) : Pointers(g[x]) \subseteq DOMAIN g \ {a}
  BY <1>3, <1>4, <1>6
<1>8. ASSUME NEW x \in Blocks(g, a), NEW y \in Blocks(g, a),
             NEW i \in DOMAIN g[x].of, NEW j \in DOMAIN g[y].of,
             g[x].of[i] = g[y].of[j], ~IsSimple(g[x].of[i])
      PROVE  x = y /\ i = j
  <2>1. PICK p \in Parts(b) : g[x].of[i] = c[p] /\ Leads(b, a, c, x, i, p)
    BY <1>5, <1>8, NewLeads
  <2>2. ~IsSimple(g[y].of[j])
    BY <1>8
  <2>3. PICK q \in Parts(b) : g[y].of[j] = c[q] /\ Leads(b, a, c, y, j, q)
    BY <1>5, <2>2, NewLeads
  <2>4. p = q
    BY <1>1, <1>8, <2>1, <2>3, PlacedOnce
  <2>5. Leads(b, a, c, y, j, p)
    BY <2>3, <2>4
  <2>6. QED
    BY <2>1, <2>5, LeadsOnce
<1>9. Once(g, Blocks(g, a))
  BY <1>8 DEF Once
<1>10. QED
  BY <1>3, <1>7, <1>9 DEF Whole

(* The new blocks are blocks; only copies of structs may be too small.     *)
LEMMA Relinked ==
    ASSUME NEW b \in Block, NEW r, r = [j \in DOMAIN b.of |-> r[j]],
           \A j \in DOMAIN b.of : r[j] \in Nat
    PROVE  r \in Seq(Nat) /\ Len(r) = Len(b.of)
<1>1. b.of \in Seq(Nat)
  BY DEF Block
<1>2. DOMAIN b.of = 1 .. Len(b.of) /\ Len(b.of) \in Nat
  BY <1>1
<1>3. QED
  BY <1>2

LEMMA TopBlock ==
    ASSUME NEW b, NEW a, NEW c, NEW g, Builds(b, a, c, g)
    PROVE  g[a] \in Block /\ (Overrun(g[a]) => Overrun(b)) /\ g[a].copy = b.copy
<1>1. b \in Block /\ Placed(b, a, c) /\ g[a] = Top(b, c)
  BY TopIn DEF Builds, Copyable
<1> DEFINE r == [j \in DOMAIN b.of |-> To(c, j, b.of[j])]
<1>2. g[a] = [b EXCEPT !.of = r]
  BY <1>1 DEF Top
<1>3. ASSUME NEW j \in DOMAIN b.of  PROVE r[j] \in Nat
  <2>1. b.of[j] \in Nat
    BY <1>1 DEF Block
  <2>2. CASE IsSimple(b.of[j])
    BY <2>1, <2>2 DEF To
  <2>3. CASE ~IsSimple(b.of[j])
    <3>1. <<j, b.of[j]>> \in Parts(b)
      BY <2>3, TopPointers
    <3>2. c[<<j, b.of[j]>>] \in Addrs
      BY <1>1, <3>1, PlacedAt
    <3>3. QED
      BY <2>3, <3>2, Addresses DEF To
  <2>4. QED
    BY <2>2, <2>3
<1>4. r \in Seq(Nat) /\ Len(r) = Len(b.of)
  <2>1. r = [j \in DOMAIN b.of |-> r[j]]
    OBVIOUS
  <2>2. HIDE DEF r
  <2>3. QED
    BY <1>1, <1>3, <2>1, Relinked
<1> HIDE DEF r
<1>5. /\ g[a] \in Block /\ g[a].t = b.t /\ g[a].room = b.room /\ g[a].copy = b.copy
      /\ g[a].of = r
  BY <1>1, <1>2, <1>4 DEF Block
<1>6. QED
  BY <1>4, <1>5 DEF Overrun

LEMMA CopyBlock ==
    ASSUME NEW b, NEW a, NEW c, NEW g, Builds(b, a, c, g), NEW p \in Parts(b)
    PROVE  g[c[p]] \in Block /\ (Overrun(g[c[p]]) => g[c[p]].copy)
<1> DEFINE h == heap[p[2]]
           r == [j \in DOMAIN h.of |-> To(c, p[1], h.of[j])]
<1>1. Placed(b, a, c) /\ p[2] \in DOMAIN heap
  BY PartsFacts DEF Builds
<1>2. h \in Block
  BY <1>1 DEF Builds, TypeOK
<1>3. g[c[p]] = Inner(h, c, p[1])
  BY CopyIn DEF Builds
<1>4. g[c[p]] = [Dupped(h) EXCEPT !.of = r]
  BY <1>3 DEF Inner
<1>5. ASSUME NEW j \in DOMAIN h.of  PROVE r[j] \in Nat
  <2> DEFINE f == h.of[j]
  <2>1. f \in Nat
    BY <1>2 DEF Block
  <2>2. CASE IsSimple(f)
    BY <2>1, <2>2 DEF To
  <2>3. CASE ~IsSimple(f)
    <3>1. <<p[1], f>> \in Parts(b)
      BY <2>3, CopyPointers
    <3>2. c[<<p[1], f>>] \in Addrs
      BY <1>1, <3>1, PlacedAt
    <3>3. QED
      BY <2>3, <3>2, Addresses DEF To
  <2>4. QED
    BY <2>2, <2>3
<1>6. r \in Seq(Nat)
  <2>1. r = [j \in DOMAIN h.of |-> r[j]]
    OBVIOUS
  <2>2. HIDE DEF r
  <2>3. QED
    BY <1>2, <1>5, <2>1, Relinked
<1> HIDE DEF r
<1>7. CASE h.t = TAG_ARRAY
  <2>1. g[c[p]] = [h EXCEPT !.of = r]
    BY <1>4, <1>7 DEF Dupped
  <2>2. g[c[p]] \in Block /\ g[c[p]].t = TAG_ARRAY
    BY <1>2, <1>6, <1>7, <2>1 DEF Block
  <2>3. QED
    BY <2>2 DEF Overrun, TAG_ARRAY, TAG_STRUCT
<1>8. CASE h.t # TAG_ARRAY
  <2> DEFINE room == HEAD + Len(h.of) * WORD
  <2>1. room \in Nat
    <3>1. Len(h.of) \in Nat
      BY <1>2 DEF Block
    <3>2. QED
      BY <3>1 DEF HEAD, WORD
  <2> HIDE DEF room
  <2>2. g[c[p]] = [StructBlock(room, h.of, TRUE) EXCEPT !.of = r]
    BY <1>4, <1>8 DEF Dupped, room
  <2>3. g[c[p]] = [t |-> TAG_STRUCT, len |-> 1, of |-> r, room |-> room, copy |-> TRUE]
    BY <2>2 DEF StructBlock
  <2>4. QED
    BY <1>6, <2>1, <2>3 DEF Block
<1>9. QED
  BY <1>7, <1>8

-----------------------------------------------------------------------------
(* The invariant, and the two kinds of step that keep it.                  *)
IInv == TypeOK /\ Apart /\ FreeSafe /\ OnlyStructsLeak /\ OnlyCopiesOverrun

(* What a step leaves in place stays whole and apart.                      *)
LEMMA StepApart ==
    ASSUME Apart, NEW kept \in SUBSET types, NEW g,
           \A t \in kept : \A x \in Blocks(heap, t) : x \in DOMAIN g /\ g[x] = heap[x]
    PROVE  /\ \A t \in kept : Whole(g, t) /\ Blocks(g, t) = Blocks(heap, t)
           /\ \A t, u \in kept : t # u => Blocks(g, t) \cap Blocks(g, u) = {}
<1>1. ASSUME NEW t \in kept
      PROVE  Whole(g, t) /\ Blocks(g, t) = Blocks(heap, t)
  <2>1. Whole(heap, t)
    BY DEF Apart
  <2>2. Blocks(heap, t) \subseteq DOMAIN g /\ \A x \in Blocks(heap, t) : g[x] = heap[x]
    OBVIOUS
  <2>3. QED
    BY <2>1, <2>2, Kept
<1>2. QED
  BY <1>1 DEF Apart

LEMMA BuildKeeps ==
    ASSUME IInv, NEW b, Copyable(b), Overrun(b) => b.copy, Build(b)
    PROVE  IInv' /\ Untouched
<1>1. PICK a \in Addrs \ DOMAIN heap :
          /\ types' = types \cup {a}
          /\ \E c \in Injection(Parts(b), Addrs \ (DOMAIN heap \cup {a})) :
                heap' = Extended(b, a, c)
  BY DEF Build
<1>a. PICK c \in Injection(Parts(b), Addrs \ (DOMAIN heap \cup {a})) :
          heap' = Extended(b, a, c)
  BY <1>1
<1> DEFINE g == heap'
<1>2. Placed(b, a, c)
  BY <1>1, <1>a DEF Placed
<1>3. Builds(b, a, c, g)
  BY <1>a, <1>2 DEF Builds, IInv
<1>4. DOMAIN Extended(b, a, c) = DOMAIN heap \cup {a} \cup Range(c)
  BY <1>2, PlacedDomain
<1>5. DOMAIN g = DOMAIN heap \cup {a} \cup Range(c)
  BY <1>a, <1>4
<1>6. \A x \in DOMAIN heap : g[x] = heap[x]
  BY <1>a, OldIn
<1>7. \A x \in Range(c) : \E p \in Parts(b) : x = c[p]
  BY <1>2, PlacedBack
<1>8. Range(c) \subseteq Addrs /\ Range(c) \cap DOMAIN heap = {} /\ a \in Addrs
  <2>1. \A p \in Parts(b) : c[p] \in Addrs /\ c[p] \notin DOMAIN heap
    BY <1>2, PlacedAt
  <2>2. QED
    BY <1>7, <2>1
<1>9. ASSUME NEW x \in DOMAIN g
      PROVE  g[x] \in Block /\ (Overrun(g[x]) => g[x].copy)
  <2>1. CASE x \in DOMAIN heap
    <3>1. heap[x] \in Block /\ (Overrun(heap[x]) => heap[x].copy)
      BY <2>1 DEF IInv, TypeOK, OnlyCopiesOverrun
    <3>2. QED
      BY <1>6, <2>1, <3>1
  <2>2. CASE x = a
    <3>1. g[a] \in Block /\ (Overrun(g[a]) => Overrun(b)) /\ g[a].copy = b.copy
      BY <1>3, TopBlock
    <3>2. QED
      BY <2>2, <3>1
  <2>3. CASE x \in Range(c)
    <3>1. PICK p \in Parts(b) : x = c[p]
      BY <1>7, <2>3
    <3>2. g[c[p]] \in Block /\ (Overrun(g[c[p]]) => g[c[p]].copy)
      BY <1>3, CopyBlock
    <3>3. QED
      BY <3>1, <3>2
  <2>4. QED
    BY <1>5, <2>1, <2>2, <2>3
<1>10. \A t \in types : \A x \in Blocks(heap, t) : x \in DOMAIN g /\ g[x] = heap[x]
  <2>1. \A t \in types : Blocks(heap, t) \subseteq DOMAIN heap
    BY BlocksFacts
  <2>2. QED
    BY <1>5, <1>6, <2>1
<1>11. /\ \A t \in types : Whole(g, t) /\ Blocks(g, t) = Blocks(heap, t)
       /\ \A t, u \in types : t # u => Blocks(g, t) \cap Blocks(g, u) = {}
  BY <1>10, StepApart DEF IInv
<1>12. Whole(g, a) /\ Blocks(g, a) = {a} \cup Range(c)
  BY <1>3, NewWhole, NewBlocks
<1>13. \A t \in types : Blocks(g, t) \cap Blocks(g, a) = {}
  <2>1. \A t \in types : Blocks(heap, t) \subseteq DOMAIN heap
    BY BlocksFacts
  <2>2. a \notin DOMAIN heap
    BY <1>1
  <2>3. QED
    BY <1>8, <1>11, <1>12, <2>1, <2>2
<1>14. TypeOK'
  <2>1. DOMAIN heap \subseteq Addrs /\ types \subseteq DOMAIN heap /\ bad \in BOOLEAN
    BY DEF IInv, TypeOK
  <2>2. bad' = bad
    BY DEF Build
  <2>3. DOMAIN g \subseteq Addrs /\ types' \subseteq DOMAIN g
    BY <1>1, <1>5, <1>8, <2>1
  <2>4. g = [x \in DOMAIN g |-> g[x]]
    BY <1>a DEF Extended
  <2>5. g \in [DOMAIN g -> Block]
    BY <1>9, <2>4
  <2>6. QED
    BY <2>1, <2>2, <2>3, <2>5 DEF TypeOK
<1>15. Apart'
  <2>1. \A t \in types' : Whole(g, t)
    BY <1>1, <1>11, <1>12
  <2>2. \A t, u \in types' : t # u => Blocks(g, t) \cap Blocks(g, u) = {}
    BY <1>1, <1>11, <1>13
  <2>3. QED
    BY <2>1, <2>2 DEF Apart
<1>16. FreeSafe'
  BY DEF IInv, FreeSafe, Build
<1>17. OnlyStructsLeak'
  <2>1. ASSUME NEW x \in DOMAIN g, \A t \in types' : x \notin Blocks(g, t)
        PROVE  g[x].t = TAG_STRUCT
    <3>1. x \in DOMAIN heap
      BY <1>1, <1>5, <1>12, <2>1
    <3>2. \A t \in types : x \notin Blocks(heap, t)
      BY <1>1, <1>11, <2>1
    <3>3. heap[x].t = TAG_STRUCT
      BY <3>1, <3>2 DEF IInv, OnlyStructsLeak
    <3>4. QED
      BY <1>6, <3>1, <3>3
  <2>2. QED
    BY <2>1 DEF OnlyStructsLeak
<1>18. OnlyCopiesOverrun'
  BY <1>9 DEF OnlyCopiesOverrun
<1>19. Untouched
  BY <1>10 DEF Untouched
<1>20. QED
  BY <1>14, <1>15, <1>16, <1>17, <1>18, <1>19 DEF IInv

LEMMA FreeKeeps ==
    ASSUME IInv, NEW t \in types, Free(t)
    PROVE  IInv' /\ Untouched
<1> DEFINE g == heap'
<1>1. g = [x \in DOMAIN heap \ Freed(t) |-> heap[x]] /\ types' = types \ {t}
  BY DEF Free, Restrict
<1>2. DOMAIN g = DOMAIN heap \ Freed(t) /\ \A x \in DOMAIN g : g[x] = heap[x]
  BY <1>1
<1>3. Freed(t) \subseteq Blocks(heap, t)
  BY DEF Freed
<1>4. ASSUME NEW u \in types'
      PROVE  \A x \in Blocks(heap, u) : x \in DOMAIN g /\ g[x] = heap[x]
  <2>1. Blocks(heap, u) \subseteq DOMAIN heap
    BY BlocksFacts
  <2>2. Blocks(heap, u) \cap Blocks(heap, t) = {}
    BY <1>1 DEF IInv, Apart
  <2>3. QED
    BY <1>2, <1>3, <2>1, <2>2
<1>5. types' \in SUBSET types
  BY <1>1
<1>6. /\ \A u \in types' : Whole(g, u) /\ Blocks(g, u) = Blocks(heap, u)
      /\ \A u, v \in types' : u # v => Blocks(g, u) \cap Blocks(g, v) = {}
  BY <1>4, <1>5, StepApart DEF IInv
<1>7. TypeOK'
  <2>1. /\ DOMAIN heap \subseteq Addrs /\ types \subseteq DOMAIN heap /\ bad \in BOOLEAN
        /\ \A x \in DOMAIN heap : heap[x] \in Block
    BY DEF IInv, TypeOK
  <2>2. types' \subseteq DOMAIN g
    <3>1. ASSUME NEW u \in types'  PROVE u \in Blocks(heap, u)
      <4>1. u \in DOMAIN heap
        BY <1>5, <2>1
      <4>2. QED
        BY <4>1, BlocksFacts
    <3>2. QED
      BY <1>4, <3>1
  <2>3. g \in [DOMAIN g -> Block]
    BY <1>1, <2>1
  <2>4. bad' \in BOOLEAN
    BY DEF Free
  <2>5. DOMAIN g \subseteq Addrs
    BY <1>2, <2>1
  <2>6. QED
    BY <2>2, <2>3, <2>4, <2>5 DEF TypeOK
<1>8. Apart'
  BY <1>6 DEF Apart
<1>9. FreeSafe'
  <2>1. Whole(heap, t) /\ ~bad
    BY DEF IInv, Apart, FreeSafe
  <2>2. bad' = (bad \/ ~Whole(heap, t))
    BY DEF Free
  <2>3. QED
    BY <2>1, <2>2 DEF FreeSafe
<1>10. OnlyStructsLeak'
  <2>1. ASSUME NEW x \in DOMAIN g, \A u \in types' : x \notin Blocks(g, u)
        PROVE  g[x].t = TAG_STRUCT
    <3>1. \A u \in types' : x \notin Blocks(heap, u)
      BY <1>6, <2>1
    <3>2. x \in DOMAIN heap /\ x \notin Freed(t)
      BY <1>2
    <3>3. CASE x \in Blocks(heap, t)
      <4>1. heap[x].t # TAG_ARRAY
        BY <3>2, <3>3 DEF Freed
      <4>2. heap[x] \in Block
        BY <3>2 DEF IInv, TypeOK
      <4>3. heap[x].t = TAG_STRUCT
        BY <4>1, <4>2 DEF Block
      <4>4. QED
        BY <1>2, <4>3
    <3>4. CASE x \notin Blocks(heap, t)
      <4>1. \A u \in types : x \notin Blocks(heap, u)
        BY <1>1, <3>1, <3>4
      <4>2. heap[x].t = TAG_STRUCT
        BY <3>2, <4>1 DEF IInv, OnlyStructsLeak
      <4>3. QED
        BY <1>2, <4>2
    <3>5. QED
      BY <3>3, <3>4
  <2>2. QED
    BY <2>1 DEF OnlyStructsLeak
<1>11. OnlyCopiesOverrun'
  BY <1>2 DEF IInv, OnlyCopiesOverrun
<1>12. Untouched
  BY <1>4 DEF Untouched
<1>13. QED
  BY <1>7, <1>8, <1>9, <1>10, <1>11, <1>12 DEF IInv

-----------------------------------------------------------------------------
(* What clients build out of: simple types and whole types.                *)
LEMMA TypesAre ==
    ASSUME IInv, NEW m \in Types
    PROVE  m \in Nat /\ (~IsSimple(m) => Whole(heap, m))
<1>1. CASE m \in types
  <2>1. m \in Addrs
    BY <1>1 DEF IInv, TypeOK
  <2>2. Whole(heap, m)
    BY <1>1 DEF IInv, Apart
  <2>3. QED
    BY <2>1, <2>2, Addresses
<1>2. CASE m \notin types
  <2>1. PICK e \in Kinds : m = type_new_simple(e)
    BY <1>2 DEF Types
  <2>2. m \in Nat /\ IsSimple(m)
    BY <2>1 DEF type_new_simple, IsSimple, TAG_BOOL, TAG_LINT, TAG_ERROR
  <2>3. QED
    BY <2>2
<1>3. QED
  BY <1>1, <1>2

(* A struct has room for its pairs when type_new_struct asks for it.       *)
LEMMA RoomForPairs ==
    ASSUME NEW n \in Nat
    PROVE  ~(HEAD + n * PAIR > Usable(HEAD + n * PAIR))
<1> DEFINE room == HEAD + n * PAIR
<1>1. room = 8 + n * 16
  BY DEF HEAD, PAIR
<1>2. CASE n \in {0, 1}
  <2>1. room <= 24 /\ room \in Nat
    BY <1>1, <1>2
  <2>2. Usable(room) = 24
    BY <2>1 DEF Usable
  <2>3. QED
    BY <2>1, <2>2
<1>3. CASE n \notin {0, 1}
  <2>1. room - 24 + 15 = 16 * (n - 1) + 15 /\ ~(room <= 24)
    BY <1>1, <1>3
  <2>2. (16 * (n - 1) + 15) \div 16 = n - 1
    BY <1>3
  <2>3. Usable(room) = 24 + 16 * (n - 1)
    BY <2>1, <2>2 DEF Usable
  <2>4. QED
    BY <1>1, <2>3
<1>4. QED
  BY <1>2, <1>3

LEMMA NewArrayKeeps ==
    ASSUME IInv, NEW m \in Types, NEW n \in Lengths, NewArray(n, m)
    PROVE  IInv' /\ Untouched
<1> DEFINE b == ArrayBlock(n, m)
<1>1. m \in Nat /\ (~IsSimple(m) => Whole(heap, m))
  BY TypesAre
<1>2. b = [t |-> TAG_ARRAY, len |-> n, of |-> <<m>>, room |-> ARRAY, copy |-> FALSE]
  BY DEF ArrayBlock
<1>3. b \in Block
  <2>1. <<m>> \in Seq(Nat) /\ ARRAY \in Nat
    BY <1>1 DEF ARRAY
  <2>2. QED
    BY <1>2, <2>1 DEF Block
<1>4. \A f \in Pointers(b) : f = m /\ ~IsSimple(f)
  <2>1. b.of = <<m>>
    BY <1>2
  <2>2. QED
    BY <2>1 DEF Pointers, Range
<1>5. Copyable(b)
  BY <1>1, <1>3, <1>4 DEF Copyable
<1>6. ~Overrun(b)
  BY <1>2 DEF Overrun, TAG_ARRAY, TAG_STRUCT
<1>7. Build(b)
  BY DEF NewArray
<1>8. QED
  BY <1>5, <1>6, <1>7, BuildKeeps

LEMMA StructBlocks ==
    ASSUME NEW room \in Nat, NEW fs \in Seq(Nat), NEW copy \in BOOLEAN
    PROVE  /\ StructBlock(room, fs, copy) \in Block
           /\ StructBlock(room, fs, copy).t = TAG_STRUCT
           /\ StructBlock(room, fs, copy).of = fs
           /\ StructBlock(room, fs, copy).room = room
           /\ StructBlock(room, fs, copy).copy = copy
BY DEF StructBlock, Block

(* A struct as type_dup makes it, in however much room.                    *)
LEMMA CopiedStruct ==
    ASSUME NEW room \in Nat, NEW fs \in Seq(Nat)
    PROVE  /\ StructBlock(room, fs, TRUE) \in Block
           /\ StructBlock(room, fs, TRUE).of = fs
           /\ StructBlock(room, fs, TRUE).copy = TRUE
<1>1. TRUE \in BOOLEAN
  OBVIOUS
<1>2. StructBlock(room, fs, TRUE) \in Block
  BY <1>1, StructBlocks
<1>3. StructBlock(room, fs, TRUE).of = fs
  BY DEF StructBlock
<1>4. StructBlock(room, fs, TRUE).copy = TRUE
  BY DEF StructBlock
<1>5. QED
  BY <1>2, <1>3, <1>4

LEMMA NewStructKeeps ==
    ASSUME IInv, NEW k \in 0 .. MaxFields, NEW ms \in [1 .. k -> Types], NewStruct(ms)
    PROVE  IInv' /\ Untouched
<1> DEFINE room == HEAD + k * PAIR
           b == StructBlock(room, ms, FALSE)
<1>1. \A j \in 1 .. k : ms[j] \in Nat /\ (~IsSimple(ms[j]) => Whole(heap, ms[j]))
  BY TypesAre
<1>2. k \in Nat
  BY ConstantsAssumption
<1>3. ms \in Seq(Nat) /\ Len(ms) = k /\ DOMAIN ms = 1 .. k
  BY <1>1, <1>2
<1>4. room \in Nat
  BY <1>2 DEF HEAD, PAIR
<1>5. b \in Block /\ b.of = ms /\ b.room = room
  BY <1>3, <1>4, StructBlocks
<1>6. Build(b)
  BY <1>3 DEF NewStruct
<1> HIDE DEF b
<1>7. ASSUME NEW f \in Pointers(b)  PROVE Whole(heap, f)
  <2>1. PICK j \in 1 .. k : f = ms[j] /\ ~IsSimple(f)
    BY <1>3, <1>5 DEF Pointers, Range
  <2>2. QED
    BY <1>1, <2>1
<1>8. Copyable(b)
  BY <1>5, <1>7 DEF Copyable
<1>9. ~Overrun(b)
  <2>1. ~(HEAD + k * PAIR > Usable(HEAD + k * PAIR))
    BY <1>2, RoomForPairs
  <2>2. QED
    BY <1>3, <1>5, <2>1 DEF Overrun
<1>10. QED
  BY <1>6, <1>8, <1>9, BuildKeeps

LEMMA DupKeeps ==
    ASSUME IInv, NEW t \in types, Dup(t)
    PROVE  IInv' /\ Untouched
<1> DEFINE h == heap[t]
           b == Dupped(h)
<1>1. t \in DOMAIN heap /\ h \in Block /\ Whole(heap, t)
  BY DEF IInv, TypeOK, Apart
<1>2. b \in Block /\ b.of = h.of /\ (Overrun(b) => b.copy)
  <2>1. CASE h.t = TAG_ARRAY
    <3>1. b = h
      BY <2>1 DEF Dupped
    <3>2. ~Overrun(b)
      BY <2>1, <3>1 DEF Overrun, TAG_ARRAY, TAG_STRUCT
    <3>3. QED
      BY <1>1, <3>1, <3>2
  <2>2. CASE h.t # TAG_ARRAY
    <3> DEFINE room == HEAD + Len(h.of) * WORD
    <3>1. h.of \in Seq(Nat) /\ Len(h.of) \in Nat
      BY <1>1 DEF Block
    <3>2. room \in Nat
      BY <3>1 DEF HEAD, WORD
    <3>3. b = StructBlock(room, h.of, TRUE)
      BY <2>2 DEF Dupped
    <3> DEFINE s == StructBlock(room, h.of, TRUE)
    <3>4. s \in Block /\ s.of = h.of /\ s.copy = TRUE
      <4> HIDE DEF room
      <4>1. QED
        BY <3>1, <3>2, CopiedStruct
    <3>5. QED
      BY <3>3, <3>4
  <2>3. QED
    BY <2>1, <2>2
<1>3. ASSUME NEW f \in Pointers(b)  PROVE Whole(heap, f)
  <2>1. f \in Pointers(h)
    BY <1>2 DEF Pointers
  <2>2. QED
    BY <1>1, <2>1, Nested
<1>4. Copyable(b)
  BY <1>2, <1>3 DEF Copyable
<1>5. Build(b)
  BY DEF Dup
<1>6. QED
  BY <1>2, <1>4, <1>5, BuildKeeps

LEMMA InitIInv ==
    ASSUME Init
    PROVE  IInv
<1>1. heap = <<>> /\ DOMAIN heap = {} /\ types = {} /\ bad = FALSE
  BY DEF Init
<1>2. TypeOK
  <2>1. <<>> \in [{} -> Block]
    OBVIOUS
  <2>2. heap \in [DOMAIN heap -> Block]
    BY <1>1, <2>1
  <2>3. QED
    BY <1>1, <2>2 DEF TypeOK
<1>3. QED
  BY <1>1, <1>2 DEF IInv, Apart, FreeSafe, OnlyStructsLeak, OnlyCopiesOverrun

LEMMA StutterKeeps ==
    ASSUME IInv, UNCHANGED vars
    PROVE  IInv' /\ Untouched
<1>1. heap' = heap /\ types' = types /\ bad' = bad
  BY DEF vars
<1>2. TypeOK' /\ Apart' /\ FreeSafe'
  BY <1>1 DEF IInv, TypeOK, Apart, FreeSafe
<1>3. OnlyStructsLeak' /\ OnlyCopiesOverrun'
  BY <1>1 DEF IInv, OnlyStructsLeak, OnlyCopiesOverrun
<1>4. Untouched
  <2>1. \A t \in types : Blocks(heap, t) \subseteq DOMAIN heap
    BY BlocksFacts
  <2>2. QED
    BY <1>1, <2>1 DEF Untouched
<1>5. QED
  BY <1>2, <1>3, <1>4 DEF IInv

LEMMA StepKeeps ==
    ASSUME IInv, [Next]_vars
    PROVE  IInv' /\ Untouched
<1>1. ASSUME NEW m \in Types, NEW n \in Lengths, NewArray(n, m)
      PROVE  IInv' /\ Untouched
  BY <1>1, NewArrayKeeps
<1>2. ASSUME NEW k \in 0 .. MaxFields, NEW ms \in [1 .. k -> Types], NewStruct(ms)
      PROVE  IInv' /\ Untouched
  BY <1>2, NewStructKeeps
<1>3. ASSUME NEW t \in types, Dup(t)
      PROVE  IInv' /\ Untouched
  BY <1>3, DupKeeps
<1>4. ASSUME NEW t \in types, Free(t)
      PROVE  IInv' /\ Untouched
  BY <1>4, FreeKeeps
<1>5. ASSUME UNCHANGED vars
      PROVE  IInv' /\ Untouched
  BY <1>5, StutterKeeps
<1>6. QED
  BY <1>1, <1>2, <1>3, <1>4, <1>5 DEF Next

-----------------------------------------------------------------------------
(* The invariant is inductive: it holds at the start of every behaviour of *)
(* types.c's callers and every constructor, copy and free keeps it.        *)
THEOREM OwnershipInductive == Spec => []IInv
<1>1. Init => IInv
  BY InitIInv
<1>2. IInv /\ [Next]_vars => IInv'
  BY StepKeeps
<1>3. QED
  BY <1>1, <1>2, PTL DEF Spec

(* The types a client has are allocated blocks.                            *)
THEOREM TypeCorrect == Spec => []TypeOK
<1>1. IInv => TypeOK
  BY DEF IInv
<1>2. QED
  BY <1>1, OwnershipInductive, PTL

(* Every type the client has is a tree of blocks, and no two share one:    *)
(* type_new_array, type_new_struct and type_dup copy all they are given.   *)
THEOREM TypesApart == Spec => []Apart
<1>1. IInv => Apart
  BY DEF IInv
<1>2. QED
  BY <1>1, OwnershipInductive, PTL

(* type_free never frees a block twice, nor looks into a freed one.        *)
THEOREM FreesOnce == Spec => []FreeSafe
<1>1. IInv => FreeSafe
  BY DEF IInv
<1>2. QED
  BY <1>1, OwnershipInductive, PTL

(* Nothing but structs' blocks ever leaks: type_free gives back all else.  *)
THEOREM LeaksAreStructs == Spec => []OnlyStructsLeak
<1>1. IInv => OnlyStructsLeak
  BY DEF IInv
<1>2. QED
  BY <1>1, OwnershipInductive, PTL

(* Only the structs that type_dup makes are too small for their fields.    *)
THEOREM OverrunsAreCopies == Spec => []OnlyCopiesOverrun
<1>1. IInv => OnlyCopiesOverrun
  BY DEF IInv
<1>2. QED
  BY <1>1, OwnershipInductive, PTL

(* No call changes or frees a block of a type that the client keeps.       *)
THEOREM TypesUntouched == Spec => LeftAlone
<1>1. IInv /\ [Next]_vars => [Untouched]_vars
  BY StepKeeps
<1>2. QED
  BY <1>1, OwnershipInductive, PTL DEF Spec, LeftAlone

=============================================================================
