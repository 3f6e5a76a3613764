---------------------------- MODULE RankTreeProofs ----------------------------
(***************************************************************************)
(* RankTree's theorems, for any keys and any number of calls.  What the    *)
(* code does with pointers is read here through d, the set of nodes that   *)
(* hang from each node, and r, the rank of each: the model has neither, so *)
(* the invariant says that there are such d and r.  Its parts are Links    *)
(* (the shape), Balanced (the edges), LeafRule (the bits of the leaves)    *)
(* and Progress (what the call under way has still to settle).  A lemma    *)
(* for each macro says what fields it writes; one for each kind of step,   *)
(* what it does to the shape and to the edges; one for each action, that   *)
(* it keeps the invariant and which keys are in the tree.                  *)
(***************************************************************************)
EXTENDS RankTree, NumberLemmas, FiniteSetTheorems, TLAPS

-----------------------------------------------------------------------------
(* The tree T and the sets d of nodes that hang from each node, itself     *)
(* included.  A node that is not in the tree has no children.              *)
Pointers == Keys \cup {NULL}

Typed(T) ==
    T \in [root : Pointers, kid : [Keys -> [Sides -> Pointers]], up : [Keys -> Pointers],
           red : [Keys -> SUBSET Sides]]

Grown(T, d) ==
    /\ d \in [Pointers -> SUBSET Keys]
    /\ d[NULL] = {}
    /\ \A n \in Keys : IsFiniteSet(d[n])
    /\ \A n \in Keys : d[n] = {n} \cup d[T.kid[n]["left"]] \cup d[T.kid[n]["right"]]

(* Every node is on the side of the nodes above that its key tells.        *)
Ordered(T, d) ==
    \A n \in Keys, s \in Sides : \A m \in d[T.kid[n][s]] : m # n /\ Toward(m, n) = s

(* The pointers up and down agree.                                         *)
Paired(T, d) ==
    /\ \A n \in Keys, s \in Sides : T.kid[n][s] # NULL => T.up[T.kid[n][s]] = n
    /\ \A n \in Keys : T.up[n] # NULL => \E s \in Sides : T.kid[T.up[n]][s] = n
    /\ \A n \in Keys : T.up[n] = NULL <=> (n = T.root \/ n \notin d[T.root])
    /\ \A n \in Keys, s \in Sides : n \notin d[T.root] => T.kid[n][s] = NULL

Links(T, d) == Typed(T) /\ Grown(T, d) /\ Ordered(T, d) /\ Paired(T, d)

-----------------------------------------------------------------------------
(* Sides.                                                                  *)
LEMMA SideFacts ==
    ASSUME NEW s \in Sides
    PROVE  /\ Other(s) \in Sides /\ Other(s) # s /\ Other(Other(s)) = s
           /\ \A t \in Sides : t = s \/ t = Other(s)
           /\ s = "left" => Other(s) = "right"
           /\ s = "right" => Other(s) = "left"
BY DEF Sides, Other

(* A key on one side of another has that one on its other side, and with   *)
(* it all that lie beyond.                                                 *)
LEMMA TowardFacts ==
    ASSUME NEW x \in Int, NEW y \in Int, x # y
    PROVE  /\ Toward(x, y) \in Sides
           /\ Toward(y, x) = Other(Toward(x, y))
           /\ \A z \in Int : z # y /\ Toward(z, y) = Other(Toward(x, y)) =>
                 x # z /\ Toward(x, z) = Toward(x, y)
BY DEF Toward, Other, Sides

(* What hangs from a node, by sides.                                       *)
LEMMA Hanging ==
    ASSUME NEW T, NEW d, Typed(T), Grown(T, d), NEW n \in Keys
    PROVE  /\ n \in d[n]
           /\ \A s \in Sides : T.kid[n][s] \in Pointers /\ d[T.kid[n][s]] \subseteq d[n]
           /\ \A s \in Sides : d[n] = {n} \cup d[T.kid[n][s]] \cup d[T.kid[n][Other(s)]]
           /\ \A m \in d[n] : m \in Keys /\ (m = n \/ \E s \in Sides : m \in d[T.kid[n][s]])
<1>1. \A s \in Sides : T.kid[n][s] \in Pointers
  BY DEF Typed
<1>2. d[n] = {n} \cup d[T.kid[n]["left"]] \cup d[T.kid[n]["right"]] /\ d[n] \subseteq Keys
  BY DEF Grown, Pointers
<1>3. \A s \in Sides : d[n] = {n} \cup d[T.kid[n][s]] \cup d[T.kid[n][Other(s)]]
  BY <1>2 DEF Sides, Other
<1>4. QED
  BY <1>1, <1>2, <1>3 DEF Sides

(* A child that exists hangs from its parent, and its parent not from it.  *)
LEMMA KidFacts ==
    ASSUME NEW T, NEW d, Typed(T), Grown(T, d), Ordered(T, d), NEW n \in Keys, NEW s \in Sides,
           T.kid[n][s] # NULL
    PROVE  /\ T.kid[n][s] \in Keys /\ T.kid[n][s] \in d[n]
           /\ n \notin d[T.kid[n][s]] /\ T.kid[n][s] # n
           /\ Toward(T.kid[n][s], n) = s
<1>1. T.kid[n][s] \in Keys
  BY DEF Typed, Pointers
<1>2. T.kid[n][s] \in d[T.kid[n][s]]
  BY <1>1, Hanging
<1>3. QED
  BY <1>1, <1>2, Hanging DEF Ordered

(* Of any nodes one is lowest: neither of its children is one of them.     *)
LEMMA Lowest ==
    ASSUME NEW T, NEW d, Typed(T), Grown(T, d), Ordered(T, d), NEW S \in SUBSET Keys, S # {}
    PROVE  \E n \in S : \A s \in Sides : T.kid[n][s] \notin S
<1> DEFINE Sizes == {Cardinality(d[n]) : n \in S}
<1>1. \A n \in Keys : Cardinality(d[n]) \in Nat
  BY FS_CardinalityType, Zenon DEF Grown
<1>2. Sizes \subseteq Nat /\ Sizes # {}
  BY <1>1
<1> HIDE DEF Sizes
<1>3. PICK x \in Sizes : \A y \in Sizes : x <= y
  BY <1>2, LeastOf
<1>4. PICK n \in S : x = Cardinality(d[n])
  BY <1>3 DEF Sizes
<1>5. ASSUME NEW s \in Sides, T.kid[n][s] \in S
      PROVE  FALSE
  <2> DEFINE c == T.kid[n][s]
  <2>1. c # NULL
    BY <1>5, ConstantsAssumption
  <2>2. d[c] \subseteq d[n] /\ n \in d[n] /\ n \notin d[c]
    BY <2>1, Hanging, KidFacts
  <2>3. Cardinality(d[c]) <= Cardinality(d[n]) /\ Cardinality(d[c]) # Cardinality(d[n])
    BY <2>2, FS_Subset DEF Grown
  <2>4. Cardinality(d[n]) <= Cardinality(d[c])
    BY <1>3, <1>4, <1>5, Zenon DEF Sizes
  <2>5. Cardinality(d[n]) \in Nat /\ Cardinality(d[c]) \in Nat
    BY <1>1, <1>5
  <2>6. QED
    BY <2>3, <2>4, <2>5
<1>6. QED
  BY <1>5

(* What hangs from a node that hangs from another hangs from that one; and *)
(* so does its parent, unless it is that one.                              *)
LEMMA Nested ==
    ASSUME NEW T, NEW d, Links(T, d), NEW n \in Keys, NEW m \in d[n]
    PROVE  /\ m \in Keys /\ d[m] \subseteq d[n]
           /\ m # n => T.up[m] \in d[n] /\ T.up[m] \in Keys
<1> DEFINE Bad == {x \in Keys : \E y \in d[x] : ~(/\ d[y] \subseteq d[x]
                                                  /\ y # x => T.up[y] \in d[x])}
<1> USE DEF Links
<1>1. Bad = {}
  <2> SUFFICES ASSUME Bad # {}
               PROVE  FALSE
    OBVIOUS
  <2>1. PICK x \in Bad : \A s \in Sides : T.kid[x][s] \notin Bad
    BY Lowest
  <2>2. PICK y \in d[x] : ~(d[y] \subseteq d[x] /\ (y # x => T.up[y] \in d[x]))
    BY <2>1
  <2>3. PICK s \in Sides : y \in d[T.kid[x][s]]
    BY <2>1, <2>2, Hanging
  <2> DEFINE c == T.kid[x][s]
  <2>4. c # NULL /\ c \in Keys /\ c \notin Bad
    BY <2>1, <2>3, KidFacts DEF Grown
  <2>5. d[c] \subseteq d[x]
    BY <2>1, Hanging
  <2>6. T.up[c] = x /\ x \in d[x]
    BY <2>1, <2>4, Hanging DEF Paired
  <2>7. QED
    BY <2>2, <2>3, <2>4, <2>5, <2>6
<1>2. m \in Keys
  BY Hanging
<1>3. m # n => T.up[m] \in d[n]
  BY <1>1
<1>4. QED
  BY <1>1, <1>2, <1>3, Hanging

(* Nodes on different sides of a node have nothing in common.              *)
LEMMA Apart ==
    ASSUME NEW T, NEW d, Ordered(T, d), NEW n \in Keys, NEW s \in Sides
    PROVE  \A m : ~(m \in d[T.kid[n][s]] /\ m \in d[T.kid[n][Other(s)]])
BY SideFacts DEF Ordered

(* Only the parent has a node as its child, and on one side.               *)
LEMMA OneParent ==
    ASSUME NEW T, NEW d, Links(T, d), NEW n \in Keys, T.up[n] # NULL
    PROVE  /\ T.up[n] \in Keys /\ n \in d[T.up[n]] /\ T.up[n] # n
           /\ SideOf(T, T.up[n], n) \in Sides /\ T.kid[T.up[n]][SideOf(T, T.up[n], n)] = n
           /\ \A m \in Keys, s \in Sides :
                 T.kid[m][s] = n => m = T.up[n] /\ s = SideOf(T, T.up[n], n)
<1> USE DEF Links
<1>1. T.up[n] \in Keys
  BY DEF Typed, Pointers
<1>2. PICK t \in Sides : T.kid[T.up[n]][t] = n
  BY DEF Paired
<1>3. n # NULL
  BY ConstantsAssumption
<1>4. n \in d[T.up[n]] /\ T.up[n] # n
  BY <1>1, <1>2, <1>3, KidFacts
<1>5. \A m \in Keys, s \in Sides : T.kid[m][s] = n => m = T.up[n] /\ Toward(n, m) = s
  BY <1>3, KidFacts DEF Paired
<1>6. SideOf(T, T.up[n], n) = t
  BY <1>1, <1>2, <1>5 DEF SideOf, Sides
<1>7. QED
  BY <1>1, <1>2, <1>4, <1>5, <1>6

(* The recursive function Below of the model is the d of the invariant: it *)
(* has one value only, since of the nodes with two one would be lowest.    *)
LEMMA BelowIs ==
    ASSUME NEW T, NEW d, Typed(T), Grown(T, d), Ordered(T, d)
    PROVE  Below(T) = d
<1> DEFINE F(f) == f = [n \in Keys \cup {NULL} |->
                          IF n = NULL THEN {}
                          ELSE {n} \cup f[T.kid[n]["left"]] \cup f[T.kid[n]["right"]]]
           b == CHOOSE f : F(f)
           Bad == {n \in Keys : b[n] # d[n]}
<1>1. Below(T) = b
  BY DEF Below
<1>2. F(d)
  BY ConstantsAssumption DEF Grown, Pointers
<1>3. F(b)
  BY <1>2, Zenon
<1> HIDE DEF b
<1>4. Bad = {}
  <2> SUFFICES ASSUME Bad # {}
               PROVE  FALSE
    OBVIOUS
  <2>1. PICK n \in Bad : \A s \in Sides : T.kid[n][s] \notin Bad
    BY Lowest
  <2>2. \A s \in Sides : T.kid[n][s] \in Keys \cup {NULL}
    BY <2>1, Hanging DEF Pointers
  <2>3. b[NULL] = {} /\ d[NULL] = {}
    BY <1>3, Zenon DEF Grown
  <2>4. \A s \in Sides : b[T.kid[n][s]] = d[T.kid[n][s]]
    BY <2>1, <2>2, <2>3
  <2>5. b[n] = {n} \cup b[T.kid[n]["left"]] \cup b[T.kid[n]["right"]]
    BY <1>3, <2>1, ConstantsAssumption, Zenon
  <2>6. d[n] = {n} \cup d[T.kid[n]["left"]] \cup d[T.kid[n]["right"]]
    BY <2>1 DEF Grown
  <2>7. QED
    BY <2>1, <2>4, <2>5, <2>6 DEF Sides
<1>5. \A n \in Keys \cup {NULL} : b[n] = d[n]
  BY <1>3, <1>4, Zenon DEF Grown
<1>6. b = [n \in Keys \cup {NULL} |-> b[n]] /\ d = [n \in Keys \cup {NULL} |-> d[n]]
  BY <1>3, Zenon DEF Grown, Pointers
<1>7. QED
  BY <1>1, <1>5, <1>6, Zenon

-----------------------------------------------------------------------------
(* Rotations, field by field: n sinks to side s below c, the child on its  *)
(* other side, and takes over c's child m.                                 *)
Rotated(T, n, s, U) ==
    LET c == T.kid[n][Other(s)]
        m == T.kid[c][s]
    IN  /\ U.red = T.red
        /\ U.root = IF n = T.root THEN c ELSE T.root
        /\ \A x \in Keys, t \in Sides :
              U.kid[x][t] = IF x = n /\ t = Other(s) THEN m
                            ELSE IF x = c /\ t = s THEN n
                            ELSE IF T.kid[x][t] = n THEN c
                            ELSE T.kid[x][t]
        /\ \A x \in Keys :
              U.up[x] = IF x = n THEN c
                        ELSE IF x = c THEN T.up[n]
                        ELSE IF x = m THEN n
                        ELSE T.up[x]

(* Rotate does just that, whatever is missing.                             *)
LEMMA RotateFields ==
    ASSUME NEW T, NEW d, Links(T, d), NEW n \in Keys, NEW s \in Sides,
           T.kid[n][Other(s)] # NULL
    PROVE  Typed(Rotate(T, n, s)) /\ Rotated(T, n, s, Rotate(T, n, s))
<1> DEFINE o == Other(s)
           c == T.kid[n][o]
           m == T.kid[c][s]
           p == T.up[n]
           T0 == [T EXCEPT !.kid[n][o] = m]
           T1 == SetParent(T0, m, n)
           T1c == SetParent(T1, c, T.up[n])
           T2 == SwapChild(T1c, n, c)
           T3 == [T2 EXCEPT !.kid[c][s] = n]
           U == SetParent(T3, n, c)
<1>1. Rotate(T, n, s) = U
  BY Zenon DEF Rotate
<1>2. o \in Sides /\ o # s /\ Other(o) = s
  BY SideFacts
<1>3. c \in Keys /\ c # n /\ c # NULL /\ n # NULL /\ T.up[c] = n
  BY <1>2, KidFacts, ConstantsAssumption DEF Links, Paired
<1>4. m \in Pointers /\ m # n /\ m # c
  <2>1. m \in Pointers
    BY <1>3, Hanging DEF Links
  <2>2. CASE m = NULL
    BY <1>3, <2>1, <2>2
  <2>3. CASE m # NULL
    <3>1. m # c
      BY <1>3, <2>3, KidFacts DEF Links
    <3>2. T.up[m] = c /\ c # n
      BY <1>3, <2>3 DEF Links, Paired
    <3>3. m # n
      <4>1. d[c] \subseteq d[n] /\ n \notin d[c] /\ d[m] \subseteq d[c] /\ (m \in Keys => m \in d[m])
        BY <1>2, <1>3, Hanging, KidFacts DEF Links
      <4>2. QED
        BY <4>1
    <3>4. QED
      BY <2>1, <3>1, <3>3
  <2>4. QED
    BY <2>2, <2>3
<1>5. p = NULL \/ (p \in Keys /\ p # n /\ p # c)
  <2>1. p \in Pointers
    BY DEF Links, Typed
  <2>2. p # NULL => p # n /\ n \in d[p]
    BY OneParent
  <2>3. n \notin d[c]
    BY <1>2, <1>3, KidFacts DEF Links
  <2>4. QED
    BY <2>1, <2>2, <2>3 DEF Pointers
<1>6. p = NULL <=> n = T.root
  <2>1. n \in d[T.root]
    BY <1>2, <1>3 DEF Links, Paired
  <2>2. QED
    BY <2>1 DEF Links, Paired
<1> HIDE DEF o, c, m, p
<1> USE DEF Typed
<1>7. /\ Typed(T0) /\ T0.red = T.red /\ T0.root = T.root /\ T0.up = T.up
      /\ \A x \in Keys, t \in Sides :
            T0.kid[x][t] = IF x = n /\ t = o THEN m ELSE T.kid[x][t]
  BY <1>2, <1>3, <1>4 DEF Links
<1> HIDE DEF T0
<1>8. /\ Typed(T1) /\ T1.red = T.red /\ T1.root = T.root /\ T1.kid = T0.kid
      /\ \A x \in Keys : T1.up[x] = IF x = m THEN n ELSE T.up[x]
  BY <1>4, <1>7, ConstantsAssumption DEF SetParent, Pointers
<1> HIDE DEF T1
<1>9. /\ Typed(T1c) /\ T1c.red = T.red /\ T1c.root = T.root /\ T1c.kid = T0.kid
      /\ \A x \in Keys : T1c.up[x] = IF x = c THEN p ELSE IF x = m THEN n ELSE T.up[x]
  BY <1>3, <1>4, <1>5, <1>8, ConstantsAssumption DEF SetParent, Pointers, p
<1> HIDE DEF T1c
<1>10. T1c.up[n] = p
  BY <1>3, <1>4, <1>9 DEF p
<1>11. /\ Typed(T2) /\ T2.red = T.red /\ T2.up = T1c.up
       /\ T2.root = IF p = NULL THEN c ELSE T.root
       /\ \A x \in Keys, t \in Sides :
            T2.kid[x][t] = IF p # NULL /\ x = p /\ t = SideOf(T1c, p, n) THEN c ELSE T0.kid[x][t]
  <2>1. CASE p = NULL
    BY <1>3, <1>9, <1>10, <2>1 DEF SwapChild, Pointers
  <2>2. CASE p # NULL
    <3>1. SideOf(T1c, p, n) \in Sides /\ p \in Keys
      BY <1>5, <2>2 DEF SideOf, Sides
    <3>2. T2 = [T1c EXCEPT !.kid[p][SideOf(T1c, p, n)] = c]
      BY <1>10, <2>2 DEF SwapChild
    <3>3. c \in Pointers
      BY <1>3 DEF Pointers
    <3> DEFINE u == SideOf(T1c, p, n)
    <3> HIDE DEF T2, Typed, u
    <3>4. /\ Typed(T2) /\ T2.red = T1c.red /\ T2.up = T1c.up /\ T2.root = T1c.root
          /\ \A x \in Keys, t \in Sides :
               T2.kid[x][t] = IF x = p /\ t = u THEN c ELSE T1c.kid[x][t]
      <4>1. u \in Sides /\ p \in Keys /\ T2 = [T1c EXCEPT !.kid[p][u] = c] /\ Typed(T1c)
        BY <1>9, <3>1, <3>2 DEF u
      <4>2. QED
        BY <3>3, <4>1 DEF Typed
    <3>5. QED
      BY <1>9, <2>2, <3>4 DEF u
  <2>3. QED
    BY <2>1, <2>2
<1> HIDE DEF T2
<1>12. /\ Typed(T3) /\ T3.red = T.red /\ T3.up = T1c.up
       /\ T3.root = IF p = NULL THEN c ELSE T.root
       /\ \A x \in Keys, t \in Sides :
            T3.kid[x][t] = IF x = c /\ t = s THEN n ELSE T2.kid[x][t]
  BY <1>3, <1>11 DEF Pointers
<1> HIDE DEF T3
<1>13. /\ Typed(U) /\ U.red = T.red /\ U.kid = T3.kid
       /\ U.root = IF p = NULL THEN c ELSE T.root
       /\ \A x \in Keys : U.up[x] = IF x = n THEN c ELSE T1c.up[x]
  BY <1>3, <1>12 DEF SetParent, Pointers
<1> HIDE DEF U
<1>14. ASSUME NEW x \in Keys, NEW t \in Sides
       PROVE  (p # NULL /\ x = p /\ t = SideOf(T1c, p, n)) <=> T.kid[x][t] = n
  <2>1. CASE p = NULL
    <3>1. T.kid[x][t] # n
      BY <1>3, <2>1, ConstantsAssumption DEF Links, Paired, p
    <3>2. QED
      BY <2>1, <3>1
  <2>2. CASE p # NULL
    <3>1. SideOf(T1c, p, n) = SideOf(T, p, n)
      BY <1>5, <1>7, <1>9, <2>2 DEF SideOf, Sides
    <3>2. QED
      BY <2>2, <3>1, OneParent DEF p
  <2>3. QED
    BY <2>1, <2>2
<1>15. ASSUME NEW x \in Keys, NEW t \in Sides
       PROVE  U.kid[x][t] = IF x = n /\ t = o THEN m
                            ELSE IF x = c /\ t = s THEN n
                            ELSE IF T.kid[x][t] = n THEN c
                            ELSE T.kid[x][t]
  <2>1. T.kid[n][o] # n
    BY <1>3 DEF c
  <2>2. x = n /\ t = o => T.kid[x][t] # n
    BY <2>1
  <2>3. QED
    BY <1>3, <1>7, <1>11, <1>12, <1>13, <1>14, <2>2
<1>16. \A x \in Keys :
          U.up[x] = IF x = n THEN c ELSE IF x = c THEN p ELSE IF x = m THEN n ELSE T.up[x]
  BY <1>9, <1>13, Zenon
<1>17. QED
  BY <1>1, <1>6, <1>13, <1>15, <1>16 DEF Rotated, o, c, m, p

(* What hangs from the nodes after a rotation: only the two change.        *)
RotatedSets(T, d, n, s) ==
    LET c == T.kid[n][Other(s)]
    IN  [x \in Pointers |-> IF x = c THEN d[n]
                            ELSE IF x = n THEN d[n] \ ({c} \cup d[T.kid[c][Other(s)]])
                            ELSE d[x]]

(* A rotation keeps the tree linked and in order, with the same nodes.     *)
LEMMA RotateLinks ==
    ASSUME NEW T, NEW d, Links(T, d), NEW n \in Keys, NEW s \in Sides,
           T.kid[n][Other(s)] # NULL,
           NEW U, Typed(U), Rotated(T, n, s, U)
    PROVE  /\ Links(U, RotatedSets(T, d, n, s))
           /\ RotatedSets(T, d, n, s)[U.root] = d[T.root]
<1> DEFINE o == Other(s)
           c == T.kid[n][o]
           m == T.kid[c][s]
           k == T.kid[c][o]
           a == T.kid[n][s]
           e == RotatedSets(T, d, n, s)
<1>1. o \in Sides /\ o # s /\ Other(o) = s /\ \A t \in Sides : t = s \/ t = o
  BY SideFacts
<1>2. /\ c \in Keys /\ c # n /\ c # NULL /\ n # NULL /\ T.up[c] = n
      /\ n \notin d[c] /\ Toward(c, n) = o
  BY <1>1, KidFacts, ConstantsAssumption DEF Links, Paired
<1>3. m \in Pointers /\ k \in Pointers /\ a \in Pointers
  BY <1>1, <1>2, Hanging DEF Links
<1>4. /\ d[n] = {n} \cup d[a] \cup d[c]
      /\ d[c] = {c} \cup d[m] \cup d[k]
      /\ c \notin d[m] /\ c \notin d[k] /\ n \notin d[a]
      /\ \A x : ~(x \in d[m] /\ x \in d[k]) /\ ~(x \in d[a] /\ x \in d[c])
  <2>1. /\ d[n] = {n} \cup d[a] \cup d[c]
        /\ d[c] = {c} \cup d[m] \cup d[k]
    BY <1>1, <1>2, Hanging DEF Links
  <2>2. c \notin d[m] /\ c \notin d[k] /\ n \notin d[a]
    BY <1>1, <1>2 DEF Links, Ordered
  <2>3. \A x : ~(x \in d[m] /\ x \in d[k]) /\ ~(x \in d[a] /\ x \in d[c])
    BY <1>1, <1>2, Apart DEF Links
  <2>4. QED
    BY <2>1, <2>2, <2>3, Zenon
<1>5. /\ m # n /\ m # c /\ k # n /\ k # c /\ a # n /\ a # c
      /\ m # NULL => m \in Keys /\ T.up[m] = c
  <2>1. \A x \in Keys : x \in d[x]
    BY Hanging DEF Links
  <2>2. m # NULL => m \in Keys /\ T.up[m] = c
    BY <1>1, <1>2, <1>3 DEF Pointers, Links, Paired
  <2>3. QED
    BY <1>2, <1>4, <2>1, <2>2, Zenon
<1>6. /\ e \in [Pointers -> SUBSET Keys]
      /\ e[c] = d[n] /\ e[n] = {n} \cup d[a] \cup d[m]
      /\ \A x \in Pointers : x # n /\ x # c => e[x] = d[x]
  <2>1. d \in [Pointers -> SUBSET Keys]
    BY DEF Links, Grown
  <2>2. d[n] \ ({c} \cup d[k]) = {n} \cup d[a] \cup d[m]
    BY <1>2, <1>4, Zenon
  <2>3. n \in Pointers /\ c \in Pointers
    BY <1>2 DEF Pointers
  <2>4. QED
    BY <1>2, <2>1, <2>2, <2>3 DEF RotatedSets
<1>7. /\ U.root = IF n = T.root THEN c ELSE T.root
      /\ U.kid[n][o] = m /\ U.kid[n][s] = a
      /\ U.kid[c][s] = n /\ U.kid[c][o] = k
      /\ \A x \in Keys, t \in Sides : x # n /\ x # c =>
            U.kid[x][t] = IF T.kid[x][t] = n THEN c ELSE T.kid[x][t]
      /\ U.up[n] = c /\ U.up[c] = T.up[n]
      /\ \A x \in Keys : x # n /\ x # c => U.up[x] = IF x = m THEN n ELSE T.up[x]
  BY <1>1, <1>2, <1>5 DEF Rotated
<1>8. \A x \in Keys, t \in Sides : x # n => T.kid[x][t] # c
  BY <1>2 DEF Links, Paired
<1> HIDE DEF e, m, k, a, c, o
<1>9. \A x \in Keys, t \in Sides : x # n /\ x # c => e[U.kid[x][t]] = d[T.kid[x][t]]
  <2>1. \A x \in Keys, t \in Sides : T.kid[x][t] \in Pointers
    BY Hanging DEF Links
  <2>2. QED
    BY <1>6, <1>7, <1>8, <2>1
<1>10. /\ e[U.kid[n][o]] = d[m] /\ e[U.kid[n][s]] = d[a]
       /\ e[U.kid[c][s]] = {n} \cup d[a] \cup d[m] /\ e[U.kid[c][o]] = d[k]
  BY <1>3, <1>5, <1>6, <1>7
<1>11. Grown(U, e)
  <2>1. e[NULL] = {}
    BY <1>2, <1>6 DEF Links, Grown, Pointers
  <2>2. \A x \in Keys : IsFiniteSet(d[x]) /\ d[x] \subseteq Keys
    BY DEF Links, Grown, Pointers
  <2>3. \A x \in Keys : IsFiniteSet(e[x])
    <3>1. IsFiniteSet(e[n])
      <4>1. e[n] \subseteq d[n]
        BY <1>4, <1>6
      <4>2. QED
        BY <2>2, <4>1, FS_Subset
    <3>2. QED
      BY <1>2, <1>6, <2>2, <3>1, Zenon DEF Pointers
  <2>4. ASSUME NEW x \in Keys
        PROVE  e[x] = {x} \cup e[U.kid[x]["left"]] \cup e[U.kid[x]["right"]]
    <3>1. {s, o} = {"left", "right"}
      BY <1>1 DEF Sides
    <3>2. CASE x = n
      BY <1>6, <1>10, <3>1, <3>2
    <3>3. CASE x = c
      BY <1>2, <1>4, <1>6, <1>10, <3>1, <3>3
    <3>4. CASE x # n /\ x # c
      <4>1. "left" \in Sides /\ "right" \in Sides /\ x \in Pointers
        BY DEF Sides, Pointers
      <4>2. d[x] = {x} \cup d[T.kid[x]["left"]] \cup d[T.kid[x]["right"]]
        BY DEF Links, Grown
      <4>3. QED
        BY <1>6, <1>9, <3>4, <4>1, <4>2
    <3>5. QED
      BY <3>2, <3>3, <3>4
  <2>5. QED
    BY <1>6, <2>1, <2>3, <2>4 DEF Grown
<1>12. Ordered(U, e)
  <2>1. /\ \A y \in d[a] : y # n /\ Toward(y, n) = s
        /\ \A y \in d[c] : y # n /\ Toward(y, n) = o
        /\ \A y \in d[m] : y # c /\ Toward(y, c) = s
        /\ \A y \in d[k] : y # c /\ Toward(y, c) = o
    BY <1>1, <1>2 DEF Links, Ordered, m, k, a, c
  <2>2. \A x \in Pointers : d[x] \subseteq Int
    BY ConstantsAssumption DEF Links, Grown
  <2>3. n \in Int /\ c \in Int
    BY <1>2, ConstantsAssumption
  <2>4. Toward(n, c) = s
    BY <1>1, <1>2, <2>3, TowardFacts
  <2>5. \A y \in d[a] : y # c /\ Toward(y, c) = s
    <3>1. \A y \in d[a] : y \in Int
      BY <1>3, <2>2
    <3>2. QED
      BY <1>1, <1>2, <2>1, <2>3, <3>1, TowardFacts
  <2>6. ASSUME NEW x \in Keys, NEW t \in Sides, NEW y \in e[U.kid[x][t]]
        PROVE  y # x /\ Toward(y, x) = t
    <3>1. t = s \/ t = o
      BY <1>1
    <3>2. CASE x = n
      BY <1>4, <1>10, <2>1, <2>6, <3>1, <3>2
    <3>3. CASE x = c
      BY <1>2, <1>10, <2>1, <2>4, <2>5, <2>6, <3>1, <3>3
    <3>4. CASE x # n /\ x # c
      BY <1>9, <2>6, <3>4 DEF Links, Ordered
    <3>5. QED
      BY <3>2, <3>3, <3>4
  <2>7. QED
    BY <2>6 DEF Ordered
<1>13. e[U.root] = d[T.root]
  <2>1. T.root \in Pointers /\ T.root # c
    BY <1>2 DEF Links, Typed, Paired
  <2>2. QED
    BY <1>6, <1>7, <2>1
<1>14. Paired(U, e)
  <2>0. /\ \A x \in Keys, t \in Sides : T.kid[x][t] # NULL =>
              T.kid[x][t] \in Keys /\ T.up[T.kid[x][t]] = x
        /\ NULL \notin Keys
        /\ T.kid[n][s] = a /\ T.kid[n][o] = c /\ T.kid[c][s] = m /\ T.kid[c][o] = k
        /\ \A x \in Keys : x \in d[x]
        /\ n \in d[T.root] /\ c \in d[T.root]
    <3>1. \A x \in Keys, t \in Sides : T.kid[x][t] # NULL =>
              T.kid[x][t] \in Keys /\ T.up[T.kid[x][t]] = x /\ x \in d[T.root]
      BY KidFacts DEF Links, Paired
    <3>2. n \in d[T.root]
      BY <1>1, <1>2, <3>1 DEF c
    <3>3. c \in d[T.root]
      BY <1>2 DEF Links, Paired
    <3>4. QED
      BY <3>1, <3>2, <3>3, ConstantsAssumption, Hanging DEF Links, a, c, m, k, o
  <2>1. ASSUME NEW x \in Keys, NEW t \in Sides, U.kid[x][t] # NULL
        PROVE  U.up[U.kid[x][t]] = x
    <3>1. t = s \/ t = o
      BY <1>1
    <3>2. CASE x = n
      BY <1>1, <1>2, <1>5, <1>7, <2>0, <2>1, <3>1, <3>2
    <3>3. CASE x = c
      <4>1. k # NULL => k # m
        BY <1>1, <1>2, <1>4, <2>0
      <4>2. QED
        BY <1>1, <1>2, <1>5, <1>7, <2>0, <2>1, <3>1, <3>3, <4>1
    <3>4. CASE x # n /\ x # c
      BY <1>2, <1>5, <1>7, <1>8, <2>0, <2>1, <3>4
    <3>5. QED
      BY <3>2, <3>3, <3>4
  <2>2. ASSUME NEW x \in Keys, U.up[x] # NULL
        PROVE  \E t \in Sides : U.kid[U.up[x]][t] = x
    <3>1. \A y \in Keys : T.up[y] # NULL =>
             T.up[y] \in Keys /\ T.up[y] # y /\ \E t \in Sides : T.kid[T.up[y]][t] = y
      BY OneParent
    <3>2. CASE x = n \/ (x = m /\ x # c)
      BY <1>1, <1>5, <1>7, <3>2
    <3>3. CASE x = c
      <4>1. PICK t \in Sides : T.kid[T.up[n]][t] = n
        BY <1>2, <1>7, <2>2, <3>1, <3>3
      <4>2. T.up[n] \in Keys /\ T.up[n] # n
        BY <1>2, <1>7, <2>2, <3>1, <3>3
      <4>3. T.up[n] # c
        BY <1>1, <1>2, <1>5, <2>0, <4>1, KidFacts DEF Links
      <4>4. QED
        BY <1>7, <3>3, <4>1, <4>2, <4>3
    <3>4. CASE x # n /\ x # c /\ x # m
      <4>1. T.up[x] # NULL /\ U.up[x] = T.up[x] /\ T.up[x] \in Keys
        BY <1>7, <2>2, <3>1, <3>4
      <4>2. PICK t \in Sides : T.kid[T.up[x]][t] = x
        BY <3>1, <4>1
      <4>3. QED
        BY <1>1, <1>7, <2>0, <3>4, <4>1, <4>2
    <3>5. QED
      BY <3>2, <3>3, <3>4
  <2>3. ASSUME NEW x \in Keys
        PROVE  U.up[x] = NULL <=> (x = U.root \/ x \notin e[U.root])
    <3>1. T.up[x] = NULL <=> (x = T.root \/ x \notin d[T.root])
      BY DEF Links, Paired
    <3>2. T.root # c /\ (m # NULL => T.root # m /\ m \in d[T.root])
      BY <1>2, <1>5 DEF Links, Paired
    <3>3. T.up[n] = NULL <=> n = T.root
      BY <2>0 DEF Links, Paired
    <3>4. QED
      BY <1>2, <1>5, <1>7, <1>13, <2>0, <3>1, <3>2, <3>3
  <2>4. ASSUME NEW x \in Keys, NEW t \in Sides, x \notin e[U.root]
        PROVE  U.kid[x][t] = NULL
    <3>1. T.kid[x][t] = NULL
      BY <1>13, <2>4 DEF Links, Paired
    <3>2. QED
      BY <1>2, <1>7, <1>13, <2>0, <2>4, <3>1
  <2>5. QED
    BY <2>1, <2>2, <2>3, <2>4 DEF Paired
<1>15. QED
  BY <1>11, <1>12, <1>13, <1>14 DEF Links, e

(* In short.                                                               *)
LEMMA RotateStep ==
    ASSUME NEW T, NEW d, Links(T, d), NEW n \in Keys, NEW s \in Sides,
           T.kid[n][Other(s)] # NULL
    PROVE  /\ Rotated(T, n, s, Rotate(T, n, s))
           /\ \E e : Links(Rotate(T, n, s), e) /\ e[Rotate(T, n, s).root] = d[T.root]
BY RotateFields, RotateLinks

(* Bits have nothing to do with links.                                     *)
LEMMA RedLinks ==
    ASSUME NEW T, NEW d, Links(T, d), NEW U, Typed(U),
           U.root = T.root, U.kid = T.kid, U.up = T.up
    PROVE  Links(U, d)
BY DEF Links, Grown, Ordered, Paired

-----------------------------------------------------------------------------
(* Ranks r of the nodes.  Every edge is as long as its bit says, but for   *)
(* that on side s of node p, which is longer by g.                         *)
Long(T, n, s) == IF s \in T.red[n] THEN 2 ELSE 1

Ranked(r) == r \in [Pointers -> Int] /\ r[NULL] = -1 /\ \A n \in Keys : r[n] >= 0

Balanced(T, r, p, s, g) ==
    \A n \in Keys, t \in Sides :
        r[n] = r[T.kid[n][t]] + Long(T, n, t) + IF n = p /\ t = s THEN g ELSE 0

(* No leaf, unless it is q, has a red edge.                                *)
LeafRule(T, q) ==
    \A n \in Keys : n # q /\ (\A s \in Sides : T.kid[n][s] = NULL) => T.red[n] = {}

(* A node whose rank an insertion has raised: the new leaf, or a node that *)
(* has become taller on one side, by a child that has not two red edges.   *)
Promoted(T, n) ==
    \/ \A s \in Sides : T.kid[n][s] = NULL
    \/ \E s \in Sides : /\ T.red[n] = {Other(s)}
                        /\ T.kid[n][s] # NULL => T.red[T.kid[n][s]] # Sides

(* Where the current call is.                                              *)
Inserting(r) ==
    LET p == tree.up[elm]
    IN  /\ pc = "insert_color" /\ parent = NULL
        /\ Balanced(tree, r, p, SideOf(tree, p, elm), -1)
        /\ LeafRule(tree, NULL)
        /\ Promoted(tree, elm)

Removing(r) ==
    \E s \in Sides :
        /\ tree.kid[parent][s] = elm
        /\ Balanced(tree, r, parent, s, 1)
        /\ \/ pc = "remove_leaf" /\ LeafRule(tree, parent)
           \/ /\ pc = "remove_color" /\ LeafRule(tree, NULL)
              /\ tree.kid[parent][Other(s)] # elm

Idle(r) ==
    /\ pc = "idle" /\ elm = NULL /\ parent = NULL
    /\ Balanced(tree, r, NULL, "left", 0)
    /\ LeafRule(tree, NULL)

Progress(d, r) ==
    \/ Idle(r)
    \/ Inserting(r) /\ elm \in d[tree.root]
    \/ Removing(r) /\ elm \in Pointers /\ parent \in d[tree.root]

TreeInv(d, r) == Links(tree, d) /\ Ranked(r) /\ Progress(d, r)

IInv == ret \in Pointers /\ \E d, r : TreeInv(d, r)

(* A rebalancing step keeps all that, and the nodes.                       *)
Kept(d) == \E e, q : TreeInv(e, q)' /\ e[tree'.root] = d[tree.root]

(* What an edge says.                                                      *)
LEMMA Edge ==
    ASSUME NEW T, Typed(T), NEW r, Ranked(r), NEW p, NEW s, NEW g \in Int, Balanced(T, r, p, s, g),
           NEW n \in Keys, NEW t \in Sides
    PROVE  /\ r[n] \in Int /\ r[T.kid[n][t]] \in Int /\ r[n] >= 0 /\ r[T.kid[n][t]] >= -1
           /\ t \in T.red[n] /\ ~(n = p /\ t = s) => r[n] = r[T.kid[n][t]] + 2
           /\ t \notin T.red[n] /\ ~(n = p /\ t = s) => r[n] = r[T.kid[n][t]] + 1
           /\ t \in T.red[n] /\ n = p /\ t = s => r[n] = r[T.kid[n][t]] + 2 + g
           /\ t \notin T.red[n] /\ n = p /\ t = s => r[n] = r[T.kid[n][t]] + 1 + g
           /\ T.kid[n][t] \in Keys => r[T.kid[n][t]] >= 0
<1>1. T.kid[n][t] \in Pointers /\ n \in Pointers
  BY DEF Typed, Pointers
<1>2. r[n] \in Int /\ r[T.kid[n][t]] \in Int /\ r[n] >= 0
  BY <1>1 DEF Ranked
<1>3. r[T.kid[n][t]] >= -1 /\ (T.kid[n][t] \in Keys => r[T.kid[n][t]] >= 0)
  BY <1>1 DEF Ranked, Pointers
<1>4. QED
  BY <1>2, <1>3 DEF Balanced, Long

(* The end of a call, with new ranks.                                      *)
Rests(U, d, T) ==
    \E e, q : /\ Links(U, e) /\ e[U.root] = d[T.root]
              /\ Ranked(q) /\ Balanced(U, q, NULL, "left", 0) /\ LeafRule(U, NULL)

(* A tree with the same links.                                             *)
SameLinks(U, T) == Typed(U) /\ U.root = T.root /\ U.kid = T.kid /\ U.up = T.up

(* The children after p has been turned round with x, its child on side s. *)
TurnedKids(T, U, p, s) ==
    LET x == T.kid[p][s]
    IN  /\ U.kid[p][s] = T.kid[x][Other(s)]
        /\ U.kid[p][Other(s)] = T.kid[p][Other(s)]
        /\ U.kid[x][s] = T.kid[x][s]
        /\ U.kid[x][Other(s)] = p
        /\ \A y \in Keys, t \in Sides : y # p /\ y # x =>
              U.kid[y][t] = IF T.kid[y][t] = p THEN x ELSE T.kid[y][t]

(* The nodes around a node p and its child x.                              *)
Adjacent(T, p, s, x) ==
    /\ x \in Keys /\ x # p
    /\ T.kid[p][Other(s)] # p /\ T.kid[p][Other(s)] # x
    /\ \A t \in Sides : T.kid[x][t] # p /\ T.kid[x][t] # x
    /\ \A y \in Keys, t \in Sides : T.kid[y][t] = x => y = p /\ t = s

LEMMA Neighbours ==
    ASSUME NEW T, NEW d, Links(T, d), NEW p \in Keys, NEW s \in Sides,
           NEW x, x = T.kid[p][s], x # NULL
    PROVE  Adjacent(T, p, s, x)
<1> DEFINE o == Other(s)
<1>1. o \in Sides /\ \A t \in Sides : t = s \/ t = o
  BY SideFacts
<1>2. x \in Keys /\ x # p /\ p \notin d[x] /\ T.up[x] = p
  BY KidFacts DEF Links, Paired
<1>3. \A y \in Keys : y \in d[y]
  BY Hanging DEF Links
<1>4. p \notin d[T.kid[p][o]] /\ x \notin d[T.kid[p][o]]
  BY <1>1, <1>2, <1>3, Apart DEF Links, Ordered
<1>5. \A t \in Sides : x \notin d[T.kid[x][t]] /\ p \notin d[T.kid[x][t]]
  <2>1. x \in Keys /\ p \notin d[x]
    BY <1>2
  <2>2. \A t \in Sides : d[T.kid[x][t]] \subseteq d[x]
    BY <2>1, Hanging DEF Links
  <2>3. \A t \in Sides : x \notin d[T.kid[x][t]]
    BY <2>1 DEF Links, Ordered
  <2>4. QED
    BY <2>1, <2>2, <2>3
<1>6. \A y \in Keys, t \in Sides : T.kid[y][t] = x => y = p /\ t = s
  BY <1>1, <1>2, <1>3, <1>4 DEF Links, Paired
<1>7. T.kid[p][o] # p /\ T.kid[p][o] # x
  BY <1>2, <1>3, <1>4
<1>8. \A t \in Sides : T.kid[x][t] # p /\ T.kid[x][t] # x
  BY <1>2, <1>3, <1>5
<1>9. QED
  BY <1>2, <1>6, <1>7, <1>8 DEF Adjacent

(* A rotation between changes of bits.                                     *)
LEMMA Turn ==
    ASSUME NEW T, NEW d, Links(T, d), NEW p \in Keys, NEW s \in Sides, T.kid[p][s] # NULL,
           NEW F, SameLinks(F, T), NEW U, SameLinks(U, Rotate(F, p, Other(s)))
    PROVE  /\ \E e : Links(U, e) /\ e[U.root] = d[T.root]
           /\ TurnedKids(T, U, p, s)
           /\ Rotate(F, p, Other(s)).red = F.red /\ Typed(Rotate(F, p, Other(s)))
<1> DEFINE o == Other(s)
           V == Rotate(F, p, o)
           x == T.kid[p][s]
<1>1. o \in Sides /\ o # s /\ Other(o) = s /\ \A t \in Sides : t = s \/ t = o
  BY SideFacts
<1>2. Links(F, d) /\ F.root = T.root /\ F.kid = T.kid /\ F.up = T.up
  BY RedLinks DEF SameLinks
<1>3. Rotated(F, p, o, V) /\ \E e : Links(V, e) /\ e[V.root] = d[F.root]
  BY <1>1, <1>2, RotateStep
<1>4. Typed(V)
  BY <1>1, <1>2, RotateFields
<1>5. \E e : Links(U, e) /\ e[U.root] = d[T.root]
  BY <1>2, <1>3, RedLinks DEF SameLinks
<1>6. /\ \A y \in Keys, t \in Sides :
           V.kid[y][t] = IF y = p /\ t = s THEN T.kid[x][o]
                         ELSE IF y = x /\ t = o THEN p
                         ELSE IF T.kid[y][t] = p THEN x
                         ELSE T.kid[y][t]
      /\ V.red = F.red
  BY <1>1, <1>2, <1>3 DEF Rotated
<1>7. /\ x \in Keys /\ x # p
      /\ T.kid[p][o] # p /\ T.kid[p][o] # x
      /\ \A t \in Sides : T.kid[x][t] # p /\ T.kid[x][t] # x
      /\ \A y \in Keys, t \in Sides : T.kid[y][t] = x => y = p /\ t = s
  <2>1. Adjacent(T, p, s, x)
    BY Neighbours, Zenon
  <2>2. QED
    BY <2>1, Zenon DEF Adjacent
<1>8. U.kid = V.kid
  BY DEF SameLinks
<1> HIDE DEF V, x, o
<1>9. TurnedKids(T, U, p, s)
  BY <1>1, <1>6, <1>7, <1>8 DEF TurnedKids, x, o
<1>10. QED
  BY <1>4, <1>5, <1>6, <1>9 DEF V, o

(* Edges of nodes that kept bits and rank, and whose children kept theirs. *)
LEMMA SameEdge ==
    ASSUME NEW T, NEW r, NEW p, NEW t0, NEW g \in Int, Typed(T), Ranked(r),
           Balanced(T, r, p, t0, g),
           NEW U, Typed(U), NEW q, NEW y \in Keys, NEW t \in Sides, y # p,
           U.red[y] = T.red[y], q[y] = r[y], q[U.kid[y][t]] = r[T.kid[y][t]]
    PROVE  q[y] = q[U.kid[y][t]] + Long(U, y, t)
<1>1. r[y] = r[T.kid[y][t]] + Long(T, y, t)
  BY Edge DEF Long
<1>2. Long(U, y, t) = Long(T, y, t)
  BY DEF Long
<1>3. QED
  BY <1>1, <1>2

(* Balanced everywhere.                                                    *)
LEMMA AllBalanced ==
    ASSUME NEW U, Typed(U), NEW q, Ranked(q),
           \A y \in Keys, t \in Sides : q[y] = q[U.kid[y][t]] + Long(U, y, t)
    PROVE  Balanced(U, q, NULL, "left", 0)
<1>1. ASSUME NEW y \in Keys, NEW t \in Sides
      PROVE  q[y] = q[U.kid[y][t]] + Long(U, y, t) + IF y = NULL /\ t = "left" THEN 0 ELSE 0
  <2>1. U.kid[y][t] \in Pointers
    BY DEF Typed
  <2>2. q[U.kid[y][t]] \in Int
    BY <2>1 DEF Ranked
  <2>3. Long(U, y, t) \in Int
    BY DEF Long
  <2>4. q[U.kid[y][t]] + Long(U, y, t) + 0 = q[U.kid[y][t]] + Long(U, y, t)
    BY <2>2, <2>3
  <2>5. QED
    BY <2>4
<1>2. \A y \in Keys : y # NULL
  BY ConstantsAssumption, Zenon
<1>3. QED
  BY <1>1, <1>2 DEF Balanced

(* A call that ends with one rotation of p and x, its child on side s,     *)
(* after which p has rank a and x the rank that p had.                     *)
SingleEdges(T, U, r, p, s, a) ==
    LET x == T.kid[p][s]
    IN  /\ a = r[T.kid[x][Other(s)]] + Long(U, p, s)
        /\ a = r[T.kid[p][Other(s)]] + Long(U, p, Other(s))
        /\ r[p] = r[T.kid[x][s]] + Long(U, x, s)
        /\ r[p] = a + Long(U, x, Other(s))

(* A single rotation of such edges leaves every edge as long as its bit.   *)
LEMMA SingleRests ==
    ASSUME NEW T, NEW d, NEW r, NEW p \in Keys, NEW s \in Sides, NEW t0, NEW g \in Int,
           NEW a \in Nat, NEW U,
           Links(T, d), Ranked(r), LeafRule(T, NULL), Balanced(T, r, p, t0, g),
           T.kid[p][s] # NULL, Typed(U), TurnedKids(T, U, p, s),
           \E e : Links(U, e) /\ e[U.root] = d[T.root],
           \A y \in Keys : y # p /\ y # T.kid[p][s] => U.red[y] = T.red[y],
           U.red[p] # Sides, SingleEdges(T, U, r, p, s, a)
    PROVE  Rests(U, d, T)
<1> DEFINE o == Other(s)
           x == T.kid[p][s]
           q == [r EXCEPT ![p] = a, ![x] = r[p]]
<1>1. o \in Sides /\ o # s /\ Other(o) = s /\ \A t \in Sides : t = s \/ t = o
  BY SideFacts
<1>2. /\ x \in Keys /\ x # p /\ x # NULL /\ p # NULL
      /\ T.kid[p][o] # p /\ T.kid[p][o] # x
      /\ \A t \in Sides : T.kid[x][t] # p /\ T.kid[x][t] # x
      /\ \A y \in Keys, t \in Sides : T.kid[y][t] = x => y = p /\ t = s
  <2>1. Adjacent(T, p, s, x)
    BY Neighbours, Zenon
  <2>2. x \in Keys /\ p # NULL /\ x # NULL
    BY <2>1, ConstantsAssumption DEF Adjacent
  <2>3. QED
    BY <2>1, <2>2, Zenon DEF Adjacent
<1>3. /\ U.kid[p][s] = T.kid[x][o] /\ U.kid[p][o] = T.kid[p][o]
      /\ U.kid[x][s] = T.kid[x][s] /\ U.kid[x][o] = p
      /\ \A y \in Keys, t \in Sides : y # p /\ y # x =>
            U.kid[y][t] = IF T.kid[y][t] = p THEN x ELSE T.kid[y][t]
  BY DEF TurnedKids
<1>4. \A y \in Keys, t \in Sides : T.kid[y][t] \in Pointers
  BY DEF Links, Typed
<1>5. /\ q[p] = a /\ q[x] = r[p] /\ \A y \in Pointers : y # p /\ y # x => q[y] = r[y]
      /\ Ranked(q)
  <2>1. p \in Pointers /\ x \in Pointers
    BY <1>2 DEF Pointers
  <2>2. a \in Int /\ a >= 0 /\ r[p] \in Int /\ r[p] >= 0
    BY <2>1 DEF Ranked
  <2>3. r \in [Pointers -> Int] /\ r[NULL] = -1 /\ \A n \in Keys : r[n] >= 0
    BY DEF Ranked
  <2>4. /\ q[p] = a /\ q[x] = r[p] /\ \A y \in Pointers : y # p /\ y # x => q[y] = r[y]
        /\ q \in [Pointers -> Int]
    BY <1>2, <2>1, <2>2, <2>3
  <2> HIDE DEF q
  <2>5. q[NULL] = -1 /\ \A n \in Keys : q[n] >= 0
    BY <1>2, <2>2, <2>3, <2>4 DEF Pointers
  <2>6. QED
    BY <2>4, <2>5 DEF Ranked
<1>6. /\ a = r[T.kid[x][o]] + Long(U, p, s) /\ a = r[T.kid[p][o]] + Long(U, p, o)
      /\ r[p] = r[T.kid[x][s]] + Long(U, x, s) /\ r[p] = a + Long(U, x, o)
  BY DEF SingleEdges
<1> HIDE DEF q, x, o
<1>7. \A y \in Keys : y # p /\ y # x => U.red[y] = T.red[y]
  BY DEF x
<1>8. ASSUME NEW y \in Keys, NEW t \in Sides
      PROVE  q[y] = q[U.kid[y][t]] + Long(U, y, t)
  <2>1. t = s \/ t = o
    BY <1>1
  <2>2. CASE y = p
    <3>1. q[U.kid[p][s]] = r[T.kid[x][o]] /\ q[U.kid[p][o]] = r[T.kid[p][o]]
      BY <1>1, <1>2, <1>3, <1>4, <1>5
    <3>2. QED
      BY <1>5, <1>6, <2>1, <2>2, <3>1
  <2>3. CASE y = x
    <3>1. q[U.kid[x][s]] = r[T.kid[x][s]] /\ q[U.kid[x][o]] = a
      BY <1>1, <1>2, <1>3, <1>4, <1>5
    <3>2. QED
      BY <1>5, <1>6, <2>1, <2>3, <3>1
  <2>4. CASE y # p /\ y # x
    <3>1. q[U.kid[y][t]] = r[T.kid[y][t]]
      BY <1>2, <1>3, <1>4, <1>5, <2>4
    <3>2. q[y] = r[y] /\ U.red[y] = T.red[y]
      BY <1>5, <1>7, <2>4 DEF Pointers
    <3>3. QED
      BY <2>4, <3>1, <3>2, SameEdge DEF Links
  <2>5. QED
    BY <2>2, <2>3, <2>4
<1>9. Balanced(U, q, NULL, "left", 0)
  BY <1>5, <1>8, AllBalanced
<1>10. LeafRule(U, NULL)
  <2>1. ASSUME NEW y \in Keys, \A t \in Sides : U.kid[y][t] = NULL
        PROVE  U.red[y] = {}
    <3>1. CASE y = p
      <4>1. Long(U, p, s) = Long(U, p, o)
        <5>1. q[p] = q[NULL] + Long(U, p, s) /\ q[p] = q[NULL] + Long(U, p, o)
          BY <1>1, <1>8, <2>1, <3>1
        <5>2. q[NULL] = -1 /\ Long(U, p, s) \in Int /\ Long(U, p, o) \in Int
          BY <1>5 DEF Ranked, Long
        <5>3. QED
          BY <5>1, <5>2
      <4>2. s \in U.red[p] <=> o \in U.red[p]
        BY <4>1 DEF Long
      <4>3. U.red[p] \subseteq Sides
        BY DEF Typed
      <4>4. QED
        BY <1>1, <3>1, <4>2, <4>3
    <3>2. CASE y # p
      <4>1. y # x
        BY <1>1, <1>2, <1>3, <2>1
      <4>2. \A t \in Sides : T.kid[y][t] = NULL
        BY <1>2, <1>3, <2>1, <3>2, <4>1
      <4>3. QED
        BY <1>7, <3>2, <4>1, <4>2, ConstantsAssumption DEF LeafRule
    <3>3. QED
      BY <3>1, <3>2
  <2>2. QED
    BY <2>1 DEF LeafRule
<1>11. QED
  BY <1>5, <1>9, <1>10 DEF Rests

-----------------------------------------------------------------------------
(* The children after two rotations: c, the inner child of p's child x on  *)
(* side s, rises above both.                                               *)
DoubleKids(T, U, p, s) ==
    LET o == Other(s)
        x == T.kid[p][s]
        c == T.kid[x][o]
    IN  /\ U.kid[p][s] = T.kid[c][o] /\ U.kid[p][o] = T.kid[p][o]
        /\ U.kid[x][o] = T.kid[c][s] /\ U.kid[x][s] = T.kid[x][s]
        /\ U.kid[c][s] = x /\ U.kid[c][o] = p
        /\ \A y \in Keys, t \in Sides : y # p /\ y # x /\ y # c =>
              U.kid[y][t] = IF T.kid[y][t] = p THEN c ELSE T.kid[y][t]

(* The nodes around p, x and c.                                            *)
Around(T, p, s, x, c) ==
    /\ x \in Keys /\ c \in Keys /\ x # p /\ c # p /\ c # x /\ p # NULL
    /\ \A t \in Sides : T.kid[c][t] # p /\ T.kid[c][t] # x /\ T.kid[c][t] # c
    /\ T.kid[x][s] # p /\ T.kid[x][s] # x /\ T.kid[x][s] # c
    /\ T.kid[p][Other(s)] # p /\ T.kid[p][Other(s)] # x /\ T.kid[p][Other(s)] # c
    /\ \A y \in Keys, t \in Sides : T.kid[y][t] = x => y = p /\ t = s
    /\ \A y \in Keys, t \in Sides : T.kid[y][t] = c => y = x /\ t = Other(s)

LEMMA MoreNeighbours ==
    ASSUME NEW T, NEW d, Links(T, d), NEW p \in Keys, NEW s \in Sides,
           NEW x, x = T.kid[p][s], x # NULL, NEW c, c = T.kid[x][Other(s)], c # NULL
    PROVE  Around(T, p, s, x, c)
<1> DEFINE o == Other(s)
<1>1. o \in Sides /\ o # s /\ \A t \in Sides : t = s \/ t = o
  BY SideFacts
<1>2. /\ x \in Keys /\ x # p
      /\ T.kid[p][o] # p /\ T.kid[p][o] # x
      /\ \A t \in Sides : T.kid[x][t] # p /\ T.kid[x][t] # x
      /\ \A y \in Keys, t \in Sides : T.kid[y][t] = x => y = p /\ t = s
  <2>1. Adjacent(T, p, s, x)
    BY Neighbours, Zenon
  <2>2. QED
    BY <2>1, Zenon DEF Adjacent
<1>3. /\ c \in Keys /\ c # x
      /\ \A t \in Sides : T.kid[c][t] # x /\ T.kid[c][t] # c
      /\ \A y \in Keys, t \in Sides : T.kid[y][t] = c => y = x /\ t = o
  <2>1. x \in Keys /\ o \in Sides /\ T.kid[x][o] # NULL /\ T.kid[x][o] = c
    BY <1>1, <1>2
  <2>2. Adjacent(T, x, o, c)
    BY <2>1, Neighbours, Zenon
  <2>3. QED
    BY <2>2, Zenon DEF Adjacent
<1>4. c # p
  BY <1>1, <1>2
<1>5. \A t \in Sides : T.kid[c][t] # p
  <2>1. p \notin d[x] /\ d[c] \subseteq d[x]
    BY <1>1, <1>2, KidFacts, Hanging DEF Links
  <2>2. p \in d[p] /\ \A t \in Sides : d[T.kid[c][t]] \subseteq d[c]
    BY <1>3, Hanging DEF Links
  <2>3. QED
    BY <2>1, <2>2
<1>6. x # c /\ p # NULL /\ T.kid[x][s] # c
  BY <1>1, <1>2, <1>3, ConstantsAssumption
<1>7. T.kid[p][o] # c
  BY <1>1, <1>2, <1>3
<1>8. QED
  BY <1>2, <1>3, <1>4, <1>5, <1>6, <1>7, Zenon DEF Around

(* So does each of two rotations, seen on the lengths of the edges.        *)
LEMMA DoubleTurn ==
    ASSUME NEW T, NEW d, Links(T, d), NEW p \in Keys, NEW s \in Sides,
           NEW x, x = T.kid[p][s], x # NULL, NEW c, c = T.kid[x][Other(s)], c # NULL,
           NEW F, SameLinks(F, T), NEW V, SameLinks(V, Rotate(F, x, s)),
           NEW U, SameLinks(U, Rotate(V, p, Other(s)))
    PROVE  /\ \E e : Links(U, e) /\ e[U.root] = d[T.root]
           /\ DoubleKids(T, U, p, s)
           /\ Rotate(V, p, Other(s)).red = V.red
<1> DEFINE o == Other(s)
<1>1. o \in Sides /\ o # s /\ Other(o) = s /\ \A t \in Sides : t = s \/ t = o
  BY SideFacts
<1>2. /\ x \in Keys /\ c \in Keys /\ x # p /\ c # p /\ c # x /\ p # NULL
      /\ \A t \in Sides : T.kid[c][t] # p /\ T.kid[c][t] # x /\ T.kid[c][t] # c
      /\ T.kid[x][s] # p /\ T.kid[x][s] # x /\ T.kid[x][s] # c
      /\ T.kid[p][o] # p /\ T.kid[p][o] # x /\ T.kid[p][o] # c
      /\ \A y \in Keys, t \in Sides : T.kid[y][t] = x => y = p /\ t = s
      /\ \A y \in Keys, t \in Sides : T.kid[y][t] = c => y = x /\ t = o
  <2>1. Around(T, p, s, x, c)
    BY MoreNeighbours, Zenon
  <2>2. QED
    BY <2>1, Zenon DEF Around
<1>3. (\E e : Links(V, e) /\ e[V.root] = d[T.root]) /\ TurnedKids(T, V, x, o)
  <2>1. x \in Keys /\ T.kid[x][o] # NULL
    BY <1>2
  <2>2. SameLinks(V, Rotate(F, x, Other(o)))
    BY <1>1
  <2> HIDE DEF o
  <2>3. QED
    BY <1>1, <2>1, <2>2, Turn, SMTT(40)
<1>4. PICK e : Links(V, e) /\ e[V.root] = d[T.root]
  BY <1>3
<1>5. /\ V.kid[x][o] = T.kid[c][s] /\ V.kid[x][s] = T.kid[x][s]
      /\ V.kid[c][o] = T.kid[c][o] /\ V.kid[c][s] = x
      /\ \A y \in Keys, t \in Sides : y # x /\ y # c =>
            V.kid[y][t] = IF T.kid[y][t] = x THEN c ELSE T.kid[y][t]
  BY <1>1, <1>3, Zenon DEF TurnedKids
<1>6. V.kid[p][s] = c /\ V.kid[p][o] = T.kid[p][o]
  BY <1>1, <1>2, <1>5, Zenon
<1>7. SameLinks(V, V)
  BY <1>4 DEF SameLinks, Links
<1>8. /\ \E f : Links(U, f) /\ f[U.root] = e[V.root]
      /\ TurnedKids(V, U, p, s)
      /\ Rotate(V, p, o).red = V.red
  BY <1>4, <1>6, <1>7, Turn
<1>9. /\ U.kid[p][s] = T.kid[c][o] /\ U.kid[p][o] = T.kid[p][o]
      /\ U.kid[c][s] = x /\ U.kid[c][o] = p
      /\ \A y \in Keys, t \in Sides : y # p /\ y # c =>
            U.kid[y][t] = IF V.kid[y][t] = p THEN c ELSE V.kid[y][t]
  BY <1>5, <1>6, <1>8, Zenon DEF TurnedKids
<1>10. U.kid[x][o] = T.kid[c][s] /\ U.kid[x][s] = T.kid[x][s]
  BY <1>1, <1>2, <1>5, <1>9, Zenon
<1>11. ASSUME NEW y \in Keys, NEW t \in Sides, y # p, y # x, y # c
       PROVE  U.kid[y][t] = IF T.kid[y][t] = p THEN c ELSE T.kid[y][t]
  <2>1. T.kid[y][t] # x
    BY <1>2, <1>11
  <2>2. V.kid[y][t] = T.kid[y][t]
    BY <1>5, <1>11, <2>1
  <2>3. QED
    BY <1>9, <1>11, <2>2
<1>12. DoubleKids(T, U, p, s)
  <2>1. \A y \in Keys, t \in Sides : y # p /\ y # x /\ y # c =>
           U.kid[y][t] = IF T.kid[y][t] = p THEN c ELSE T.kid[y][t]
    BY <1>11
  <2>2. QED
    BY <1>9, <1>10, <2>1, Zenon DEF DoubleKids
<1>13. QED
  BY <1>4, <1>8, <1>12

(* A call that ends with two rotations, after which p and x have rank a    *)
(* and c the rank that p had.                                              *)
DoubleEdges(T, U, r, p, s, a) ==
    LET o == Other(s)
        x == T.kid[p][s]
        c == T.kid[x][o]
    IN  /\ a = r[T.kid[c][o]] + Long(U, p, s)
        /\ a = r[T.kid[p][o]] + Long(U, p, o)
        /\ a = r[T.kid[c][s]] + Long(U, x, o)
        /\ a = r[T.kid[x][s]] + Long(U, x, s)
        /\ r[p] = a + Long(U, c, s)
        /\ r[p] = a + Long(U, c, o)

(* No node but the three has its bits changed.                             *)
Doubled(T, U, p, s) ==
    LET x == T.kid[p][s]
        c == T.kid[x][Other(s)]
    IN  /\ x # NULL /\ c # NULL /\ Typed(U) /\ DoubleKids(T, U, p, s)
        /\ \A y \in Keys : y # p /\ y # x /\ y # c => U.red[y] = T.red[y]
        /\ U.red[p] # Sides /\ U.red[x] # Sides

(* And so does a double rotation.                                          *)
LEMMA DoubleRests ==
    ASSUME NEW T, NEW d, NEW r, NEW p \in Keys, NEW s \in Sides, NEW t0, NEW g \in Int,
           NEW a \in Nat, NEW U,
           Links(T, d), Ranked(r), LeafRule(T, NULL), Balanced(T, r, p, t0, g),
           Doubled(T, U, p, s), DoubleEdges(T, U, r, p, s, a),
           \E e : Links(U, e) /\ e[U.root] = d[T.root]
    PROVE  Rests(U, d, T)
<1> PICK x : x = T.kid[p][s]
  OBVIOUS
<1> PICK c : c = T.kid[x][Other(s)]
  OBVIOUS
<1>0. /\ x # NULL /\ c # NULL /\ Typed(U) /\ DoubleKids(T, U, p, s)
      /\ \A y \in Keys : y # p /\ y # x /\ y # c => U.red[y] = T.red[y]
      /\ U.red[p] # Sides /\ U.red[x] # Sides
  BY DEF Doubled
<1> USE <1>0
<1> DEFINE o == Other(s)
           q == [r EXCEPT ![p] = a, ![x] = a, ![c] = r[p]]
<1>1. o \in Sides /\ o # s /\ Other(o) = s /\ \A t \in Sides : t = s \/ t = o
  BY SideFacts
<1>2. /\ x \in Keys /\ c \in Keys /\ x # p /\ c # p /\ c # x /\ p # NULL
      /\ \A t \in Sides : T.kid[c][t] # p /\ T.kid[c][t] # x /\ T.kid[c][t] # c
      /\ T.kid[x][s] # p /\ T.kid[x][s] # x /\ T.kid[x][s] # c
      /\ T.kid[p][o] # p /\ T.kid[p][o] # x /\ T.kid[p][o] # c
      /\ \A y \in Keys, t \in Sides : T.kid[y][t] = x => y = p /\ t = s
      /\ \A y \in Keys, t \in Sides : T.kid[y][t] = c => y = x /\ t = o
  <2>1. Around(T, p, s, x, c)
    BY MoreNeighbours, Zenon
  <2>2. QED
    BY <2>1, Zenon DEF Around
<1>3. /\ U.kid[p][s] = T.kid[c][o] /\ U.kid[p][o] = T.kid[p][o]
      /\ U.kid[x][o] = T.kid[c][s] /\ U.kid[x][s] = T.kid[x][s]
      /\ U.kid[c][s] = x /\ U.kid[c][o] = p
      /\ \A y \in Keys, t \in Sides : y # p /\ y # x /\ y # c =>
            U.kid[y][t] = IF T.kid[y][t] = p THEN c ELSE T.kid[y][t]
  BY Zenon DEF DoubleKids
<1>4. \A y \in Keys, t \in Sides : T.kid[y][t] \in Pointers
  BY DEF Links, Typed
<1>5. /\ q[p] = a /\ q[x] = a /\ q[c] = r[p]
      /\ \A y \in Pointers : y # p /\ y # x /\ y # c => q[y] = r[y]
      /\ Ranked(q)
  <2>1. p \in Pointers /\ x \in Pointers /\ c \in Pointers
    BY <1>2 DEF Pointers
  <2>2. a \in Int /\ a >= 0 /\ r[p] \in Int /\ r[p] >= 0
    BY <2>1 DEF Ranked
  <2>3. r \in [Pointers -> Int] /\ r[NULL] = -1 /\ \A n \in Keys : r[n] >= 0
    BY DEF Ranked
  <2>4. /\ q[p] = a /\ q[x] = a /\ q[c] = r[p]
        /\ \A y \in Pointers : y # p /\ y # x /\ y # c => q[y] = r[y]
        /\ q \in [Pointers -> Int]
    <3>1. x # p /\ c # p /\ c # x
      BY <1>2
    <3>2. r \in [Pointers -> Int] /\ a \in Int /\ r[p] \in Int
      BY <2>2, <2>3
    <3>3. QED
      BY <2>1, <3>1, <3>2, ZenonT(60)
  <2> HIDE DEF q
  <2>5. q[NULL] = -1 /\ \A n \in Keys : q[n] >= 0
    <3>1. p # NULL /\ x # NULL /\ c # NULL
      BY <1>0, <1>2
    <3>2. /\ q[p] = a /\ q[x] = a /\ q[c] = r[p]
          /\ \A y \in Pointers : y # p /\ y # x /\ y # c => q[y] = r[y]
      BY <2>4
    <3>3. q[NULL] = -1
      BY <2>3, <3>1, <3>2 DEF Pointers
    <3>4. ASSUME NEW n \in Keys
          PROVE  q[n] >= 0
      <4>1. CASE n = p \/ n = x \/ n = c
        BY <2>2, <3>2, <4>1
      <4>2. CASE n # p /\ n # x /\ n # c
        <5>1. q[n] = r[n]
          BY <3>2, <4>2 DEF Pointers
        <5>2. QED
          BY <2>3, <5>1
      <4>3. QED
        BY <4>1, <4>2
    <3>5. QED
      BY <3>3, <3>4
  <2>6. QED
    BY <2>4, <2>5 DEF Ranked
<1>6. /\ a = r[T.kid[c][o]] + Long(U, p, s) /\ a = r[T.kid[p][o]] + Long(U, p, o)
      /\ a = r[T.kid[c][s]] + Long(U, x, o) /\ a = r[T.kid[x][s]] + Long(U, x, s)
      /\ r[p] = a + Long(U, c, s) /\ r[p] = a + Long(U, c, o)
  BY Zenon DEF DoubleEdges
<1>61. x \in Keys /\ c \in Keys /\ x # p /\ c # p /\ c # x /\ p # NULL
  BY <1>2
<1>62. /\ \A y \in Keys, t \in Sides : T.kid[y][t] = x => y = p /\ t = s
       /\ \A y \in Keys, t \in Sides : T.kid[y][t] = c => y = x /\ t = o
  BY <1>2
<1>63. \A y \in Keys, t \in Sides : y # p /\ y # x /\ y # c =>
          U.kid[y][t] = IF T.kid[y][t] = p THEN c ELSE T.kid[y][t]
  BY <1>3
<1>64. \A y \in Pointers : y # p /\ y # x /\ y # c => q[y] = r[y]
  BY <1>5
<1> HIDE DEF q, o
<1>7. ASSUME NEW y \in Keys, NEW t \in Sides
      PROVE  q[y] = q[U.kid[y][t]] + Long(U, y, t)
  <2>1. t = s \/ t = o
    BY <1>1
  <2>2. CASE y = p
    <3>1. q[U.kid[p][s]] = r[T.kid[c][o]]
      <4>1. T.kid[c][o] \in Pointers /\ T.kid[c][o] # p /\ T.kid[c][o] # x /\ T.kid[c][o] # c
        BY <1>1, <1>2, <1>4, Zenon
      <4>2. QED
        BY <1>3, <1>5, <4>1, Zenon
    <3>2. q[U.kid[p][o]] = r[T.kid[p][o]]
      <4>1. T.kid[p][o] \in Pointers
        BY <1>1, <1>4
      <4>2. T.kid[p][o] # p /\ T.kid[p][o] # x /\ T.kid[p][o] # c
        BY <1>2
      <4>3. U.kid[p][o] = T.kid[p][o]
        BY <1>3
      <4>4. QED
        BY <1>64, <4>1, <4>2, <4>3, ZenonT(60)
    <3>3. QED
      BY <1>5, <1>6, <2>1, <2>2, <3>1, <3>2, Zenon
  <2>3. CASE y = x
    <3>1. q[U.kid[x][s]] = r[T.kid[x][s]]
      <4>1. T.kid[x][s] \in Pointers
        BY <1>61, <1>4
      <4>2. T.kid[x][s] # p /\ T.kid[x][s] # x /\ T.kid[x][s] # c
        BY <1>2
      <4>3. U.kid[x][s] = T.kid[x][s]
        BY <1>3
      <4>4. QED
        BY <1>64, <4>1, <4>2, <4>3, ZenonT(60)
    <3>2. q[U.kid[x][o]] = r[T.kid[c][s]]
      <4>1. T.kid[c][s] \in Pointers /\ T.kid[c][s] # p /\ T.kid[c][s] # x /\ T.kid[c][s] # c
        BY <1>2, <1>4, Zenon
      <4>2. QED
        BY <1>3, <1>5, <4>1, Zenon
    <3>3. QED
      BY <1>5, <1>6, <2>1, <2>3, <3>1, <3>2, Zenon
  <2>4. CASE y = c
    <3>1. q[U.kid[c][s]] = a /\ q[U.kid[c][o]] = a
      BY <1>3, <1>5, Zenon
    <3>2. QED
      BY <1>5, <1>6, <2>1, <2>4, <3>1, Zenon
  <2>5. CASE y # p /\ y # x /\ y # c
    <3>0. T.kid[y][t] \in Pointers /\ T.kid[y][t] # x /\ T.kid[y][t] # c
      BY <1>62, <1>4, <2>5
    <3>1. q[U.kid[y][t]] = r[T.kid[y][t]]
      <4>1. CASE T.kid[y][t] = p
        <5>1. q[c] = r[p] /\ U.kid[y][t] = c
          BY <1>5, <1>63, <2>5, <4>1
        <5>2. QED
          BY <4>1, <5>1, ZenonT(60)
      <4>2. CASE T.kid[y][t] # p
        <5>1. U.kid[y][t] = T.kid[y][t]
          BY <1>63, <2>5, <4>2
        <5>2. QED
          BY <1>64, <3>0, <4>2, <5>1, ZenonT(60)
      <4>3. QED
        BY <4>1, <4>2
    <3>2. q[y] = r[y] /\ U.red[y] = T.red[y]
      BY <1>5, <2>5 DEF Pointers
    <3>3. QED
      BY <2>5, <3>1, <3>2, SameEdge DEF Links
  <2>6. QED
    BY <2>2, <2>3, <2>4, <2>5
<1>8. Balanced(U, q, NULL, "left", 0)
  BY <1>5, <1>7, AllBalanced
<1>9. LeafRule(U, NULL)
  <2>1. ASSUME NEW y \in Keys, \A t \in Sides : U.kid[y][t] = NULL
        PROVE  U.red[y] = {}
    <3>1. CASE y = p \/ y = x
      <4>0. U.red[p] # Sides /\ U.red[x] # Sides
        BY <1>0
      <4>1. Long(U, y, s) = Long(U, y, o)
        <5>1. q[y] = q[NULL] + Long(U, y, s) /\ q[y] = q[NULL] + Long(U, y, o)
          BY <1>1, <1>7, <2>1
        <5>2. q[NULL] = -1 /\ Long(U, y, s) \in Int /\ Long(U, y, o) \in Int
          BY <1>5 DEF Ranked, Long
        <5>3. QED
          BY <5>1, <5>2
      <4>2. s \in U.red[y] <=> o \in U.red[y]
        BY <4>1 DEF Long
      <4>3. U.red[y] \subseteq Sides
        BY DEF Typed
      <4>4. U.red[y] # Sides
        BY <3>1, <4>0
      <4>5. \A t \in Sides : t = s \/ t = o
        BY <1>1
      <4>6. (\A t \in Sides : t \in U.red[y]) \/ (\A t \in Sides : t \notin U.red[y])
        BY <4>2, <4>5, Zenon
      <4>7. QED
        BY <4>3, <4>4, <4>6, ZenonT(60)
    <3>2. CASE y # p /\ y # x
      <4>1. y # c
        <5>1. U.kid[c][s] = x /\ x # NULL /\ s \in Sides
          BY <1>0, <1>3
        <5>2. QED
          BY <2>1, <5>1, ZenonT(60)
      <4>2. \A t \in Sides : T.kid[y][t] = NULL
        <5>1. c # NULL
          BY <1>0
        <5>2. QED
          BY <1>63, <2>1, <3>2, <4>1, <5>1, ZenonT(60)
      <4>3. QED
        BY <3>2, <4>1, <4>2, ConstantsAssumption DEF LeafRule
    <3>3. QED
      BY <3>1, <3>2
  <2>2. QED
    BY <2>1 DEF LeafRule
<1>10. QED
  BY <1>5, <1>8, <1>9 DEF Rests

-----------------------------------------------------------------------------
(* Bits are written.                                                       *)
Flipped(T, n, s, U) ==
    /\ SameLinks(U, T)
    /\ U.red[n] = IF s \in T.red[n] THEN T.red[n] \ {s} ELSE T.red[n] \cup {s}
    /\ \A x \in Keys : x # n => U.red[x] = T.red[x]

(* Flip writes one bit of one node.                                        *)
LEMMA FlipIs ==
    ASSUME NEW T, Typed(T), NEW n \in Keys, NEW s \in Sides
    PROVE  Flipped(T, n, s, Flip(T, n, s))
BY DEF Typed, Flip, Flipped, SameLinks

RedSet(T, n, S, U) ==
    /\ SameLinks(U, T)
    /\ U.red[n] = S
    /\ \A x \in Keys : x # n => U.red[x] = T.red[x]

(* SetRed writes both bits of one node.                                    *)
LEMMA SetRedIs ==
    ASSUME NEW T, Typed(T), NEW n \in Keys, NEW S \in SUBSET Sides
    PROVE  RedSet(T, n, S, SetRed(T, n, S))
BY DEF Typed, SetRed, RedSet, SameLinks

(* Where an edge is not longer than its bit says, nothing is.              *)
LEMMA NoEdge ==
    ASSUME NEW T, Typed(T), NEW r, Ranked(r), NEW p, NEW s, NEW g \in Int,
           Balanced(T, r, p, s, g), g = 0 \/ p \notin Keys
    PROVE  Balanced(T, r, NULL, "left", 0)
<1>1. ASSUME NEW y \in Keys, NEW t \in Sides
      PROVE  r[y] = r[T.kid[y][t]] + Long(T, y, t)
  <2>1. ~(y = p /\ t = s) \/ g = 0
    BY <1>1
  <2>2. QED
    BY <2>1, Edge DEF Long
<1>2. QED
  BY <1>1, AllBalanced

(* A call returns.                                                         *)
LEMMA ReturnKeeps ==
    ASSUME NEW d, Return, pc' = "idle", Rests(tree', d, tree)
    PROVE  Kept(d)
<1>1. PICK e, q : /\ Links(tree', e) /\ e[tree'.root] = d[tree.root]
                  /\ Ranked(q) /\ Balanced(tree', q, NULL, "left", 0) /\ LeafRule(tree', NULL)
  BY DEF Rests
<1>2. pc' = "idle" /\ elm' = NULL /\ parent' = NULL
  BY DEF Return
<1>3. Idle(q)'
  BY <1>1, <1>2 DEF Idle
<1>4. TreeInv(e, q)'
  BY <1>1, <1>3 DEF TreeInv, Progress
<1>5. QED
  BY <1>1, <1>4 DEF Kept

(* Only bits change, and the ranks that go with them.                      *)
LEMMA BitsRest ==
    ASSUME NEW T, NEW d, Links(T, d), NEW U, SameLinks(U, T), NEW q, Ranked(q),
           Balanced(U, q, NULL, "left", 0), LeafRule(U, NULL)
    PROVE  Rests(U, d, T)
BY RedLinks DEF Rests, SameLinks

(* A node that has been promoted has not two red edges.                    *)
LEMMA PromotedNotBoth ==
    ASSUME NEW T, NEW n \in Keys, LeafRule(T, NULL), Promoted(T, n)
    PROVE  T.red[n] # Sides
<1>1. n # NULL /\ {} # Sides /\ \A s \in Sides : {Other(s)} # Sides
  BY ConstantsAssumption DEF Sides, Other
<1>2. QED
  BY <1>1 DEF LeafRule, Promoted

(* A rotation leaves a tree of the right type.                             *)
LEMMA TurnTyped ==
    ASSUME NEW T, NEW d, Links(T, d), NEW p \in Keys, NEW s \in Sides, T.kid[p][s] # NULL,
           NEW F, SameLinks(F, T)
    PROVE  Typed(Rotate(F, p, Other(s)))
<1>1. Links(F, d) /\ F.kid = T.kid
  BY RedLinks DEF SameLinks
<1>2. Other(s) \in Sides /\ Other(Other(s)) = s
  BY SideFacts
<1>3. QED
  BY <1>1, <1>2, RotateFields

(* One rotation is enough when elm's outer subtree is the tall one, two    *)
(* are when it is the inner one.                                           *)
LEMMA InsertRotates ==
    ASSUME NEW T, NEW d, NEW r, Links(T, d), Ranked(r), LeafRule(T, NULL), Promoted(T, elm),
           NEW p \in Keys, NEW s \in Sides, T.kid[p][s] = elm, elm # NULL,
           Balanced(T, r, p, s, -1), T.red[p] = {Other(s)},
           NEW F, Flipped(T, p, Other(s), F)
    PROVE  Rests(InsertRotate(F, p, s), d, T)
<1> DEFINE o == Other(s)
           c == T.kid[elm][o]
<1>1. o \in Sides /\ o # s /\ Other(o) = s /\ \A t \in Sides : t = s \/ t = o
  BY SideFacts
<1>2. elm \in Keys /\ elm # p /\ Typed(T)
  <2>1. Adjacent(T, p, s, elm)
    BY Neighbours, Zenon
  <2>2. QED
    BY <2>1 DEF Adjacent, Links
<1>3. /\ SameLinks(F, T) /\ F.red[p] = {} /\ F.kid = T.kid /\ Typed(F)
      /\ \A y \in Keys : y # p => F.red[y] = T.red[y]
  BY DEF Flipped, SameLinks
<1>4. /\ r[p] \in Int /\ r[elm] \in Int /\ r[T.kid[p][o]] \in Int
      /\ r[p] = r[elm] /\ r[p] = r[T.kid[p][o]] + 2 /\ r[T.kid[p][o]] >= -1
  <2>1. s \notin T.red[p] /\ o \in T.red[p]
    BY <1>1
  <2>2. r[p] = r[elm] + 1 + (-1) /\ r[p] \in Int /\ r[elm] \in Int
    BY <1>2, <2>1, Edge
  <2>3. r[p] = r[T.kid[p][o]] + 2 /\ r[T.kid[p][o]] >= -1 /\ r[T.kid[p][o]] \in Int
    BY <1>1, <1>2, <2>1, Edge
  <2>4. QED
    BY <2>2, <2>3
<1>5. PICK a \in Nat : a = r[p] - 1
  BY <1>4
<1>6. \A t \in Sides : /\ r[T.kid[elm][t]] \in Int /\ r[T.kid[elm][t]] >= -1
                       /\ r[elm] = r[T.kid[elm][t]] + IF t \in T.red[elm] THEN 2 ELSE 1
  BY <1>2, Edge
<1>7. CASE o \in T.red[elm]
  <2> DEFINE V == Rotate(F, p, o)
             U == SetRed(V, elm, {})
  <2>1. InsertRotate(F, p, s) = U
    BY <1>2, <1>3, <1>7 DEF InsertRotate
  <2>2. T.red[elm] = {o}
    BY <1>1, <1>2, <1>7, ConstantsAssumption DEF Promoted, LeafRule
  <2>3. Typed(V)
    BY <1>3, TurnTyped
  <2>4. RedSet(V, elm, {}, U)
    BY <1>2, <2>3, SetRedIs
  <2> HIDE DEF V, U
  <2>5. /\ \E e : Links(U, e) /\ e[U.root] = d[T.root]
        /\ TurnedKids(T, U, p, s)
        /\ V.red = F.red
    BY <1>3, <2>4, Turn DEF RedSet, V
  <2>6. /\ Typed(U) /\ U.red[p] = {} /\ U.red[elm] = {}
        /\ \A y \in Keys : y # p /\ y # elm => U.red[y] = T.red[y]
    BY <1>2, <1>3, <2>4, <2>5 DEF RedSet, SameLinks
  <2>7. SingleEdges(T, U, r, p, s, a)
    <3>1. Long(U, p, s) = 1 /\ Long(U, p, o) = 1 /\ Long(U, elm, s) = 1 /\ Long(U, elm, o) = 1
      BY <2>6 DEF Long
    <3>2. /\ r[elm] = r[T.kid[elm][o]] + 2 /\ r[elm] = r[T.kid[elm][s]] + 1
          /\ r[T.kid[elm][o]] \in Int /\ r[T.kid[elm][s]] \in Int
      BY <1>1, <1>6, <2>2
    <3>3. /\ a = r[T.kid[elm][o]] + 1 /\ a = r[T.kid[p][o]] + 1
          /\ r[p] = r[T.kid[elm][s]] + 1 /\ r[p] = a + 1
      <4>1. a = r[T.kid[elm][o]] + 1
        <5>1. r[p] = r[T.kid[elm][o]] + 2 /\ r[T.kid[elm][o]] \in Int
          BY <1>4, <3>2
        <5>2. QED
          BY <1>5, <5>1
      <4>2. a = r[T.kid[p][o]] + 1
        BY <1>4, <1>5, <3>2
      <4>3. r[p] = r[T.kid[elm][s]] + 1
        BY <1>4, <1>5, <3>2
      <4>4. r[p] = a + 1
        BY <1>4, <1>5, <3>2
      <4>5. QED
        BY <4>1, <4>2, <4>3, <4>4
    <3>4. QED
      BY <3>1, <3>3 DEF SingleEdges
  <2>8. U.red[p] # Sides
    BY <2>6 DEF Sides
  <2>9. /\ T.kid[p][s] # NULL
        /\ \A y \in Keys : y # p /\ y # T.kid[p][s] => U.red[y] = T.red[y]
    BY <2>6
  <2>10. Rests(U, d, T)
    <3>1. /\ -1 \in Int /\ Typed(U) /\ TurnedKids(T, U, p, s) /\ SingleEdges(T, U, r, p, s, a)
          /\ \E e : Links(U, e) /\ e[U.root] = d[T.root]
      BY <2>5, <2>6, <2>7
    <3>2. QED
      BY <1>5, <2>8, <2>9, <3>1, SingleRests, Zenon
  <2>11. QED
    BY <2>1, <2>10
<1>8. CASE o \notin T.red[elm]
  <2> DEFINE F2 == Flip(F, elm, s)
             W == Rotate(F2, elm, s)
             V == Settle(W, p, elm, c, s)
             U0 == Rotate(V, p, o)
             U == SetRed(U0, c, {})
  <2>1. InsertRotate(F, p, s) = U
    BY <1>2, <1>3, <1>8 DEF InsertRotate
  <2>2. \E t \in Sides : T.kid[elm][t] # NULL
    <3>1. SUFFICES ASSUME \A t \in Sides : T.kid[elm][t] = NULL
                   PROVE  FALSE
      OBVIOUS
    <3>2. T.red[elm] = {}
      BY <1>2, <3>1, ConstantsAssumption DEF LeafRule
    <3>3. r[elm] = r[NULL] + 1 /\ r[NULL] = -1
      BY <1>6, <3>1, <3>2 DEF Ranked
    <3>4. r[elm] >= 1
      BY <1>4
    <3>5. QED
      BY <3>3, <3>4
  <2>3. T.red[elm] = {s} /\ (c # NULL => T.red[c] # Sides)
    BY <1>1, <1>8, <2>2 DEF Promoted
  <2>4. r[c] = r[elm] - 1 /\ r[c] \in Int
    BY <1>1, <1>6, <1>8
  <2>5. c # NULL /\ c \in Keys /\ r[c] = a
    <3>1. r[c] = a
      BY <1>4, <1>5, <2>4
    <3>2. c \in Pointers /\ r[NULL] = -1
      BY <1>1, <1>2 DEF Typed, Ranked
    <3>3. QED
      BY <1>5, <3>1, <3>2 DEF Pointers
  <2>6. c # p /\ c # elm /\ T.kid[p][s] # NULL
    <3>1. Around(T, p, s, elm, c)
      BY <2>5, MoreNeighbours
    <3>2. QED
      BY <1>2, <3>1, ConstantsAssumption DEF Around
  <2>7. /\ SameLinks(F2, T) /\ F2.red[elm] = {} /\ F2.red[p] = {}
        /\ \A y \in Keys : y # p /\ y # elm => F2.red[y] = T.red[y]
    <3>1. Flipped(F, elm, s, F2)
      BY <1>2, <1>3, FlipIs
    <3> HIDE DEF F2
    <3>2. SameLinks(F2, T)
      BY <1>3, <3>1 DEF Flipped, SameLinks
    <3>3. F.red[elm] = {s}
      BY <1>2, <1>3, <2>3
    <3>4. QED
      BY <1>2, <1>3, <3>1, <3>2, <3>3 DEF Flipped
  <2> HIDE DEF F2
  <2>8. Typed(W)
    BY <1>1, <1>2, <2>5, <2>7, TurnTyped
  <2>9. /\ \E e : Links(W, e) /\ e[W.root] = d[T.root]
        /\ TurnedKids(T, W, elm, o)
        /\ W.red = F2.red
    <3>1. SameLinks(W, W)
      BY <2>8 DEF SameLinks
    <3>2. QED
      BY <1>1, <1>2, <2>5, <2>7, <3>1, Turn
  <2>10. W.kid[p][s] = c
    BY <1>1, <1>2, <2>6, <2>9 DEF TurnedKids
  <2> HIDE DEF W
  <2>11. /\ SameLinks(V, W)
         /\ V.red[elm] = IF s \in T.red[c] THEN {o} ELSE {}
         /\ V.red[p] = IF s \notin T.red[c] /\ o \in T.red[c] THEN {s} ELSE {}
         /\ \A y \in Keys : y # p /\ y # elm => V.red[y] = T.red[y]
    <3>1. W.red[c] = T.red[c] /\ W.red[p] = {} /\ W.red[elm] = {}
      BY <2>5, <2>6, <2>7, <2>9
    <3>2. SameLinks(W, W)
      BY <2>8 DEF SameLinks
    <3>3. CASE s \in T.red[c]
      <4>1. V = Flip(W, elm, o)
        BY <3>1, <3>3 DEF Settle
      <4>2. Flipped(W, elm, o, V)
        BY <1>1, <1>2, <2>8, <4>1, FlipIs
      <4> HIDE DEF V
      <4>3. QED
        <5>1. SameLinks(V, W) /\ V.red[elm] = {o} /\ \A y \in Keys : y # elm => V.red[y] = W.red[y]
          BY <3>1, <4>2 DEF Flipped
        <5>2. V.red[p] = {}
          BY <1>2, <3>1, <5>1
        <5>3. \A y \in Keys : y # p /\ y # elm => V.red[y] = T.red[y]
          BY <2>7, <2>9, <5>1
        <5>4. QED
          BY <3>3, <5>1, <5>2, <5>3
    <3>4. CASE s \notin T.red[c] /\ o \in T.red[c]
      <4>1. V = Flip(W, p, s)
        BY <3>1, <3>4 DEF Settle
      <4>2. Flipped(W, p, s, V)
        BY <1>1, <1>2, <2>8, <4>1, FlipIs
      <4> HIDE DEF V
      <4>3. QED
        BY <1>2, <2>7, <2>9, <3>1, <3>4, <4>2 DEF Flipped
    <3>5. CASE s \notin T.red[c] /\ o \notin T.red[c]
      <4>1. V = W
        BY <3>1, <3>5 DEF Settle
      <4> HIDE DEF V
      <4>2. QED
        BY <2>7, <2>9, <3>1, <3>2, <3>5, <4>1
    <3>6. QED
      BY <3>3, <3>4, <3>5
  <2> HIDE DEF V
  <2>12. Typed(U0)
    BY <2>5, <2>9, <2>10, <2>11, TurnTyped
  <2>13. RedSet(U0, c, {}, U)
    BY <2>5, <2>12, SetRedIs
  <2> HIDE DEF U
  <2>14. /\ \E e : Links(U, e) /\ e[U.root] = d[T.root]
         /\ DoubleKids(T, U, p, s)
         /\ U0.red = V.red
    <3>1. SameLinks(V, Rotate(F2, elm, s)) /\ SameLinks(U, Rotate(V, p, Other(s)))
      BY <2>11, <2>13 DEF RedSet, W
    <3>2. QED
      BY <2>5, <2>7, <3>1, DoubleTurn
  <2> HIDE DEF U0
  <2>15. /\ Typed(U) /\ U.red[c] = {} /\ U.red[p] = V.red[p] /\ U.red[elm] = V.red[elm]
         /\ \A y \in Keys : y # p /\ y # elm /\ y # c => U.red[y] = T.red[y]
    BY <1>2, <2>6, <2>11, <2>13, <2>14 DEF RedSet, SameLinks
  <2>16. U.red[p] # Sides /\ U.red[elm] # Sides
    BY <1>1, <2>11, <2>15
  <2>17. DoubleEdges(T, U, r, p, s, a)
    <3>1. /\ Long(U, p, s) = IF s \notin T.red[c] /\ o \in T.red[c] THEN 2 ELSE 1
          /\ Long(U, p, o) = 1
          /\ Long(U, elm, o) = IF s \in T.red[c] THEN 2 ELSE 1
          /\ Long(U, elm, s) = 1
          /\ Long(U, c, s) = 1 /\ Long(U, c, o) = 1
      BY <1>1, <2>11, <2>15 DEF Long
    <3>2. /\ r[c] = r[T.kid[c][o]] + IF o \in T.red[c] THEN 2 ELSE 1
          /\ r[c] = r[T.kid[c][s]] + IF s \in T.red[c] THEN 2 ELSE 1
          /\ r[T.kid[c][o]] \in Int /\ r[T.kid[c][s]] \in Int
      BY <1>1, <1>2, <2>5, <2>6, Edge
    <3>3. T.red[c] # Sides /\ T.red[c] \subseteq Sides
      BY <1>2, <2>3, <2>5 DEF Typed
    <3>4. ~(s \in T.red[c] /\ o \in T.red[c])
      BY <1>1, <3>3
    <3>5. a = r[T.kid[c][o]] + Long(U, p, s)
      BY <2>5, <3>1, <3>2, <3>4
    <3>6. a = r[T.kid[p][o]] + Long(U, p, o)
      BY <1>4, <1>5, <3>1
    <3>7. a = r[T.kid[c][s]] + Long(U, elm, o)
      BY <2>5, <3>1, <3>2
    <3>8. a = r[T.kid[elm][s]] + Long(U, elm, s)
      <4>1. r[elm] = r[T.kid[elm][s]] + 2 /\ r[T.kid[elm][s]] \in Int
        BY <1>6, <2>3
      <4>2. r[p] = r[T.kid[elm][s]] + 2
        BY <1>4, <4>1
      <4>3. QED
        BY <1>5, <3>1, <4>1, <4>2
    <3>9. r[p] = a + Long(U, c, s) /\ r[p] = a + Long(U, c, o)
      BY <1>4, <1>5, <3>1
    <3>10. QED
      BY <3>5, <3>6, <3>7, <3>8, <3>9 DEF DoubleEdges
  <2>18. Rests(U, d, T)
    <3>1. /\ -1 \in Int /\ Typed(U) /\ DoubleKids(T, U, p, s)
          /\ \E e : Links(U, e) /\ e[U.root] = d[T.root]
          /\ \A y \in Keys : y # p /\ y # elm /\ y # c => U.red[y] = T.red[y]
      BY <2>14, <2>15
    <3>2. Doubled(T, U, p, s)
      BY <2>5, <2>16, <3>1 DEF Doubled
    <3>3. QED
      BY <1>5, <2>17, <3>1, <3>2, DoubleRests
  <2>19. QED
    BY <2>1, <2>18
<1>9. QED
  BY <1>7, <1>8

(* An insertion's rebalancing.                                             *)
LEMMA InsertColorKeeps ==
    ASSUME NEW d, NEW r, TreeInv(d, r), InsertColor
    PROVE  Kept(d)
<1> DEFINE p == tree.up[elm]
           s == SideOf(tree, p, elm)
           o == Other(s)
           F == Flip(tree, p, o)
<1>1. /\ pc = "insert_color" /\ elm \in d[tree.root] /\ parent = NULL
      /\ Links(tree, d) /\ Ranked(r) /\ LeafRule(tree, NULL) /\ Promoted(tree, elm)
      /\ Balanced(tree, r, p, s, -1) /\ Typed(tree)
  BY DEF InsertColor, TreeInv, Progress, Idle, Inserting, Removing, Links
<1>2. elm \in Keys /\ elm # NULL /\ p \in Pointers /\ s \in Sides
  <2>1. elm \in Keys
    BY <1>1 DEF Links, Typed, Grown
  <2>2. QED
    BY <1>1, <2>1, ConstantsAssumption DEF Typed, SideOf, Sides
<1>3. CASE p = NULL
  <2>1. Return /\ tree' = tree
    BY <1>3 DEF InsertColor
  <2>2. Balanced(tree, r, NULL, "left", 0)
    BY <1>1, <1>3, NoEdge, ConstantsAssumption
  <2>3. SameLinks(tree, tree)
    BY <1>1 DEF SameLinks
  <2>4. Rests(tree', d, tree)
    BY <1>1, <2>1, <2>2, <2>3, BitsRest
  <2>5. QED
    BY <2>1, <2>4, ReturnKeeps DEF Return
<1>4. ASSUME p # NULL
      PROVE  /\ p \in Keys /\ p \in d[tree.root] /\ elm # p /\ tree.kid[p][s] = elm
             /\ o \in Sides /\ o # s /\ Other(o) = s /\ \A t \in Sides : t = s \/ t = o
  BY <1>1, <1>2, <1>4, OneParent, Nested, SideFacts DEF Links, Paired, Typed
<1>5. CASE p # NULL /\ s \in tree.red[p]
  <2> DEFINE U == Flip(tree, p, s)
  <2>1. Return /\ tree' = U
    BY <1>5 DEF InsertColor
  <2>2. /\ SameLinks(U, tree)
        /\ U.red[p] = tree.red[p] \ {s}
        /\ \A y \in Keys : y # p => U.red[y] = tree.red[y]
    <3>1. Flipped(tree, p, s, U)
      BY <1>1, <1>2, <1>4, <1>5, FlipIs
    <3>2. QED
      BY <1>5, <3>1 DEF Flipped
  <2> HIDE DEF U, p, s
  <2>3. Typed(U)
    BY <2>2 DEF SameLinks
  <2>4. ASSUME NEW y \in Keys, NEW t \in Sides
        PROVE  r[y] = r[U.kid[y][t]] + Long(U, y, t)
    <3>1. U.kid[y][t] = tree.kid[y][t]
      BY <2>2 DEF SameLinks
    <3>2. t \in U.red[y] <=> t \in tree.red[y] /\ ~(y = p /\ t = s)
      BY <2>2
    <3>3. CASE y = p /\ t = s
      <4>1. r[y] = r[tree.kid[y][t]] + 2 + (-1) /\ r[tree.kid[y][t]] \in Int
        BY <1>1, <1>5, <3>3, Edge
      <4>2. QED
        BY <3>1, <3>2, <3>3, <4>1 DEF Long
    <3>4. CASE ~(y = p /\ t = s)
      <4>1. r[y] = r[tree.kid[y][t]] + IF t \in tree.red[y] THEN 2 ELSE 1
        BY <1>1, <3>4, Edge
      <4>2. QED
        BY <3>1, <3>2, <3>4, <4>1 DEF Long
    <3>5. QED
      BY <3>3, <3>4
  <2>5. Balanced(U, r, NULL, "left", 0)
    BY <1>1, <2>3, <2>4, AllBalanced
  <2>6. LeafRule(U, NULL)
    BY <1>1, <1>2, <1>4, <1>5, <2>2 DEF LeafRule, SameLinks
  <2>7. Rests(U, d, tree)
    BY <1>1, <2>2, <2>5, <2>6, BitsRest
  <2>8. QED
    BY <2>1, <2>7, ReturnKeeps DEF Return
<1>6. CASE p # NULL /\ s \notin tree.red[p] /\ o \in F.red[p]
  <2> DEFINE pp == tree.up[p]
  <2>0. PICK q : q = [r EXCEPT ![p] = r[p] + 1]
    OBVIOUS
  <2>1. /\ tree' = F /\ elm' = p /\ pc' = pc /\ parent' = parent
    BY <1>6 DEF InsertColor
  <2>2. /\ SameLinks(F, tree) /\ F.red[p] = {o} /\ tree.red[p] = {}
        /\ \A y \in Keys : y # p => F.red[y] = tree.red[y]
    <3>0. Flipped(tree, p, o, F)
      BY <1>1, <1>4, <1>6, FlipIs
    <3> HIDE DEF F
    <3>1. /\ SameLinks(F, tree)
          /\ F.red[p] = IF o \in tree.red[p] THEN tree.red[p] \ {o} ELSE tree.red[p] \cup {o}
          /\ \A y \in Keys : y # p => F.red[y] = tree.red[y]
      BY <3>0 DEF Flipped
    <3>2. tree.red[p] \subseteq Sides
      BY <1>1, <1>4, <1>6 DEF Typed
    <3>3. QED
      BY <1>4, <1>6, <3>1, <3>2
  <2>3. /\ r[p] \in Int /\ r[p] >= 0 /\ r[p] = r[elm]
    <3>1. r[p] = r[tree.kid[p][s]] + 1 + (-1) /\ r[p] \in Int /\ r[tree.kid[p][s]] \in Int /\ r[p] >= 0
      BY <1>1, <1>2, <1>4, <1>6, Edge
    <3>2. QED
      BY <1>4, <1>6, <3>1
  <2>4. /\ q[p] = r[p] + 1
        /\ \A y \in Pointers : y # p => q[y] = r[y]
        /\ Ranked(q)
    <3>1. p \in Pointers /\ r[p] + 1 \in Int /\ r[p] + 1 >= 0 /\ p # NULL
      BY <1>2, <1>6, <2>3
    <3>2. r \in [Pointers -> Int] /\ r[NULL] = -1 /\ \A n \in Keys : r[n] >= 0
      BY <1>1 DEF Ranked
    <3>3. q[p] = r[p] + 1 /\ (\A y \in Pointers : y # p => q[y] = r[y]) /\ q \in [Pointers -> Int]
      BY <2>0, <3>1, <3>2
    <3> HIDE DEF p
    <3>4. q[NULL] = -1 /\ \A n \in Keys : q[n] >= 0
      BY <3>1, <3>2, <3>3 DEF Pointers
    <3>5. QED
      BY <3>3, <3>4 DEF Ranked
  <2>5. /\ Links(F, d) /\ F.root = tree.root /\ F.kid = tree.kid /\ F.up = tree.up /\ Typed(F)
    BY <1>1, <2>2, RedLinks DEF SameLinks
  <2> HIDE DEF F, p, s, o
  <2>6. ASSUME NEW y \in Keys, NEW t \in Sides
        PROVE  q[y] = q[F.kid[y][t]] + Long(F, y, t)
                        + IF y = pp /\ t = SideOf(F, pp, p) THEN -1 ELSE 0
    <3>1. F.kid[y][t] = tree.kid[y][t] /\ tree.kid[y][t] \in Pointers
      BY <1>1, <2>5 DEF Typed
    <3>2. ~(y = p /\ t = s) =>
             r[y] = r[tree.kid[y][t]] + (IF t \in tree.red[y] THEN 2 ELSE 1)
               /\ r[tree.kid[y][t]] \in Int /\ r[y] \in Int
      BY <1>1, Edge
    <3>3. CASE y = p
      <4>1. tree.kid[y][t] # p
        BY <1>4, <1>6, <2>5, <3>3, KidFacts, ConstantsAssumption DEF Links
      <4>2. pp # p
        BY <1>1, <1>4, <1>6, OneParent, ConstantsAssumption DEF pp
      <4>3. q[F.kid[y][t]] = r[tree.kid[y][t]] /\ q[y] = r[p] + 1
        BY <2>4, <3>1, <3>3, <4>1
      <4>4. CASE t = s
        <5>1. r[tree.kid[y][t]] = r[p] /\ Long(F, y, t) = 1
          BY <1>4, <1>6, <2>2, <2>3, <3>3, <4>4 DEF Long
        <5>2. QED
          BY <2>3, <3>3, <4>2, <4>3, <5>1
      <4>5. CASE t = o
        <5>1. r[y] = r[tree.kid[y][t]] + 1 /\ r[tree.kid[y][t]] \in Int /\ Long(F, y, t) = 2
          BY <1>4, <1>6, <2>2, <3>2, <3>3, <4>5 DEF Long
        <5>2. QED
          BY <2>3, <3>3, <4>2, <4>3, <5>1
      <4>6. QED
        BY <1>4, <1>6, <4>4, <4>5
    <3>4. CASE y # p
      <4>1. q[y] = r[y] /\ Long(F, y, t) = IF t \in tree.red[y] THEN 2 ELSE 1
        BY <2>2, <2>4, <3>4 DEF Pointers, Long
      <4>2. /\ r[y] = r[tree.kid[y][t]] + (IF t \in tree.red[y] THEN 2 ELSE 1)
            /\ r[tree.kid[y][t]] \in Int
        BY <3>2, <3>4
      <4>3. CASE tree.kid[y][t] = p
        <5>1. y = pp /\ t = SideOf(tree, pp, p)
          <6>1. tree.up[p] # NULL
            BY <1>1, <1>4, <1>6, <4>3, ConstantsAssumption DEF Links, Paired
          <6>2. QED
            BY <1>1, <1>4, <1>6, <4>3, <6>1, OneParent DEF pp
        <5>2. SideOf(tree, pp, p) = SideOf(F, pp, p)
          BY <2>5 DEF SideOf
        <5>3. q[F.kid[y][t]] = r[p] + 1
          BY <2>4, <3>1, <4>3
        <5>4. r[tree.kid[y][t]] = r[p]
          BY <4>3
        <5>5. QED
          BY <2>3, <4>1, <4>2, <5>1, <5>2, <5>3, <5>4
      <4>4. CASE tree.kid[y][t] # p
        <5>1. ~(y = pp /\ t = SideOf(F, pp, p))
          <6>1. SideOf(tree, pp, p) = SideOf(F, pp, p)
            BY <2>5 DEF SideOf
          <6>2. tree.up[p] # NULL => tree.kid[pp][SideOf(tree, pp, p)] = p
            BY <1>1, <1>4, <1>6, OneParent DEF pp
          <6>3. y # NULL
            BY ConstantsAssumption
          <6>4. QED
            BY <4>4, <6>1, <6>2, <6>3 DEF pp
        <5>2. q[F.kid[y][t]] = r[tree.kid[y][t]]
          BY <2>4, <3>1, <4>4
        <5>3. QED
          BY <4>1, <4>2, <5>1, <5>2
      <4>5. QED
        BY <4>3, <4>4
    <3>5. QED
      BY <3>3, <3>4
  <2>7. Balanced(F, q, pp, SideOf(F, pp, p), -1)
    BY <2>6 DEF Balanced
  <2>8. LeafRule(F, NULL)
    BY <1>1, <1>2, <1>4, <1>6, <2>2, <2>5 DEF LeafRule
  <2>9. Promoted(F, p)
    <3>1. F.kid[p][s] = elm /\ F.red[elm] = tree.red[elm] /\ s \in Sides /\ F.red[p] = {Other(s)}
      BY <1>2, <1>4, <1>6, <2>2, <2>5 DEF o
    <3>2. tree.red[elm] # Sides
      BY <1>1, <1>2, PromotedNotBoth
    <3>3. QED
      BY <3>1, <3>2 DEF Promoted
  <2>10. Inserting(q)'
    <3>1. tree'.up[elm'] = pp /\ SideOf(tree', pp, elm') = SideOf(F, pp, p)
      BY <2>1, <2>5 DEF pp
    <3>2. /\ pc' = "insert_color" /\ parent' = NULL
          /\ Balanced(tree', q, tree'.up[elm'], SideOf(tree', tree'.up[elm'], elm'), -1)
          /\ LeafRule(tree', NULL) /\ Promoted(tree', elm')
      BY <1>1, <2>1, <2>7, <2>8, <2>9, <3>1
    <3>3. QED
      BY <3>2 DEF Inserting
  <2>11. TreeInv(d, q)'
    BY <1>4, <1>6, <2>1, <2>4, <2>5, <2>10 DEF TreeInv, Progress
  <2>12. QED
    BY <2>1, <2>5, <2>11 DEF Kept
<1>7. CASE p # NULL /\ s \notin tree.red[p] /\ o \notin F.red[p]
  <2>1. Return /\ tree' = InsertRotate(F, p, s)
    BY <1>7 DEF InsertColor
  <2>2. Flipped(tree, p, o, F)
    BY <1>1, <1>4, <1>7, FlipIs
  <2> HIDE DEF F, p, s, o
  <2>3. tree.red[p] = {o}
    <3>1. o \in tree.red[p]
      BY <1>7, <2>2 DEF Flipped
    <3>2. tree.red[p] \subseteq Sides
      BY <1>1, <1>4, <1>7 DEF Typed
    <3>3. QED
      BY <1>4, <1>7, <3>1, <3>2
  <2>4. Rests(InsertRotate(F, p, s), d, tree)
    <3>1. /\ p \in Keys /\ s \in Sides /\ tree.kid[p][s] = elm /\ elm # NULL
          /\ tree.red[p] = {Other(s)} /\ Flipped(tree, p, Other(s), F)
      BY <1>2, <1>4, <1>7, <2>2, <2>3 DEF o
    <3>2. QED
      BY <1>1, <3>1, InsertRotates
  <2>5. QED
    BY <2>1, <2>4, ReturnKeeps DEF Return
<1>8. QED
  BY <1>3, <1>5, <1>6, <1>7

-----------------------------------------------------------------------------
(* The edge to p, and no other, is longer by g.                            *)
LEMMA ParentEdge ==
    ASSUME NEW T, NEW d, Links(T, d), NEW U, SameLinks(U, T), NEW q, Ranked(q), NEW p \in Keys,
           NEW g \in Int,
           \A y \in Keys, t \in Sides :
              /\ T.kid[y][t] # p => q[y] = q[T.kid[y][t]] + Long(U, y, t)
              /\ T.kid[y][t] = p => q[y] = q[T.kid[y][t]] + Long(U, y, t) + g
    PROVE  Balanced(U, q, T.up[p], SideOf(T, T.up[p], p), g)
<1>1. ASSUME NEW y \in Keys, NEW t \in Sides
      PROVE  q[y] = q[U.kid[y][t]] + Long(U, y, t)
                      + IF y = T.up[p] /\ t = SideOf(T, T.up[p], p) THEN g ELSE 0
  <2>1. U.kid[y][t] = T.kid[y][t]
    BY DEF SameLinks
  <2>2. T.kid[y][t] = p <=> y = T.up[p] /\ t = SideOf(T, T.up[p], p)
    <3>1. T.kid[y][t] = p => T.up[p] # NULL
      BY ConstantsAssumption DEF Links, Paired
    <3>2. y # NULL
      BY ConstantsAssumption
    <3>3. QED
      BY <3>1, <3>2, OneParent
  <2>3. q[T.kid[y][t]] + Long(U, y, t) \in Int
    <3>1. T.kid[y][t] \in Pointers
      BY DEF Links, Typed
    <3>2. QED
      BY <3>1 DEF Ranked, Long
  <2>4. CASE T.kid[y][t] = p
    BY <2>1, <2>2, <2>4
  <2>5. CASE T.kid[y][t] # p
    <3>1. q[y] = q[T.kid[y][t]] + Long(U, y, t)
      BY <2>5
    <3>2. QED
      BY <2>1, <2>2, <2>3, <2>5, <3>1
  <2>6. QED
    BY <2>4, <2>5
<1>2. QED
  BY <1>1 DEF Balanced

(* n's rank has shrunk: the call ends, or goes on one level up.            *)
LEMMA ClimbKeeps ==
    ASSUME NEW d, Links(tree, d), NEW n \in d[tree.root], RemoveClimb(n),
           SameLinks(tree', tree), NEW q, Ranked(q), LeafRule(tree', NULL),
           Balanced(tree', q, tree.up[n], SideOf(tree, tree.up[n], n), 1)
    PROVE  Kept(d)
<1> DEFINE p == tree.up[n]
<1>1. n \in Keys /\ Typed(tree')
  <2>1. d \in [Pointers -> SUBSET Keys] /\ tree.root \in Pointers
    BY DEF Links, Grown, Typed
  <2>2. QED
    BY <2>1 DEF SameLinks
<1>2. CASE p = NULL
  <2>1. Balanced(tree', q, NULL, "left", 0)
    BY <1>1, <1>2, NoEdge, ConstantsAssumption
  <2>2. Rests(tree', d, tree)
    BY <2>1, BitsRest
  <2>3. Return
    BY <1>2 DEF RemoveClimb
  <2>4. QED
    BY <2>2, <2>3, ReturnKeeps DEF Return
<1>3. CASE p # NULL
  <2>1. elm' = n /\ parent' = p /\ pc' = "remove_color"
    BY <1>3 DEF RemoveClimb
  <2>2. PICK s : s = SideOf(tree, p, n)
    OBVIOUS
  <2>3. s \in Sides /\ tree.kid[p][s] = n /\ tree.kid[p][Other(s)] # n
    BY <1>1, <1>3, <2>2, OneParent, SideFacts
  <2>4. Removing(q)'
    <3>1. /\ tree'.kid[parent'][s] = elm' /\ Balanced(tree', q, parent', s, 1)
          /\ pc' = "remove_color" /\ LeafRule(tree', NULL)
          /\ tree'.kid[parent'][Other(s)] # elm'
      BY <2>1, <2>2, <2>3 DEF SameLinks
    <3>2. QED
      BY <2>3, <3>1 DEF Removing
  <2>5. p \in d[tree.root] /\ elm' \in Pointers
    <3>1. n # tree.root
      BY <1>1, <1>3 DEF Links, Paired
    <3>2. tree.root \in Keys
      BY <1>1 DEF Links, Typed, Grown, Pointers
    <3>3. QED
      BY <1>1, <2>1, <3>1, <3>2, Nested DEF Pointers
  <2>6. Links(tree', d) /\ tree'.root = tree.root
    BY RedLinks DEF SameLinks
  <2>7. TreeInv(d, q)'
    BY <2>1, <2>4, <2>5, <2>6 DEF TreeInv, Progress
  <2>8. QED
    BY <2>6, <2>7 DEF Kept
<1>4. QED
  BY <1>2, <1>3

(* One rank is changed.                                                    *)
LEMMA RankSet ==
    ASSUME NEW r, Ranked(r), NEW n \in Keys, NEW v \in Nat
    PROVE  \E q : Ranked(q) /\ q[n] = v /\ \A y \in Pointers : y # n => q[y] = r[y]
<1> DEFINE q == [r EXCEPT ![n] = v]
<1>1. n \in Pointers /\ NULL \in Pointers /\ n # NULL /\ v \in Int /\ v >= 0
  BY ConstantsAssumption DEF Pointers
<1>2. q \in [Pointers -> Int] /\ q[n] = v /\ \A y \in Pointers : y # n => q[y] = r[y]
  BY <1>1 DEF Ranked
<1> HIDE DEF q
<1>3. Ranked(q)
  BY <1>1, <1>2 DEF Ranked, Pointers
<1>4. QED
  BY <1>2, <1>3

(* A removal's first look at the parent.                                   *)
LEMMA RemoveLeafKeeps ==
    ASSUME NEW d, NEW r, TreeInv(d, r), RemoveLeaf
    PROVE  Kept(d)
<1>1. /\ pc = "remove_leaf" /\ Removing(r) /\ parent \in d[tree.root] /\ elm \in Pointers
      /\ Links(tree, d) /\ Ranked(r) /\ Typed(tree)
  BY DEF RemoveLeaf, TreeInv, Progress, Idle, Inserting, Links
<1>2. parent \in Keys /\ parent # NULL
  BY <1>1, ConstantsAssumption DEF Links, Grown, Typed
<1>3. PICK s \in Sides : /\ tree.kid[parent][s] = elm /\ Balanced(tree, r, parent, s, 1)
                         /\ LeafRule(tree, parent)
  BY <1>1 DEF Removing
<1> DEFINE o == Other(s)
<1>4. o \in Sides /\ o # s /\ Other(o) = s /\ \A t \in Sides : t = s \/ t = o
  BY SideFacts
<1>5. CASE \A t \in Sides : tree.kid[parent][t] = elm
  <2> DEFINE U == SetRed(tree, parent, {})
  <2>1. tree' = U /\ RemoveClimb(parent)
    <3>1. ~(\E t \in Sides : tree.kid[parent][t] # elm)
      BY <1>5
    <3>2. QED
      BY <1>1, <3>1 DEF RemoveLeaf
  <2>2. elm = NULL
    <3>1. elm # NULL => elm \in Keys /\ elm \in d[elm]
      BY <1>1, Hanging DEF Links, Pointers
    <3>2. ~(elm \in d[tree.kid[parent][s]] /\ elm \in d[tree.kid[parent][Other(s)]])
      BY <1>1, <1>2, Apart DEF Links
    <3>3. QED
      BY <1>3, <1>4, <1>5, <3>1, <3>2
  <2>3. r[parent] = 1
    <3>1. r[NULL] = -1
      BY <1>1 DEF Ranked
    <3>2. tree.kid[parent][s] = NULL /\ tree.kid[parent][o] = NULL
      BY <1>4, <1>5, <2>2
    <3>3. r[parent] = -1 + (IF s \in tree.red[parent] THEN 2 ELSE 1) + 1
      <4>1. /\ s \in tree.red[parent] => r[parent] = r[tree.kid[parent][s]] + 2 + 1
            /\ s \notin tree.red[parent] => r[parent] = r[tree.kid[parent][s]] + 1 + 1
        BY <1>1, <1>2, <1>3, Edge
      <4>2. QED
        BY <3>1, <3>2, <4>1
    <3>4. r[parent] = -1 + (IF o \in tree.red[parent] THEN 2 ELSE 1)
      <4>1. r[parent] = r[tree.kid[parent][o]] + IF o \in tree.red[parent] THEN 2 ELSE 1
        BY <1>1, <1>2, <1>3, <1>4, Edge
      <4>2. QED
        BY <3>1, <3>2, <4>1
    <3>5. QED
      BY <3>3, <3>4
  <2>4. PICK q : Ranked(q) /\ q[parent] = 0 /\ \A y \in Pointers : y # parent => q[y] = r[y]
    BY <1>1, <1>2, RankSet
  <2>5. RedSet(tree, parent, {}, U)
    BY <1>1, <1>2, SetRedIs
  <2> HIDE DEF U
  <2>6. /\ SameLinks(U, tree) /\ U.red[parent] = {} /\ U.kid = tree.kid
        /\ \A y \in Keys : y # parent => U.red[y] = tree.red[y]
    BY <2>5 DEF RedSet, SameLinks
  <2>7. ASSUME NEW y \in Keys, NEW t \in Sides
        PROVE  /\ tree.kid[y][t] # parent => q[y] = q[tree.kid[y][t]] + Long(U, y, t)
               /\ tree.kid[y][t] = parent => q[y] = q[tree.kid[y][t]] + Long(U, y, t) + 1
    <3>1. CASE y = parent
      <4>1. tree.kid[y][t] = NULL /\ q[NULL] = -1 /\ Long(U, y, t) = 1
        BY <1>5, <2>2, <2>4, <2>6, <3>1 DEF Ranked, Long
      <4>2. QED
        BY <1>2, <2>4, <3>1, <4>1
    <3>2. CASE y # parent
      <4>1. /\ r[y] = r[tree.kid[y][t]] + Long(U, y, t) /\ r[tree.kid[y][t]] \in Int
            /\ q[y] = r[y] /\ Long(U, y, t) \in Int
        BY <1>1, <1>3, <2>4, <2>6, <3>2, Edge DEF Long, Pointers
      <4>2. tree.kid[y][t] # parent => q[tree.kid[y][t]] = r[tree.kid[y][t]]
        BY <1>1, <2>4 DEF Typed
      <4>3. CASE tree.kid[y][t] = parent
        <5>1. r[tree.kid[y][t]] = 1 /\ q[tree.kid[y][t]] = 0
          BY <2>3, <2>4, <4>3
        <5>2. QED
          BY <4>1, <4>3, <5>1
      <4>4. QED
        BY <4>1, <4>2, <4>3
    <3>3. QED
      BY <3>1, <3>2
  <2>8. Balanced(U, q, tree.up[parent], SideOf(tree, tree.up[parent], parent), 1)
    <3>1. 1 \in Int
      OBVIOUS
    <3>2. QED
      BY <1>1, <1>2, <2>4, <2>6, <2>7, <3>1, ParentEdge
  <2>9. LeafRule(U, NULL)
    BY <1>3, <2>6 DEF LeafRule
  <2>10. QED
    BY <1>1, <2>1, <2>4, <2>6, <2>8, <2>9, ClimbKeeps
<1>6. CASE \E t \in Sides : tree.kid[parent][t] # elm
  <2>1. pc' = "remove_color" /\ tree' = tree /\ elm' = elm /\ parent' = parent
    BY <1>6 DEF RemoveLeaf
  <2>2. tree.kid[parent][o] # elm
    BY <1>3, <1>4, <1>6
  <2>3. LeafRule(tree, NULL)
    <3>1. \E t \in Sides : tree.kid[parent][t] # NULL
      BY <1>3, <1>4, <2>2
    <3>2. QED
      BY <1>3, <3>1 DEF LeafRule
  <2>4. Removing(r)'
    BY <1>3, <2>1, <2>2, <2>3 DEF Removing
  <2>5. TreeInv(d, r)'
    BY <1>1, <2>1, <2>4 DEF TreeInv, Progress
  <2>6. QED
    BY <2>1, <2>5 DEF Kept
<1>7. QED
  BY <1>5, <1>6

(* The end of a removal: parent is too short on side s, and its other      *)
(* child can not be made shorter, so one or two rotations even it out.     *)
LEMMA RemoveRotates ==
    ASSUME NEW d, NEW r, Links(tree, d), Ranked(r), LeafRule(tree, NULL), parent \in Keys,
           NEW s \in Sides, Balanced(tree, r, parent, s, 1), tree.red[parent] = {s},
           tree.red[tree.kid[parent][Other(s)]] # Sides
    PROVE  Rests(RemoveRotate(s), d, tree)
<1> DEFINE o == Other(s)
           p == parent
           sib == tree.kid[p][o]
           low == tree.kid[p][s]
           c == tree.kid[sib][s]
           T == Flip(tree, sib, o)
<1>1. o \in Sides /\ o # s /\ Other(o) = s /\ \A t \in Sides : t = s \/ t = o
  BY SideFacts
<1>2. Typed(tree) /\ p \in Keys /\ p # NULL
  BY ConstantsAssumption DEF Links
<1>3. /\ r[p] \in Int /\ r[low] \in Int /\ r[sib] \in Int /\ r[low] >= -1
      /\ r[p] = r[low] + 3 /\ r[p] = r[sib] + 1
  <2>1. r[p] \in Int /\ r[low] \in Int /\ r[low] >= -1 /\ r[p] = r[low] + 2 + 1
    BY <1>2, Edge
  <2>2. r[sib] \in Int /\ r[p] = r[sib] + 1
    BY <1>1, <1>2, Edge
  <2>3. QED
    BY <2>1, <2>2
<1>4. sib # NULL /\ sib \in Keys /\ sib # p
  <2>1. r[sib] >= 1
    BY <1>3
  <2>2. sib # NULL
    BY <2>1 DEF Ranked
  <2>3. QED
    <3>1. Adjacent(tree, p, o, sib)
      BY <1>1, <1>2, <2>2, Neighbours DEF sib
    <3>2. QED
      BY <2>2, <3>1 DEF Adjacent
<1>5. \A t \in Sides : /\ r[tree.kid[sib][t]] \in Int
                       /\ t \in tree.red[sib] => r[tree.kid[sib][t]] = r[p] - 3
                       /\ t \notin tree.red[sib] => r[tree.kid[sib][t]] = r[p] - 2
  <2>1. ASSUME NEW t \in Sides
        PROVE  /\ r[tree.kid[sib][t]] \in Int
               /\ t \in tree.red[sib] => r[tree.kid[sib][t]] = r[p] - 3
               /\ t \notin tree.red[sib] => r[tree.kid[sib][t]] = r[p] - 2
    <3>1. /\ r[tree.kid[sib][t]] \in Int
          /\ t \in tree.red[sib] => r[sib] = r[tree.kid[sib][t]] + 2
          /\ t \notin tree.red[sib] => r[sib] = r[tree.kid[sib][t]] + 1
      BY <1>2, <1>4, Edge
    <3>2. QED
      BY <1>3, <3>1
  <2>2. QED
    BY <2>1
<1>6. tree.red[sib] \subseteq Sides /\ tree.red[sib] # Sides
  BY <1>2, <1>4 DEF Typed
<1>7. Flipped(tree, sib, o, T)
  BY <1>1, <1>2, <1>4, FlipIs
<1> HIDE DEF T, p, o, sib, c, low
<1>8. /\ SameLinks(T, tree) /\ Typed(T) /\ T.kid = tree.kid
      /\ T.red[p] = {s}
      /\ T.red[sib] = IF o \in tree.red[sib] THEN tree.red[sib] \ {o} ELSE tree.red[sib] \cup {o}
      /\ \A y \in Keys : y # sib => T.red[y] = tree.red[y]
  BY <1>2, <1>4, <1>7 DEF Flipped, SameLinks, p
<1>9. CASE s \in T.red[sib]
  <2> DEFINE F == Flip(T, p, s)
             U == Rotate(F, p, s)
  <2>1. RemoveRotate(s) = U
    BY <1>9 DEF RemoveRotate, T, p, sib, o
  <2>2. tree.red[sib] = {s} /\ T.red[sib] = Sides
    BY <1>1, <1>6, <1>8, <1>9
  <2>3. Flipped(T, p, s, F)
    BY <1>2, <1>8, FlipIs
  <2> HIDE DEF F
  <2>4. /\ SameLinks(F, tree) /\ F.red[p] = {} /\ F.red[sib] = Sides
        /\ \A y \in Keys : y # p /\ y # sib => F.red[y] = tree.red[y]
    BY <1>4, <1>8, <2>2, <2>3 DEF Flipped, SameLinks
  <2>5. Typed(U)
    BY <1>1, <1>2, <1>4, <2>4, TurnTyped DEF sib
  <2>6. /\ \E e : Links(U, e) /\ e[U.root] = d[tree.root]
        /\ TurnedKids(tree, U, p, o)
        /\ U.red = F.red
    <3>1. SameLinks(U, U)
      BY <2>5 DEF SameLinks
    <3>2. tree.kid[p][o] # NULL
      BY <1>4 DEF sib
    <3>3. QED
      BY <1>1, <1>2, <2>4, <3>1, <3>2, Turn
  <2> HIDE DEF U
  <2>7. PICK a \in Nat : a = r[p] - 2
    BY <1>3
  <2>8. SingleEdges(tree, U, r, p, o, a)
    <3>1. Long(U, p, s) = 1 /\ Long(U, p, o) = 1 /\ Long(U, sib, s) = 2 /\ Long(U, sib, o) = 2
      BY <1>1, <2>4, <2>6 DEF Long
    <3>2. /\ r[tree.kid[sib][s]] = r[p] - 3 /\ r[tree.kid[sib][o]] = r[p] - 2
      BY <1>1, <1>5, <2>2
    <3>3. a = r[tree.kid[sib][s]] + 1 /\ a = r[tree.kid[p][s]] + 1
      BY <1>3, <2>7, <3>2 DEF low
    <3>4. r[p] = r[tree.kid[sib][o]] + 2 /\ r[p] = a + 2
      BY <1>3, <2>7, <3>2
    <3>5. QED
      BY <1>1, <3>1, <3>3, <3>4 DEF SingleEdges, sib
  <2>9. /\ U.red[p] # Sides /\ tree.kid[p][o] # NULL
        /\ \A y \in Keys : y # p /\ y # tree.kid[p][o] => U.red[y] = tree.red[y]
    BY <1>1, <1>4, <2>4, <2>6 DEF sib
  <2>10. Rests(U, d, tree)
    <3>1. Balanced(tree, r, p, s, 1) /\ 1 \in Int
      BY DEF p
    <3>2. p \in Keys /\ o \in Sides
      BY <1>1, <1>2
    <3>3. Links(tree, d) /\ Ranked(r) /\ LeafRule(tree, NULL)
      BY <1>2
    <3>4. QED
      BY <2>5, <2>6, <2>7, <2>8, <2>9, <3>1, <3>2, <3>3, SingleRests, ZenonT(60)
  <2>11. QED
    BY <2>1, <2>10
<1>10. CASE s \notin T.red[sib] /\ o \in T.red[sib]
  <2> DEFINE U == Rotate(T, p, s)
  <2>1. RemoveRotate(s) = U
    BY <1>10 DEF RemoveRotate, T, p, sib, o
  <2>2. tree.red[sib] = {} /\ T.red[sib] = {o}
    BY <1>1, <1>6, <1>8, <1>10
  <2>3. Typed(U)
    BY <1>1, <1>2, <1>4, <1>8, TurnTyped DEF sib
  <2>4. /\ \E e : Links(U, e) /\ e[U.root] = d[tree.root]
        /\ TurnedKids(tree, U, p, o)
        /\ U.red = T.red
    <3>1. SameLinks(U, U)
      BY <2>3 DEF SameLinks
    <3>2. tree.kid[p][o] # NULL
      BY <1>4 DEF sib
    <3>3. QED
      BY <1>1, <1>2, <1>8, <3>1, <3>2, Turn
  <2> HIDE DEF U
  <2>5. PICK a \in Nat : a = r[p] - 1
    BY <1>3
  <2>6. SingleEdges(tree, U, r, p, o, a)
    <3>1. Long(U, p, s) = 2 /\ Long(U, p, o) = 1 /\ Long(U, sib, s) = 1 /\ Long(U, sib, o) = 2
      BY <1>1, <1>8, <2>2, <2>4 DEF Long
    <3>2. /\ r[tree.kid[sib][s]] = r[p] - 2 /\ r[tree.kid[sib][o]] = r[p] - 2
      BY <1>1, <1>5, <2>2
    <3>3. a = r[tree.kid[sib][s]] + 1 /\ a = r[tree.kid[p][s]] + 2
      BY <1>3, <2>5, <3>2 DEF low
    <3>4. r[p] = r[tree.kid[sib][o]] + 2 /\ r[p] = a + 1
      BY <1>3, <2>5, <3>2
    <3>5. QED
      BY <1>1, <3>1, <3>3, <3>4 DEF SingleEdges, sib
  <2>7. /\ U.red[p] # Sides /\ tree.kid[p][o] # NULL
        /\ \A y \in Keys : y # p /\ y # tree.kid[p][o] => U.red[y] = tree.red[y]
    BY <1>1, <1>4, <1>8, <2>4 DEF sib
  <2>8. Rests(U, d, tree)
    <3>1. Balanced(tree, r, p, s, 1) /\ 1 \in Int
      BY DEF p
    <3>2. p \in Keys /\ o \in Sides
      BY <1>1, <1>2
    <3>3. Links(tree, d) /\ Ranked(r) /\ LeafRule(tree, NULL)
      BY <1>2
    <3>4. QED
      BY <2>3, <2>4, <2>5, <2>6, <2>7, <3>1, <3>2, <3>3, SingleRests, ZenonT(60)
  <2>9. QED
    BY <2>1, <2>8
<1>11. CASE s \notin T.red[sib] /\ o \notin T.red[sib]
  <2> DEFINE F == Flip(T, p, s)
             W == Rotate(F, sib, o)
             V1 == IF o \in W.red[c] THEN Flip(W, sib, s) ELSE W
             V2 == IF s \in W.red[c] THEN Flip(V1, p, o) ELSE V1
             V == SetRed(V2, c, Sides)
             U == Rotate(V, p, s)
  <2>1. RemoveRotate(s) = U
    BY <1>11 DEF RemoveRotate, T, p, sib, o, c
  <2>2. tree.red[sib] = {o} /\ T.red[sib] = {}
    BY <1>1, <1>6, <1>8, <1>11
  <2>3. /\ r[c] \in Int /\ r[c] = r[p] - 2 /\ r[tree.kid[sib][o]] = r[p] - 3
        /\ r[tree.kid[sib][o]] \in Int
    BY <1>1, <1>5, <2>2 DEF c
  <2>4. c # NULL /\ c \in Keys
    <3>1. r[c] >= 0
      BY <1>3, <2>3
    <3>2. c \in Pointers /\ r[NULL] = -1
      BY <1>2, <1>4 DEF Typed, Ranked, c
    <3>3. QED
      BY <3>1, <3>2 DEF Pointers
  <2>5. c # p /\ c # sib
    <3>1. c = tree.kid[sib][Other(o)] /\ sib = tree.kid[p][o]
      BY <1>1 DEF c, sib
    <3>2. Around(tree, p, o, sib, c)
      BY <1>1, <1>2, <1>4, <2>4, <3>1, MoreNeighbours
    <3>3. QED
      BY <3>2 DEF Around
  <2>6. Flipped(T, p, s, F)
    BY <1>2, <1>8, FlipIs
  <2> HIDE DEF F
  <2>7. /\ SameLinks(F, tree) /\ F.red[p] = {} /\ F.red[sib] = {}
        /\ \A y \in Keys : y # p /\ y # sib => F.red[y] = tree.red[y]
    BY <1>4, <1>8, <2>2, <2>6 DEF Flipped, SameLinks
  <2>8. Typed(W)
    BY <1>4, <2>4, <2>7, TurnTyped DEF c, o
  <2>9. SameLinks(W, W)
    BY <2>8 DEF SameLinks
  <2>10. /\ \E e : Links(W, e) /\ e[W.root] = d[tree.root]
         /\ TurnedKids(tree, W, sib, s)
         /\ W.red = F.red
    BY <1>4, <2>4, <2>7, <2>9, Turn DEF c, o
  <2>11. W.kid[p][o] = c
    <3>1. \A y \in Keys, t \in Sides : y # sib /\ y # c =>
             W.kid[y][t] = IF tree.kid[y][t] = sib THEN c ELSE tree.kid[y][t]
      BY <2>10 DEF TurnedKids, c
    <3>2. QED
      BY <1>1, <1>2, <1>4, <2>5, <3>1 DEF sib
  <2> HIDE DEF W
  <2>12. W.red[c] = tree.red[c] /\ W.red[p] = {} /\ W.red[sib] = {}
    BY <2>4, <2>5, <2>7, <2>10
  <2>13. /\ SameLinks(V1, W)
         /\ V1.red[sib] = IF o \in tree.red[c] THEN {s} ELSE {}
         /\ V1.red[p] = {}
         /\ \A y \in Keys : y # p /\ y # sib => V1.red[y] = tree.red[y]
    <3>1. CASE o \in W.red[c]
      <4>1. Flipped(W, sib, s, V1)
        BY <1>4, <2>8, <3>1, FlipIs
      <4> HIDE DEF V1
      <4>2. SameLinks(V1, W) /\ V1.red[sib] = {s} /\ \A y \in Keys : y # sib => V1.red[y] = W.red[y]
        BY <2>12, <4>1 DEF Flipped
      <4>3. V1.red[p] = {}
        BY <1>2, <1>4, <2>12, <4>2
      <4>4. \A y \in Keys : y # p /\ y # sib => V1.red[y] = tree.red[y]
        BY <2>7, <2>10, <4>2
      <4>5. QED
        BY <2>12, <3>1, <4>2, <4>3, <4>4
    <3>2. CASE o \notin W.red[c]
      <4>1. V1 = W
        BY <3>2
      <4> HIDE DEF V1
      <4>2. QED
        BY <2>7, <2>9, <2>10, <2>12, <3>2, <4>1
    <3>3. QED
      BY <3>1, <3>2
  <2> HIDE DEF V1
  <2>14. Typed(V1)
    BY <2>13 DEF SameLinks
  <2>15. /\ SameLinks(V2, W)
         /\ V2.red[sib] = V1.red[sib]
         /\ V2.red[p] = IF s \in tree.red[c] THEN {o} ELSE {}
         /\ \A y \in Keys : y # p /\ y # sib => V2.red[y] = tree.red[y]
    <3>1. CASE s \in W.red[c]
      <4>1. Flipped(V1, p, o, V2)
        BY <1>1, <1>2, <2>14, <3>1, FlipIs
      <4> HIDE DEF V2
      <4>2. SameLinks(V2, V1) /\ V2.red[p] = {o} /\ \A y \in Keys : y # p => V2.red[y] = V1.red[y]
        BY <2>13, <4>1 DEF Flipped
      <4>3. SameLinks(V2, W)
        BY <2>13, <4>2 DEF SameLinks
      <4>4. V2.red[sib] = V1.red[sib]
        BY <1>4, <4>2
      <4>5. \A y \in Keys : y # p /\ y # sib => V2.red[y] = tree.red[y]
        BY <2>13, <4>2
      <4>6. QED
        BY <2>12, <3>1, <4>2, <4>3, <4>4, <4>5
    <3>2. CASE s \notin W.red[c]
      <4>1. V2 = V1
        BY <3>2
      <4> HIDE DEF V2
      <4>2. QED
        BY <2>12, <2>13, <3>2, <4>1
    <3>3. QED
      BY <3>1, <3>2
  <2> HIDE DEF V2
  <2>16. Typed(V2)
    BY <2>15 DEF SameLinks
  <2>17. RedSet(V2, c, Sides, V)
    BY <2>4, <2>16, SetRedIs
  <2> HIDE DEF V
  <2>18. /\ SameLinks(V, W) /\ V.red[c] = Sides
         /\ V.red[p] = IF s \in tree.red[c] THEN {o} ELSE {}
         /\ V.red[sib] = IF o \in tree.red[c] THEN {s} ELSE {}
         /\ \A y \in Keys : y # p /\ y # sib /\ y # c => V.red[y] = tree.red[y]
    <3>1. SameLinks(V, V2) /\ V.red[c] = Sides /\ \A y \in Keys : y # c => V.red[y] = V2.red[y]
      BY <2>17 DEF RedSet
    <3>2. SameLinks(V, W)
      BY <2>15, <3>1 DEF SameLinks
    <3>3. V.red[p] = V2.red[p] /\ V.red[sib] = V2.red[sib]
      BY <1>2, <1>4, <2>5, <3>1
    <3>4. \A y \in Keys : y # p /\ y # sib /\ y # c => V.red[y] = tree.red[y]
      BY <2>15, <3>1
    <3>5. QED
      BY <2>13, <2>15, <3>1, <3>2, <3>3, <3>4
  <2>19. Typed(U)
    BY <1>1, <1>2, <2>4, <2>10, <2>11, <2>18, TurnTyped
  <2>20. SameLinks(U, U)
    BY <2>19 DEF SameLinks
  <2>21. /\ \E e : Links(U, e) /\ e[U.root] = d[tree.root]
         /\ DoubleKids(tree, U, p, o)
         /\ U.red = V.red
    <3>1. SameLinks(V, Rotate(F, sib, o)) /\ SameLinks(U, Rotate(V, p, Other(o)))
      BY <1>1, <2>18, <2>20 DEF W
    <3>2. sib = tree.kid[p][o] /\ c = tree.kid[sib][Other(o)]
      BY <1>1 DEF sib, c
    <3>3. QED
      BY <1>1, <1>2, <1>4, <2>4, <2>7, <3>1, <3>2, DoubleTurn
  <2> HIDE DEF U
  <2>22. PICK a \in Nat : a = r[p] - 2
    BY <1>3
  <2>23. DoubleEdges(tree, U, r, p, o, a)
    <3>1. /\ Long(U, p, o) = IF s \in tree.red[c] THEN 2 ELSE 1
          /\ Long(U, p, s) = 1
          /\ Long(U, sib, s) = IF o \in tree.red[c] THEN 2 ELSE 1
          /\ Long(U, sib, o) = 1
          /\ Long(U, c, s) = 2 /\ Long(U, c, o) = 2
      BY <1>1, <2>18, <2>21 DEF Long
    <3>2. /\ r[c] = r[tree.kid[c][o]] + IF o \in tree.red[c] THEN 2 ELSE 1
          /\ r[c] = r[tree.kid[c][s]] + IF s \in tree.red[c] THEN 2 ELSE 1
          /\ r[tree.kid[c][o]] \in Int /\ r[tree.kid[c][s]] \in Int
      BY <1>1, <1>2, <2>4, <2>5, Edge DEF p
    <3>3. r[c] = a
      BY <2>3, <2>22
    <3>4. a = r[tree.kid[c][s]] + Long(U, p, o)
      BY <3>1, <3>2, <3>3
    <3>5. a = r[tree.kid[p][s]] + Long(U, p, s)
      <4>1. a = r[low] + 1
        BY <1>3, <2>22
      <4>2. QED
        BY <3>1, <4>1 DEF low
    <3>6. a = r[tree.kid[c][o]] + Long(U, sib, s)
      BY <3>1, <3>2, <3>3
    <3>7. a = r[tree.kid[sib][o]] + Long(U, sib, o)
      <4>1. a = r[tree.kid[sib][o]] + 1
        BY <1>3, <2>3, <2>22
      <4>2. QED
        BY <3>1, <4>1
    <3>8. r[p] = a + Long(U, c, s) /\ r[p] = a + Long(U, c, o)
      BY <1>3, <2>22, <3>1
    <3>9. QED
      BY <1>1, <3>4, <3>5, <3>6, <3>7, <3>8, Zenon DEF DoubleEdges, sib, c
  <2>24. Doubled(tree, U, p, o)
    <3>1. U.red[p] # Sides /\ U.red[sib] # Sides
      BY <1>1, <2>18, <2>21
    <3>2. \A y \in Keys : y # p /\ y # sib /\ y # c => U.red[y] = tree.red[y]
      BY <2>18, <2>21
    <3>3. QED
      BY <1>1, <1>4, <2>4, <2>19, <2>21, <3>1, <3>2 DEF Doubled, sib, c
  <2>25. Rests(U, d, tree)
    <3>1. Balanced(tree, r, p, s, 1) /\ 1 \in Int
      BY DEF p
    <3>2. QED
      BY <1>1, <1>2, <2>21, <2>22, <2>23, <2>24, <3>1, DoubleRests
  <2>26. QED
    BY <2>1, <2>25
<1>12. QED
  BY <1>9, <1>10, <1>11

(* One pass of the loop up the tree.                                       *)
LEMMA RemoveColorKeeps ==
    ASSUME NEW d, NEW r, TreeInv(d, r), RemoveColor
    PROVE  Kept(d)
<1> DEFINE s == SideOf(tree, parent, elm)
           o == Other(s)
           sib == tree.kid[parent][o]
<1>1. /\ pc = "remove_color" /\ Removing(r) /\ parent \in d[tree.root] /\ elm \in Pointers
      /\ Links(tree, d) /\ Ranked(r) /\ Typed(tree)
  BY DEF RemoveColor, TreeInv, Progress, Idle, Inserting, Links
<1>2. parent \in Keys /\ parent # NULL
  BY <1>1, ConstantsAssumption DEF Links, Grown, Typed
<1>3. /\ s \in Sides /\ tree.kid[parent][s] = elm /\ Balanced(tree, r, parent, s, 1)
      /\ LeafRule(tree, NULL) /\ sib # elm
  <2>1. PICK t \in Sides : /\ tree.kid[parent][t] = elm /\ Balanced(tree, r, parent, t, 1)
                           /\ LeafRule(tree, NULL) /\ tree.kid[parent][Other(t)] # elm
    BY <1>1 DEF Removing
  <2>2. s = t
    BY <2>1 DEF SideOf, Sides, Other
  <2>3. QED
    BY <2>1, <2>2
<1>4. o \in Sides /\ o # s /\ Other(o) = s /\ \A t \in Sides : t = s \/ t = o
  BY <1>3, SideFacts
<1>5. \E t \in Sides : tree.kid[parent][t] # NULL
  BY <1>3, <1>4
<1>6. /\ r[parent] \in Int /\ r[elm] \in Int /\ r[sib] \in Int /\ r[elm] >= -1
      /\ r[parent] = r[elm] + 1 + (IF s \in tree.red[parent] THEN 2 ELSE 1)
      /\ r[parent] = r[sib] + (IF o \in tree.red[parent] THEN 2 ELSE 1)
  <2>1. /\ r[parent] \in Int /\ r[elm] \in Int /\ r[elm] >= -1
        /\ s \in tree.red[parent] => r[parent] = r[elm] + 2 + 1
        /\ s \notin tree.red[parent] => r[parent] = r[elm] + 1 + 1
    BY <1>1, <1>2, <1>3, Edge
  <2>2. r[sib] \in Int /\ r[parent] = r[sib] + (IF o \in tree.red[parent] THEN 2 ELSE 1)
    BY <1>1, <1>2, <1>3, <1>4, Edge
  <2>3. QED
    BY <2>1, <2>2
<1>7. tree.red[parent] \subseteq Sides
  BY <1>1, <1>2 DEF Typed
<1>8. \A y \in Keys, t \in Sides : ~(y = parent /\ t = s) =>
         /\ r[y] = r[tree.kid[y][t]] + Long(tree, y, t)
         /\ r[tree.kid[y][t]] \in Int /\ r[y] \in Int
  <2>1. ASSUME NEW y \in Keys, NEW t \in Sides, ~(y = parent /\ t = s)
        PROVE  /\ r[y] = r[tree.kid[y][t]] + Long(tree, y, t)
               /\ r[tree.kid[y][t]] \in Int /\ r[y] \in Int
    BY <1>1, <1>3, <2>1, Edge DEF Long
  <2>2. QED
    BY <2>1
<1> HIDE DEF s, o, sib
<1>9. CASE s \notin tree.red[parent]
  <2> DEFINE U == Flip(tree, parent, s)
  <2>1. Return /\ tree' = U
    BY <1>3, <1>9 DEF RemoveColor, s
  <2>2. Flipped(tree, parent, s, U)
    BY <1>1, <1>2, <1>3, FlipIs
  <2> HIDE DEF U
  <2>3. /\ SameLinks(U, tree) /\ Typed(U) /\ U.kid = tree.kid
        /\ U.red[parent] = tree.red[parent] \cup {s}
        /\ \A y \in Keys : y # parent => U.red[y] = tree.red[y]
    BY <1>9, <2>2 DEF Flipped, SameLinks
  <2>4. ASSUME NEW y \in Keys, NEW t \in Sides
        PROVE  r[y] = r[U.kid[y][t]] + Long(U, y, t)
    <3>1. CASE y = parent /\ t = s
      <4>1. Long(U, y, t) = 2
        BY <2>3, <3>1 DEF Long
      <4>2. U.kid[y][t] = elm
        BY <1>3, <2>3, <3>1
      <4>3. QED
        BY <1>6, <1>9, <3>1, <4>1, <4>2
    <3>2. CASE ~(y = parent /\ t = s)
      <4>1. Long(U, y, t) = Long(tree, y, t)
        BY <2>3, <3>2 DEF Long
      <4>2. QED
        BY <1>8, <2>3, <3>2, <4>1
    <3>3. QED
      BY <3>1, <3>2
  <2>5. Balanced(U, r, NULL, "left", 0)
    BY <1>1, <2>3, <2>4, AllBalanced
  <2>6. LeafRule(U, NULL)
    BY <1>3, <1>5, <2>3 DEF LeafRule
  <2>7. Rests(U, d, tree)
    BY <1>1, <2>3, <2>5, <2>6, BitsRest
  <2>8. QED
    BY <2>1, <2>7, ReturnKeeps DEF Return
<1>10. CASE tree.red[parent] = Sides
  <2> DEFINE U == Flip(tree, parent, o)
  <2>1. RemoveClimb(parent) /\ tree' = U
    <3>1. s \in tree.red[parent] /\ tree.red[parent] # {s}
      BY <1>3, <1>4, <1>10
    <3>2. QED
      BY <1>10, <3>1 DEF RemoveColor, s, o
  <2>2. Flipped(tree, parent, o, U)
    BY <1>1, <1>2, <1>4, FlipIs
  <2> HIDE DEF U
  <2>3. /\ SameLinks(U, tree) /\ Typed(U) /\ U.kid = tree.kid
        /\ U.red[parent] = {s}
        /\ \A y \in Keys : y # parent => U.red[y] = tree.red[y]
    <3>1. tree.red[parent] \ {o} = {s} /\ o \in tree.red[parent]
      BY <1>3, <1>4, <1>10
    <3>2. QED
      BY <2>2, <3>1 DEF Flipped, SameLinks
  <2>4. PICK v \in Nat : v = r[parent] - 1
    BY <1>6
  <2>5. PICK q : Ranked(q) /\ q[parent] = v /\ \A y \in Pointers : y # parent => q[y] = r[y]
    BY <1>1, <1>2, RankSet
  <2>6. ASSUME NEW y \in Keys, NEW t \in Sides
        PROVE  /\ tree.kid[y][t] # parent => q[y] = q[tree.kid[y][t]] + Long(U, y, t)
               /\ tree.kid[y][t] = parent => q[y] = q[tree.kid[y][t]] + Long(U, y, t) + 1
    <3>1. CASE y = parent
      <4>1. tree.kid[y][t] # parent
        BY <1>1, <3>1, KidFacts, ConstantsAssumption DEF Links
      <4>2. tree.kid[y][t] \in Pointers
        BY <1>1 DEF Typed
      <4>3. q[tree.kid[y][t]] = r[tree.kid[y][t]]
        BY <2>5, <4>1, <4>2
      <4>4. CASE t = s
        <5>1. Long(U, y, t) = 2 /\ tree.kid[y][t] = elm /\ r[parent] = r[elm] + 3
          BY <1>3, <1>6, <1>10, <2>3, <3>1, <4>4 DEF Long
        <5>2. QED
          BY <1>6, <2>4, <2>5, <3>1, <4>1, <4>3, <5>1
      <4>5. CASE t = o
        <5>1. Long(U, y, t) = 1 /\ tree.kid[y][t] = sib /\ r[parent] = r[sib] + 2
          BY <1>4, <1>6, <1>10, <2>3, <3>1, <4>5 DEF Long, sib
        <5>2. QED
          BY <1>6, <2>4, <2>5, <3>1, <4>1, <4>3, <5>1
      <4>6. QED
        BY <1>4, <4>4, <4>5
    <3>2. CASE y # parent
      <4>1. /\ r[y] = r[tree.kid[y][t]] + Long(U, y, t) /\ r[tree.kid[y][t]] \in Int
            /\ q[y] = r[y] /\ Long(U, y, t) \in Int
        BY <1>8, <2>3, <2>5, <3>2 DEF Long, Pointers
      <4>2. tree.kid[y][t] # parent => q[tree.kid[y][t]] = r[tree.kid[y][t]]
        BY <1>1, <2>5 DEF Typed
      <4>3. CASE tree.kid[y][t] = parent
        <5>1. r[tree.kid[y][t]] = r[parent] /\ q[tree.kid[y][t]] = r[parent] - 1
          BY <2>4, <2>5, <4>3
        <5>2. QED
          BY <1>6, <4>1, <4>3, <5>1
      <4>4. QED
        BY <4>1, <4>2, <4>3
    <3>3. QED
      BY <3>1, <3>2
  <2>7. Balanced(U, q, tree.up[parent], SideOf(tree, tree.up[parent], parent), 1)
    <3>1. 1 \in Int
      OBVIOUS
    <3>2. QED
      BY <1>1, <1>2, <2>3, <2>5, <2>6, <3>1, ParentEdge
  <2>8. LeafRule(U, NULL)
    BY <1>3, <1>5, <2>3 DEF LeafRule
  <2>9. QED
    BY <1>1, <2>1, <2>3, <2>5, <2>7, <2>8, ClimbKeeps
<1>11. CASE tree.red[parent] = {s} /\ tree.red[sib] = Sides
  <2> DEFINE U == SetRed(tree, sib, {})
  <2>1. RemoveClimb(parent) /\ tree' = U
    <3>1. s \in tree.red[parent] /\ tree.red[parent] # Sides
      BY <1>4, <1>11
    <3>2. QED
      BY <1>11, <3>1 DEF RemoveColor, s, o, sib
  <2>2. r[parent] = r[elm] + 3 /\ r[parent] = r[sib] + 1
    <3>1. s \in tree.red[parent] /\ o \notin tree.red[parent]
      BY <1>4, <1>11
    <3>2. QED
      BY <1>6, <3>1
  <2>3. sib \in Keys /\ sib # parent
    <3>1. r[sib] >= 1
      BY <1>6, <2>2
    <3>2. sib # NULL
      BY <1>1, <3>1 DEF Ranked
    <3>3. QED
      BY <1>1, <1>2, <1>4, <3>2, KidFacts DEF Links, sib
  <2>4. RedSet(tree, sib, {}, U)
    BY <1>1, <2>3, SetRedIs
  <2> HIDE DEF U
  <2>5. /\ SameLinks(U, tree) /\ Typed(U) /\ U.kid = tree.kid
        /\ U.red[sib] = {} /\ U.red[parent] = {s}
        /\ \A y \in Keys : y # sib => U.red[y] = tree.red[y]
    BY <1>2, <1>11, <2>3, <2>4 DEF RedSet, SameLinks
  <2>6. PICK v \in Nat : v = r[parent] - 1
    BY <1>6, <2>2
  <2>7. PICK w \in Nat : w = r[parent] - 2
    BY <1>6, <2>2
  <2>8. PICK q0 : Ranked(q0) /\ q0[parent] = v /\ \A y \in Pointers : y # parent => q0[y] = r[y]
    BY <1>1, <1>2, RankSet
  <2>9. PICK q : Ranked(q) /\ q[sib] = w /\ \A y \in Pointers : y # sib => q[y] = q0[y]
    BY <2>3, <2>8, RankSet
  <2>10. /\ q[parent] = v /\ q[sib] = w
         /\ \A y \in Pointers : y # parent /\ y # sib => q[y] = r[y]
    BY <1>2, <2>3, <2>8, <2>9 DEF Pointers
  <2>11. \A y \in Keys, t \in Sides : tree.kid[y][t] = sib => y = parent /\ t = o
    <3>1. sib = tree.kid[parent][o] /\ sib # NULL
      BY <1>4, <2>3, ConstantsAssumption DEF sib
    <3>2. Adjacent(tree, parent, o, sib)
      BY <1>1, <1>2, <1>4, <3>1, Neighbours
    <3>3. QED
      BY <3>2 DEF Adjacent
  <2>12. ASSUME NEW y \in Keys, NEW t \in Sides
         PROVE  /\ tree.kid[y][t] # parent => q[y] = q[tree.kid[y][t]] + Long(U, y, t)
                /\ tree.kid[y][t] = parent => q[y] = q[tree.kid[y][t]] + Long(U, y, t) + 1
    <3>0. tree.kid[y][t] \in Pointers
      BY <1>1 DEF Typed
    <3>1. CASE y = parent
      <4>1. tree.kid[y][t] # parent
        BY <1>1, <3>1, KidFacts, ConstantsAssumption DEF Links
      <4>2. CASE t = s
        <5>1. Long(U, y, t) = 2 /\ tree.kid[y][t] = elm
          BY <1>3, <2>5, <3>1, <4>2 DEF Long
        <5>2. q[tree.kid[y][t]] = r[elm]
          BY <1>3, <2>10, <3>0, <4>1, <5>1
        <5>3. QED
          BY <1>6, <2>2, <2>6, <2>10, <3>1, <4>1, <5>1, <5>2
      <4>3. CASE t = o
        <5>1. Long(U, y, t) = 1 /\ tree.kid[y][t] = sib
          BY <1>4, <2>5, <3>1, <4>3 DEF Long, sib
        <5>2. v = w + 1
          BY <1>6, <2>6, <2>7
        <5>3. QED
          BY <2>10, <3>1, <4>1, <5>1, <5>2
      <4>4. QED
        BY <1>4, <4>2, <4>3
    <3>2. CASE y = sib
      <4>1. tree.kid[y][t] # parent /\ tree.kid[y][t] # sib
        <5>1. sib = tree.kid[parent][o] /\ sib # NULL
          BY <1>4, <2>3, ConstantsAssumption DEF sib
        <5>2. Adjacent(tree, parent, o, sib)
          BY <1>1, <1>2, <1>4, <5>1, Neighbours
        <5>3. QED
          BY <3>2, <5>2 DEF Adjacent
      <4>2. q[tree.kid[y][t]] = r[tree.kid[y][t]]
        BY <2>10, <3>0, <4>1
      <4>3. r[sib] = r[tree.kid[y][t]] + 2 /\ r[tree.kid[y][t]] \in Int
        BY <1>8, <1>11, <2>3, <3>2 DEF Long
      <4>4. Long(U, y, t) = 1
        BY <2>5, <3>2 DEF Long
      <4>5. w = r[tree.kid[y][t]] + 1
        BY <1>6, <2>2, <2>7, <4>3
      <4>6. QED
        BY <2>10, <3>2, <4>1, <4>2, <4>4, <4>5
    <3>3. CASE y # parent /\ y # sib
      <4>1. /\ r[y] = r[tree.kid[y][t]] + Long(U, y, t) /\ r[tree.kid[y][t]] \in Int
            /\ q[y] = r[y] /\ Long(U, y, t) \in Int
        BY <1>8, <2>5, <2>10, <3>3 DEF Long, Pointers
      <4>2. tree.kid[y][t] # sib
        BY <2>11, <3>3
      <4>3. CASE tree.kid[y][t] = parent
        <5>1. r[tree.kid[y][t]] = r[parent] /\ q[tree.kid[y][t]] = r[parent] - 1
          BY <2>6, <2>10, <4>3
        <5>2. QED
          BY <1>6, <4>1, <4>3, <5>1
      <4>4. CASE tree.kid[y][t] # parent
        <5>1. q[tree.kid[y][t]] = r[tree.kid[y][t]]
          BY <2>10, <3>0, <4>2, <4>4
        <5>2. QED
          BY <4>1, <4>4, <5>1
      <4>5. QED
        BY <4>3, <4>4
    <3>4. QED
      BY <3>1, <3>2, <3>3
  <2>13. Balanced(U, q, tree.up[parent], SideOf(tree, tree.up[parent], parent), 1)
    <3>1. 1 \in Int
      OBVIOUS
    <3>2. QED
      BY <1>1, <1>2, <2>5, <2>9, <2>12, <3>1, ParentEdge
  <2>14. LeafRule(U, NULL)
    BY <1>3, <2>5 DEF LeafRule
  <2>15. QED
    BY <1>1, <2>1, <2>5, <2>9, <2>13, <2>14, ClimbKeeps
<1>12. CASE tree.red[parent] = {s} /\ tree.red[sib] # Sides
  <2>1. Return /\ tree' = RemoveRotate(s)
    <3>1. s \in tree.red[parent] /\ tree.red[parent] # Sides
      BY <1>4, <1>12
    <3>2. QED
      BY <1>12, <3>1 DEF RemoveColor, s, o, sib
  <2>2. Rests(RemoveRotate(s), d, tree)
    BY <1>1, <1>2, <1>3, <1>12, RemoveRotates DEF sib, o
  <2>3. QED
    BY <2>1, <2>2, ReturnKeeps DEF Return
<1>13. QED
  <2>1. s \in tree.red[parent] => tree.red[parent] = Sides \/ tree.red[parent] = {s}
    BY <1>4, <1>7
  <2>2. QED
    BY <1>9, <1>10, <1>11, <1>12, <2>1

-----------------------------------------------------------------------------
(* Walks down the tree.  From node a one goes to its child on side g[a],   *)
(* until there is none or a is in K.  A walk from n ends at a node below n *)
(* to which every node above it leads.                                     *)
Stops(T, g, K, n) == n \in K \/ T.kid[n][g[n]] = NULL

Tips(T, d, g, K, n) ==
    {m \in d[n] : /\ Stops(T, g, K, m)
                  /\ \A a \in d[n] : m \in d[a] /\ a # m =>
                        a \notin K /\ m \in d[T.kid[a][g[a]]]}

Walk(T, g, K, f) ==
    f = [n \in Keys |-> IF Stops(T, g, K, n) THEN n ELSE f[T.kid[n][g[n]]]]

(* A step of the walk leads to the same tips.                              *)
LEMMA TipsStep ==
    ASSUME NEW T, NEW d, Links(T, d), NEW K, NEW g \in [Keys -> Sides], NEW n \in Keys
    PROVE  /\ Stops(T, g, K, n) => Tips(T, d, g, K, n) = {n}
           /\ ~Stops(T, g, K, n) => /\ T.kid[n][g[n]] \in Keys
                                    /\ Tips(T, d, g, K, n) = Tips(T, d, g, K, T.kid[n][g[n]])
<1> DEFINE s == g[n]
           o == Other(s)
           c == T.kid[n][s]
<1>1. s \in Sides /\ o \in Sides /\ \A t \in Sides : t = s \/ t = o
  BY SideFacts
<1>2. /\ n \in d[n] /\ d[n] = {n} \cup d[c] \cup d[T.kid[n][o]] /\ d[c] \subseteq d[n]
      /\ d[n] \subseteq Keys
  BY <1>1, Hanging DEF Links
<1>3. n \notin d[c] /\ n \notin d[T.kid[n][o]]
  BY <1>1 DEF Links, Ordered
<1>4. \A t \in Sides : \A a : a \in d[T.kid[n][t]] => d[a] \subseteq d[T.kid[n][t]]
  <2>1. ASSUME NEW t \in Sides, NEW a \in d[T.kid[n][t]]
        PROVE  d[a] \subseteq d[T.kid[n][t]]
    <3>1. T.kid[n][t] \in Keys
      BY <2>1 DEF Links, Typed, Grown, Pointers
    <3>2. QED
      BY <2>1, <3>1, Nested
  <2>2. QED
    BY <2>1
<1> HIDE DEF c, o, s
<1>5. ASSUME Stops(T, g, K, n)
      PROVE  Tips(T, d, g, K, n) = {n}
  <2>1. n \in Tips(T, d, g, K, n)
    <3>1. ASSUME NEW a \in d[n], n \in d[a], a # n
          PROVE  FALSE
      BY <1>1, <1>2, <1>3, <1>4, <3>1 DEF c
    <3>2. QED
      BY <1>2, <1>5, <3>1 DEF Tips
  <2>2. ASSUME NEW m \in Tips(T, d, g, K, n), m # n
        PROVE  FALSE
    <3>1. n \notin K /\ m \in d[c]
      BY <1>2, <2>2 DEF Tips, c, s
    <3>2. c = NULL
      BY <1>5, <3>1 DEF Stops, c, s
    <3>3. QED
      BY <3>1, <3>2 DEF Links, Grown
  <2>3. QED
    BY <2>1, <2>2
<1>6. ASSUME ~Stops(T, g, K, n)
      PROVE  c \in Keys /\ Tips(T, d, g, K, n) = Tips(T, d, g, K, c)
  <2>1. c \in Keys /\ n \notin K
    BY <1>1, <1>6 DEF Stops, Links, Typed, Pointers, c, s
  <2>2. ASSUME NEW m \in Tips(T, d, g, K, n)
        PROVE  m \in Tips(T, d, g, K, c)
    <3>1. /\ m \in d[n] /\ Stops(T, g, K, m)
          /\ \A a \in d[n] : m \in d[a] /\ a # m => a \notin K /\ m \in d[T.kid[a][g[a]]]
      BY DEF Tips
    <3>2. m # n
      BY <1>6, <3>1
    <3>3. m \in d[c]
      BY <1>2, <3>1, <3>2 DEF c, s
    <3>4. QED
      BY <1>2, <3>1, <3>3 DEF Tips
  <2>3. ASSUME NEW m \in Tips(T, d, g, K, c)
        PROVE  m \in Tips(T, d, g, K, n)
    <3>1. /\ m \in d[c] /\ Stops(T, g, K, m)
          /\ \A a \in d[c] : m \in d[a] /\ a # m => a \notin K /\ m \in d[T.kid[a][g[a]]]
      BY DEF Tips
    <3>2. ASSUME NEW a \in d[n], m \in d[a], a # m
          PROVE  a \notin K /\ m \in d[T.kid[a][g[a]]]
      <4>1. CASE a = n
        BY <2>1, <3>1, <4>1 DEF c, s
      <4>2. CASE a \in d[c]
        BY <3>1, <3>2, <4>2
      <4>3. CASE a \in d[T.kid[n][o]]
        <5>1. m \in d[T.kid[n][o]]
          BY <1>1, <1>4, <3>2, <4>3
        <5>2. QED
          BY <1>1, <3>1, <5>1, Apart DEF Links, c, o
      <4>4. QED
        BY <1>2, <4>1, <4>2, <4>3
    <3>3. m \in d[n]
      BY <1>2, <3>1
    <3>4. QED
      BY <3>1, <3>2, <3>3 DEF Tips
  <2>4. QED
    BY <2>1, <2>2, <2>3
<1>7. QED
  BY <1>5, <1>6 DEF c, s

(* So there is such a walk, and it ends at a tip.                          *)
LEMMA WalkExists ==
    ASSUME NEW T, NEW d, Links(T, d), NEW K, NEW g \in [Keys -> Sides]
    PROVE  \E f : Walk(T, g, K, f)
<1> DEFINE f == [n \in Keys |-> CHOOSE m \in Tips(T, d, g, K, n) : TRUE]
<1>1. ASSUME NEW n \in Keys
      PROVE  f[n] = IF Stops(T, g, K, n) THEN n ELSE f[T.kid[n][g[n]]]
  <2>1. CASE Stops(T, g, K, n)
    <3>1. Tips(T, d, g, K, n) = {n}
      BY <2>1, TipsStep
    <3>2. QED
      BY <2>1, <3>1
  <2>2. CASE ~Stops(T, g, K, n)
    <3>1. /\ T.kid[n][g[n]] \in Keys
          /\ Tips(T, d, g, K, n) = Tips(T, d, g, K, T.kid[n][g[n]])
      BY <2>2, TipsStep
    <3>2. QED
      BY <2>2, <3>1
  <2>3. QED
    BY <2>1, <2>2
<1>2. f = [n \in Keys |-> f[n]]
  OBVIOUS
<1> HIDE DEF f
<1>3. Walk(T, g, K, f)
  BY <1>1, <1>2, Zenon DEF Walk
<1>4. QED
  BY <1>3

(* Every such walk ends at a tip.                                          *)
LEMMA WalkEnds ==
    ASSUME NEW T, NEW d, Links(T, d), NEW K, NEW g \in [Keys -> Sides],
           NEW f, Walk(T, g, K, f), NEW n \in Keys
    PROVE  f[n] \in Tips(T, d, g, K, n)
<1> DEFINE Bad == {x \in Keys : f[x] \notin Tips(T, d, g, K, x)}
<1>1. \A x \in Keys : f[x] = IF Stops(T, g, K, x) THEN x ELSE f[T.kid[x][g[x]]]
  BY Zenon DEF Walk
<1>2. Bad = {}
  <2> SUFFICES ASSUME Bad # {}
               PROVE  FALSE
    OBVIOUS
  <2>1. PICK x \in Bad : \A s \in Sides : T.kid[x][s] \notin Bad
    BY Lowest DEF Links
  <2>2. CASE Stops(T, g, K, x)
    BY <1>1, <2>1, <2>2, TipsStep
  <2>3. CASE ~Stops(T, g, K, x)
    <3>1. /\ T.kid[x][g[x]] \in Keys /\ f[x] = f[T.kid[x][g[x]]]
          /\ Tips(T, d, g, K, x) = Tips(T, d, g, K, T.kid[x][g[x]])
      BY <1>1, <2>1, <2>3, TipsStep
    <3>2. T.kid[x][g[x]] \notin Bad
      BY <2>1
    <3>3. QED
      BY <2>1, <3>1, <3>2
  <2>4. QED
    BY <2>2, <2>3
<1>3. QED
  BY <1>2

(* A search for k ends at k, or where it would be.                         *)
Found(T, d, k, p) ==
    /\ p \in d[T.root] /\ p \in Keys
    /\ k \in d[T.root] <=> p = k
    /\ p # k => T.kid[p][Toward(k, p)] = NULL
    /\ \A a \in d[T.root] : p \in d[a] /\ a # p =>
          a # k /\ p \in d[T.kid[a][Toward(k, a)]]

(* The search of the code, from the root.                                  *)
LEMMA DescendFinds ==
    ASSUME NEW T, NEW d, Links(T, d), NEW k \in Keys
    PROVE  /\ T.root = NULL => Descend(T, k) = NULL
           /\ T.root # NULL => Found(T, d, k, Descend(T, k))
<1> DEFINE g == [n \in Keys |-> Toward(k, n)]
           F(f) == f = [n \in Keys |-> LET c == T.kid[n][Toward(k, n)]
                                       IN  IF n = k \/ c = NULL THEN n ELSE f[c]]
           w == CHOOSE f : F(f)
<1>1. g \in [Keys -> Sides] /\ \A n \in Keys : g[n] = Toward(k, n)
  BY DEF Toward, Sides
<1>2. Descend(T, k) = IF T.root = NULL THEN NULL ELSE w[T.root]
  BY DEF Descend
<1> HIDE DEF g
<1>3. ASSUME NEW f
      PROVE  F(f) <=> Walk(T, g, {k}, f)
  <2>1. \A n \in Keys : /\ Stops(T, g, {k}, n) <=> n = k \/ T.kid[n][Toward(k, n)] = NULL
                        /\ T.kid[n][g[n]] = T.kid[n][Toward(k, n)]
    BY <1>1, Zenon DEF Stops
  <2>2. [n \in Keys |-> LET c == T.kid[n][Toward(k, n)]
                        IN  IF n = k \/ c = NULL THEN n ELSE f[c]]
        = [n \in Keys |-> IF Stops(T, g, {k}, n) THEN n ELSE f[T.kid[n][g[n]]]]
    BY <2>1
  <2>3. QED
    BY <2>2 DEF Walk
<1>4. \E f : F(f)
  BY <1>1, <1>3, WalkExists
<1>5. F(w)
  BY <1>4, Zenon
<1> HIDE DEF w, F
<1>6. Walk(T, g, {k}, w)
  BY <1>3, <1>5
<1>7. ASSUME T.root # NULL
      PROVE  Found(T, d, k, w[T.root])
  <2> DEFINE p == w[T.root]
  <2>1. T.root \in Keys
    BY <1>7 DEF Links, Typed, Pointers
  <2>2. p \in Tips(T, d, g, {k}, T.root)
    BY <1>1, <1>6, <2>1, WalkEnds
  <2> HIDE DEF p
  <2>3. /\ p \in d[T.root] /\ p \in Keys
        /\ p = k \/ T.kid[p][Toward(k, p)] = NULL
        /\ \A a \in d[T.root] : p \in d[a] /\ a # p =>
              a # k /\ p \in d[T.kid[a][Toward(k, a)]]
    <3>1. d[T.root] \subseteq Keys
      BY <2>1, Hanging DEF Links
    <3>2. QED
      BY <1>1, <2>2, <3>1 DEF Tips, Stops
  <2>4. ASSUME k \in d[T.root], p # k
        PROVE  FALSE
    <3> DEFINE S == {a \in d[T.root] : p \in d[a] /\ k \in d[a]}
    <3>1. S \subseteq Keys /\ T.root \in S
      BY <2>1, <2>3, <2>4, Hanging DEF Links
    <3>2. PICK a \in S : \A t \in Sides : T.kid[a][t] \notin S
      BY <3>1, Lowest DEF Links
    <3>3. a \in Keys /\ a \in d[T.root] /\ p \in d[a] /\ k \in d[a]
      BY <3>1, <3>2
    <3> DEFINE t == Toward(k, a)
    <3>4. t \in Sides /\ (k = a \/ k \in d[T.kid[a][t]])
      <4>1. t \in Sides
        BY DEF Toward, Sides
      <4>2. QED
        BY <3>3, <4>1, Hanging DEF Links, Ordered
    <3> HIDE DEF S
    <3>5. CASE a = p
      BY <2>3, <2>4, <3>4, <3>5 DEF Links, Grown
    <3>6. CASE a # p
      <4>1. a # k /\ p \in d[T.kid[a][t]]
        BY <2>3, <3>3, <3>6
      <4>2. k \in d[T.kid[a][t]]
        BY <3>4, <4>1
      <4>3. T.kid[a][t] \in d[T.root]
        <5>1. T.kid[a][t] # NULL
          BY <4>1 DEF Links, Grown
        <5>2. T.kid[a][t] \in d[a]
          BY <3>3, <3>4, <5>1, KidFacts DEF Links
        <5>3. d[a] \subseteq d[T.root]
          BY <2>1, <3>3, Nested
        <5>4. QED
          BY <5>2, <5>3
      <4>4. T.kid[a][t] \in S
        BY <4>1, <4>2, <4>3 DEF S
      <4>5. QED
        BY <3>2, <3>4, <4>4
    <3>7. QED
      BY <3>5, <3>6
  <2>5. k \in d[T.root] <=> p = k
    BY <2>3, <2>4
  <2>6. QED
    BY <2>3, <2>5 DEF Found, p
<1>8. QED
  BY <1>2, <1>7

(* What is not in the tree is linked to nothing.                           *)
LEMMA Outside ==
    ASSUME NEW T, NEW d, Links(T, d), NEW n \in Keys, n \notin d[T.root]
    PROVE  /\ \A s \in Sides : T.kid[n][s] = NULL
           /\ T.up[n] = NULL /\ d[n] = {n}
           /\ \A m \in Keys : n \in d[m] => m = n
           /\ \A m \in Keys, s \in Sides : T.kid[m][s] # n
<1>1. (\A s \in Sides : T.kid[n][s] = NULL) /\ T.up[n] = NULL
  BY DEF Links, Paired
<1>2. d[n] = {n}
  BY <1>1 DEF Links, Grown, Sides
<1>3. ASSUME NEW m \in Keys, n \in d[m], m # n
      PROVE  FALSE
  <2>1. T.up[n] \in Keys
    BY <1>3, Nested
  <2>2. QED
    BY <1>1, <2>1, ConstantsAssumption
<1>4. \A m \in Keys, s \in Sides : T.kid[m][s] # n
  BY <1>1, ConstantsAssumption DEF Links, Paired
<1>5. QED
  BY <1>1, <1>2, <1>3, <1>4

(* Node k is put below p, where the search for it ended.                   *)
Added(T, U, k, p) ==
    /\ Typed(U)
    /\ U.root = IF p = NULL THEN k ELSE T.root
    /\ U.red[k] = {} /\ \A y \in Keys : y # k => U.red[y] = T.red[y]
    /\ U.up[k] = p /\ \A y \in Keys : y # k => U.up[y] = T.up[y]
    /\ \A y \in Keys, t \in Sides :
          U.kid[y][t] = IF y = k THEN NULL
                        ELSE IF y = p /\ t = Toward(k, p) THEN k
                        ELSE T.kid[y][t]

AddedSets(T, d, k, p) ==
    [m \in Pointers |-> IF m = k THEN {k} ELSE IF p \in d[m] THEN d[m] \cup {k} ELSE d[m]]

(* The tree with k has k's key besides, in its place.                      *)
LEMMA AddLinks ==
    ASSUME NEW T, NEW d, Links(T, d), NEW k \in Keys, k \notin d[T.root],
           NEW p \in Pointers, p = NULL => T.root = NULL,
           p # NULL => Found(T, d, k, p),
           NEW U, Added(T, U, k, p)
    PROVE  /\ Links(U, AddedSets(T, d, k, p))
           /\ AddedSets(T, d, k, p)[U.root] = d[T.root] \cup {k}
<1> DEFINE e == AddedSets(T, d, k, p)
           u == Toward(k, p)
<1>1. /\ \A s \in Sides : T.kid[k][s] = NULL
      /\ T.up[k] = NULL /\ d[k] = {k}
      /\ \A m \in Keys : k \in d[m] => m = k
      /\ \A m \in Keys, s \in Sides : T.kid[m][s] # k
  BY Outside
<1>2. k # NULL /\ k \in Pointers /\ NULL \in Pointers /\ \A y \in Keys : y # NULL /\ y \in Pointers
  BY ConstantsAssumption DEF Pointers
<1>3. p # NULL => /\ p \in Keys /\ p \in d[T.root] /\ p # k /\ u \in Sides /\ T.kid[p][u] = NULL
                  /\ T.root \in Keys
                  /\ \A a \in d[T.root] : p \in d[a] /\ a # p =>
                        a # k /\ p \in d[T.kid[a][Toward(k, a)]]
  BY DEF Found, Links, Typed, Grown, Pointers, Toward, Sides
<1>4. /\ Typed(U)
      /\ U.root = IF p = NULL THEN k ELSE T.root
      /\ U.up[k] = p /\ \A y \in Keys : y # k => U.up[y] = T.up[y]
      /\ \A t \in Sides : U.kid[k][t] = NULL
      /\ p # NULL => U.kid[p][u] = k /\ \A t \in Sides : t # u => U.kid[p][t] = T.kid[p][t]
      /\ \A y \in Keys, t \in Sides : y # p /\ y # k => U.kid[y][t] = T.kid[y][t]
  BY <1>2, <1>3 DEF Added
<1>5. /\ d \in [Pointers -> SUBSET Keys] /\ d[NULL] = {}
      /\ \A n \in Keys : IsFiniteSet(d[n])
      /\ \A n \in Keys, s \in Sides : T.kid[n][s] \in Pointers
  BY DEF Links, Grown, Typed
<1>6. /\ e \in [Pointers -> SUBSET Keys] /\ e[k] = {k} /\ e[NULL] = {}
      /\ \A m \in Pointers : m # k => e[m] = IF p \in d[m] THEN d[m] \cup {k} ELSE d[m]
  BY <1>2, <1>5 DEF AddedSets
<1> HIDE DEF e, u
<1>7. p \notin Keys => p = NULL /\ \A m \in Pointers : p \notin d[m]
  BY <1>5, ConstantsAssumption DEF Pointers
<1>8. Grown(U, e)
  <2>1. ASSUME NEW n \in Keys
        PROVE  IsFiniteSet(e[n])
    <3>1. IsFiniteSet(d[n] \cup {k}) /\ IsFiniteSet(d[n]) /\ IsFiniteSet({k})
      BY <1>5, FS_Singleton, FS_AddElement
    <3>2. e[n] = {k} \/ e[n] = d[n] \cup {k} \/ e[n] = d[n]
      BY <1>2, <1>6
    <3>3. QED
      BY <3>1, <3>2
  <2>2. ASSUME NEW n \in Keys
        PROVE  e[n] = {n} \cup e[U.kid[n]["left"]] \cup e[U.kid[n]["right"]]
    <3>1. d[n] = {n} \cup d[T.kid[n]["left"]] \cup d[T.kid[n]["right"]]
      BY DEF Links, Grown
    <3>2. "left" \in Sides /\ "right" \in Sides
      BY DEF Sides
    <3>3. CASE n = k
      BY <1>4, <1>6, <3>2, <3>3
    <3>4. CASE n = p
      <4>1. \A t \in Sides : e[U.kid[p][t]] = IF t = u THEN {k} ELSE d[T.kid[p][t]]
        <5>1. \A t \in Sides : p \notin d[T.kid[p][t]] /\ T.kid[p][t] # k
          <6>1. \A t \in Sides : p \notin d[T.kid[p][t]]
            BY <3>4 DEF Links, Ordered
          <6>2. \A t \in Sides : T.kid[p][t] # k
            BY <1>1, <3>4
          <6>3. QED
            BY <6>1, <6>2
        <5>2. p # NULL /\ p # k
          BY <1>3, <3>4, ConstantsAssumption
        <5>3. U.kid[p][u] = k /\ \A t \in Sides : t # u => U.kid[p][t] = T.kid[p][t]
          BY <1>4, <5>2
        <5>4. \A t \in Sides : T.kid[p][t] \in Pointers
          BY <1>5, <3>4
        <5>5. e[k] = {k} /\ \A m \in Pointers : m # k /\ p \notin d[m] => e[m] = d[m]
          BY <1>6
        <5>6. QED
          BY <5>1, <5>3, <5>4, <5>5, ZenonT(60)
      <4>2. d[T.kid[p][u]] = {} /\ u \in Sides /\ p \in d[p]
        BY <1>2, <1>3, <1>5, <3>1, <3>4
      <4>3. e[p] = d[p] \cup {k}
        BY <1>2, <1>3, <1>6, <3>4, <4>2
      <4>4. u = "left" \/ u = "right"
        BY <4>2 DEF Sides
      <4>5. QED
        BY <3>1, <3>2, <3>4, <4>1, <4>2, <4>3, <4>4
    <3>5. CASE n # k /\ n # p
      <4>1. \A t \in Sides : /\ U.kid[n][t] = T.kid[n][t] /\ T.kid[n][t] # k
                             /\ T.kid[n][t] \in Pointers
        BY <1>1, <1>4, <1>5, <3>5
      <4>2. \A t \in Sides : e[U.kid[n][t]] = IF p \in d[T.kid[n][t]] THEN d[T.kid[n][t]] \cup {k}
                                              ELSE d[T.kid[n][t]]
        BY <1>6, <4>1
      <4>3. e[n] = IF p \in d[n] THEN d[n] \cup {k} ELSE d[n]
        BY <1>2, <1>6, <3>5
      <4>4. QED
        BY <3>1, <3>2, <3>5, <4>2, <4>3
    <3>6. QED
      BY <3>3, <3>4, <3>5
  <2>3. QED
    BY <1>6, <2>1, <2>2 DEF Grown
<1>9. Ordered(U, e)
  <2>1. ASSUME NEW n \in Keys, NEW s \in Sides, NEW m \in e[U.kid[n][s]]
        PROVE  m # n /\ Toward(m, n) = s
    <3>1. n # k
      BY <1>4, <1>6, <2>1
    <3>2. CASE n = p /\ s = u
      BY <1>2, <1>3, <1>4, <1>6, <2>1, <3>2 DEF u
    <3>3. CASE ~(n = p /\ s = u)
      <4>1. U.kid[n][s] = T.kid[n][s] /\ T.kid[n][s] \in Pointers /\ T.kid[n][s] # k
        BY <1>1, <1>2, <1>4, <1>5, <3>1, <3>3
      <4>2. m \in d[T.kid[n][s]] \/ (m = k /\ p \in d[T.kid[n][s]])
        BY <1>6, <2>1, <4>1
      <4>3. CASE m \in d[T.kid[n][s]]
        BY <4>3 DEF Links, Ordered
      <4>4. CASE m = k /\ p \in d[T.kid[n][s]]
        <5>1. p # NULL /\ p # n /\ p \in d[n]
          <6>1. p \in Keys
            BY <1>5, <4>1, <4>4
          <6>2. QED
            BY <1>2, <4>4, <6>1, Hanging DEF Links, Ordered
        <5>2. n \in d[T.root]
          BY <1>3, <5>1, Outside
        <5>3. p \in d[T.kid[n][Toward(k, n)]]
          BY <1>3, <5>1, <5>2
        <5>4. Toward(k, n) \in Sides
          BY DEF Toward, Sides
        <5>5. Toward(p, n) = s /\ Toward(p, n) = Toward(k, n)
          BY <4>4, <5>3, <5>4 DEF Links, Ordered
        <5>6. QED
          BY <3>1, <4>4, <5>5
      <4>5. QED
        BY <4>2, <4>3, <4>4
    <3>4. QED
      BY <3>2, <3>3
  <2>2. QED
    BY <2>1 DEF Ordered
<1>10. e[U.root] = d[T.root] \cup {k}
  <2>1. CASE p = NULL
    BY <1>2, <1>4, <1>5, <1>6, <2>1
  <2>2. CASE p # NULL
    <3>1. T.root # k /\ T.root \in Pointers
      BY <1>1, <1>2, <1>3, <2>2
    <3>2. QED
      BY <1>3, <1>4, <1>6, <2>2, <3>1
  <2>3. QED
    BY <2>1, <2>2
<1>11. Paired(U, e)
  <2>1. ASSUME NEW n \in Keys, NEW s \in Sides, U.kid[n][s] # NULL
        PROVE  U.up[U.kid[n][s]] = n
    <3>1. CASE n = p /\ s = u
      BY <1>2, <1>3, <1>4, <3>1
    <3>2. CASE ~(n = p /\ s = u)
      <4>1. U.kid[n][s] = T.kid[n][s] /\ T.kid[n][s] # k
        BY <1>1, <1>2, <1>4, <2>1, <3>2
      <4>2. T.kid[n][s] \in Keys
        BY <1>5, <2>1, <4>1 DEF Pointers
      <4>3. QED
        BY <1>4, <2>1, <4>1, <4>2 DEF Links, Paired
    <3>3. QED
      BY <3>1, <3>2
  <2>2. ASSUME NEW n \in Keys, U.up[n] # NULL
        PROVE  \E s \in Sides : U.kid[U.up[n]][s] = n
    <3>1. CASE n = k
      BY <1>3, <1>4, <2>2, <3>1
    <3>2. CASE n # k
      <4>1. U.up[n] = T.up[n] /\ T.up[n] # NULL
        BY <1>4, <2>2, <3>2
      <4>2. T.up[n] \in Keys
        BY <4>1 DEF Links, Typed, Pointers
      <4>3. PICK s \in Sides : T.kid[T.up[n]][s] = n
        BY <4>1 DEF Links, Paired
      <4>4. T.up[n] # k /\ ~(T.up[n] = p /\ s = u)
        BY <1>1, <1>2, <1>3, <4>1, <4>3
      <4>5. U.kid[T.up[n]][s] = n
        BY <1>4, <4>1, <4>2, <4>3, <4>4
      <4>6. QED
        BY <4>1, <4>5
    <3>3. QED
      BY <3>1, <3>2
  <2>3. ASSUME NEW n \in Keys
        PROVE  U.up[n] = NULL <=> (n = U.root \/ n \notin e[U.root])
    <3>1. T.up[n] = NULL <=> (n = T.root \/ n \notin d[T.root])
      BY DEF Links, Paired
    <3>2. CASE n = k
      <4>1. p # NULL => T.root # k
        BY <1>1, <1>2, <1>3
      <4>2. QED
        BY <1>4, <1>10, <3>2, <4>1
    <3>3. CASE n # k
      <4>1. CASE p = NULL
        BY <1>4, <1>5, <1>10, <3>1, <3>3, <4>1
      <4>2. CASE p # NULL
        BY <1>4, <1>10, <3>1, <3>3, <4>2
      <4>3. QED
        BY <4>1, <4>2
    <3>4. QED
      BY <3>2, <3>3
  <2>4. ASSUME NEW n \in Keys, NEW s \in Sides, n \notin e[U.root]
        PROVE  U.kid[n][s] = NULL
    <3>1. n # k /\ n \notin d[T.root]
      BY <1>10, <2>4
    <3>2. n # p
      BY <1>2, <1>3, <3>1
    <3>3. QED
      BY <1>4, <3>1, <3>2 DEF Links, Paired
  <2>5. QED
    BY <2>1, <2>2, <2>3, <2>4 DEF Paired
<1>12. QED
  BY <1>4, <1>8, <1>9, <1>10, <1>11 DEF Links, e

(* One child pointer is written.                                           *)
SetKid(T, p, u, k) == [T EXCEPT !.kid[p][u] = k]

KidWritten(T, p, u, k, U) ==
    /\ Typed(U) /\ U.root = T.root /\ U.red = T.red /\ U.up = T.up
    /\ \A y \in Keys, t \in Sides : U.kid[y][t] = IF y = p /\ t = u THEN k ELSE T.kid[y][t]

(* The tree with one child pointer written.                                *)
LEMMA KidIs ==
    ASSUME NEW T, Typed(T), NEW p \in Keys, NEW u \in Sides, NEW k \in Pointers
    PROVE  KidWritten(T, p, u, k, SetKid(T, p, u, k))
BY DEF Typed, SetKid, KidWritten

(* RB_INSERT adds its node so.                                             *)
LEMMA AddFields ==
    ASSUME NEW T, Typed(T), NEW k \in Keys, NEW p \in Pointers, p # k,
           NEW V, V = [T EXCEPT !.kid[k] = Nil, !.up[k] = p, !.red[k] = {}],
           NEW U, p = NULL => U = [V EXCEPT !.root = k],
           p # NULL => U = [V EXCEPT !.kid[p][Toward(k, p)] = k]
    PROVE  Added(T, U, k, p)
<1>1. k \in Pointers /\ Nil \in [Sides -> Pointers] /\ \A t \in Sides : Nil[t] = NULL
  BY DEF Pointers, Nil
<1>2. /\ Typed(V) /\ V.root = T.root
      /\ V.red[k] = {} /\ \A y \in Keys : y # k => V.red[y] = T.red[y]
      /\ V.up[k] = p /\ \A y \in Keys : y # k => V.up[y] = T.up[y]
      /\ \A y \in Keys, t \in Sides : V.kid[y][t] = IF y = k THEN NULL ELSE T.kid[y][t]
  BY <1>1 DEF Typed
<1>3. CASE p = NULL
  <2>1. U = [V EXCEPT !.root = k]
    BY <1>3
  <2>2. /\ Typed(U) /\ U.root = k /\ U.red = V.red /\ U.up = V.up /\ U.kid = V.kid
    BY <1>1, <1>2, <2>1 DEF Typed
  <2>3. \A y \in Keys : y # p
    BY <1>3, ConstantsAssumption
  <2>4. QED
    BY <1>2, <1>3, <2>2, <2>3 DEF Added
<1>4. CASE p # NULL
  <2> DEFINE u == Toward(k, p)
  <2>1. p \in Keys /\ u \in Sides
    BY <1>4 DEF Pointers, Toward, Sides
  <2>2. U = SetKid(V, p, u, k)
    BY <1>4 DEF SetKid
  <2> HIDE DEF u
  <2>3. /\ Typed(U) /\ U.root = V.root /\ U.red = V.red /\ U.up = V.up
        /\ \A y \in Keys, t \in Sides : U.kid[y][t] = IF y = p /\ t = u THEN k ELSE V.kid[y][t]
    <3>1. KidWritten(V, p, u, k, U)
      BY <1>1, <1>2, <2>1, <2>2, KidIs
    <3>2. QED
      BY <3>1 DEF KidWritten
  <2>4. QED
    BY <1>2, <1>4, <2>3 DEF Added, u
<1>5. QED
  BY <1>3, <1>4

(* An insertion finds its key, or adds it.                                 *)
LEMMA InsertKeeps ==
    ASSUME NEW d, NEW r, TreeInv(d, r), NEW k \in Keys, Insert(k)
    PROVE  /\ \E e, q : TreeInv(e, q)' /\ e[tree'.root] = d[tree.root] \cup {k}
           /\ ret' = IF k \in d[tree.root] THEN k ELSE NULL
           /\ pc = "idle"
<1> DEFINE p == Descend(tree, k)
<1>1. /\ pc = "idle" /\ elm = NULL /\ parent = NULL /\ Balanced(tree, r, NULL, "left", 0)
      /\ LeafRule(tree, NULL) /\ Links(tree, d) /\ Ranked(r) /\ Typed(tree)
  BY DEF Insert, TreeInv, Progress, Idle, Inserting, Removing, Links
<1>2. /\ p = NULL <=> tree.root = NULL
      /\ p # NULL => Found(tree, d, k, p)
      /\ p \in Pointers /\ k # NULL
      /\ d[NULL] = {}
  <2>1. /\ tree.root = NULL => p = NULL
        /\ tree.root # NULL => Found(tree, d, k, p)
    BY <1>1, DescendFinds
  <2>2. QED
    BY <1>1, <2>1, ConstantsAssumption DEF Found, Links, Grown, Pointers
<1>3. k \in d[tree.root] <=> p = k
  BY <1>2 DEF Found
<1>4. CASE p = k
  <2>1. ret' = k /\ tree' = tree /\ pc' = pc /\ elm' = elm /\ parent' = parent
    BY <1>2, <1>4 DEF Insert
  <2>2. Idle(r)'
    BY <1>1, <2>1 DEF Idle
  <2>3. TreeInv(d, r)'
    BY <1>1, <2>1, <2>2 DEF TreeInv, Progress
  <2>4. d[tree'.root] = d[tree.root] \cup {k}
    BY <1>3, <1>4, <2>1
  <2>5. QED
    BY <1>1, <1>3, <1>4, <2>1, <2>3, <2>4
<1>5. CASE p # k
  <2> DEFINE V == [tree EXCEPT !.kid[k] = Nil, !.up[k] = p, !.red[k] = {}]
  <2>1. /\ tree' = IF p = NULL THEN [V EXCEPT !.root = k]
                   ELSE [V EXCEPT !.kid[p][Toward(k, p)] = k]
        /\ pc' = "insert_color" /\ elm' = k /\ ret' = NULL /\ parent' = NULL
    BY <1>1, <1>5 DEF Insert
  <2> HIDE DEF p
  <2>2. Added(tree, tree', k, p)
    <3>1. Typed(tree) /\ p \in Pointers /\ p # k
      BY <1>1, <1>2, <1>5
    <3>2. QED
      BY <2>1, <3>1, AddFields, Zenon
  <2> HIDE DEF V
  <2>3. k \notin d[tree.root]
    BY <1>3, <1>5
  <2>4. PICK e : Links(tree', e) /\ e[tree'.root] = d[tree.root] \cup {k}
    BY <1>1, <1>2, <2>2, <2>3, AddLinks
  <2>5. PICK q : Ranked(q) /\ q[k] = 0 /\ \A y \in Pointers : y # k => q[y] = r[y]
    BY <1>1, RankSet
  <2> DEFINE u == Toward(k, p)
  <2>6. /\ p # NULL => /\ p \in Keys /\ u \in Sides /\ tree.kid[p][u] = NULL
                       /\ tree'.kid[p][u] = k
        /\ \A t \in Sides : tree'.kid[k][t] = NULL
        /\ \A y \in Keys, t \in Sides : ~(y = p /\ t = u) /\ y # k =>
              tree'.kid[y][t] = tree.kid[y][t]
        /\ tree'.red[k] = {} /\ tree'.up[k] = p
        /\ \A y \in Keys : y # k => tree'.red[y] = tree.red[y]
    BY <1>2, <1>5, <2>2 DEF Added, Found, Toward, Sides
  <2> HIDE DEF u
  <2>7. \A y \in Keys, t \in Sides : tree.kid[y][t] # k
    BY <1>1, <2>3, Outside
  <2>8. r[NULL] = -1 /\ q[NULL] = -1
    BY <1>1, <2>5 DEF Ranked
  <2>9. ASSUME NEW y \in Keys, NEW t \in Sides
        PROVE  /\ tree'.kid[y][t] # k => q[y] = q[tree'.kid[y][t]] + Long(tree', y, t)
               /\ tree'.kid[y][t] = k => q[y] = q[tree'.kid[y][t]] + Long(tree', y, t) + (-1)
    <3>1. CASE y = k
      <4>1. Long(tree', y, t) = 1 /\ tree'.kid[y][t] = NULL
        BY <2>6, <3>1 DEF Long
      <4>2. QED
        BY <1>2, <2>5, <2>8, <3>1, <4>1
    <3>2. CASE y # k
      <4>1. /\ r[y] = r[tree.kid[y][t]] + Long(tree', y, t)
            /\ r[tree.kid[y][t]] \in Int /\ Long(tree', y, t) \in Int /\ q[y] = r[y]
        <5>1. r[y] = r[tree.kid[y][t]] + (IF t \in tree.red[y] THEN 2 ELSE 1)
              /\ r[tree.kid[y][t]] \in Int
          BY <1>1, Edge, ConstantsAssumption
        <5>2. QED
          BY <2>5, <2>6, <3>2, <5>1 DEF Long, Pointers
      <4>2. CASE y = p /\ t = u
        <5>1. tree'.kid[y][t] = k /\ r[tree.kid[y][t]] = -1
          BY <2>6, <2>8, <4>2, ConstantsAssumption
        <5>2. QED
          BY <2>5, <4>1, <5>1
      <4>3. CASE ~(y = p /\ t = u)
        <5>1. /\ tree'.kid[y][t] = tree.kid[y][t] /\ tree.kid[y][t] # k
              /\ tree.kid[y][t] \in Pointers
          BY <1>1, <2>6, <2>7, <3>2, <4>3 DEF Typed
        <5>2. q[tree'.kid[y][t]] = r[tree.kid[y][t]]
          BY <2>5, <5>1
        <5>3. QED
          BY <4>1, <5>1, <5>2
      <4>4. QED
        BY <4>2, <4>3
    <3>3. QED
      BY <3>1, <3>2
  <2>10. Balanced(tree', q, p, SideOf(tree', p, k), -1)
    <3>1. SameLinks(tree', tree') /\ -1 \in Int
      BY <2>4 DEF SameLinks, Links
    <3>2. QED
      BY <2>4, <2>5, <2>6, <2>9, <3>1, ParentEdge
  <2>11. LeafRule(tree', NULL)
    <3>1. ASSUME NEW y \in Keys, \A t \in Sides : tree'.kid[y][t] = NULL
          PROVE  tree'.red[y] = {}
      <4>1. CASE y = k
        BY <2>6, <4>1
      <4>2. CASE y # k
        <5>1. y # p
          BY <1>2, <2>6, <3>1, ConstantsAssumption
        <5>2. \A t \in Sides : tree.kid[y][t] = NULL
          BY <2>6, <3>1, <4>2, <5>1
        <5>3. tree.red[y] = {}
          BY <1>1, <5>2, ConstantsAssumption DEF LeafRule
        <5>4. QED
          BY <2>6, <4>2, <5>3
      <4>3. QED
        BY <4>1, <4>2
    <3>2. QED
      BY <3>1 DEF LeafRule
  <2>12. Inserting(q)'
    <3>1. /\ pc' = "insert_color" /\ parent' = NULL /\ tree'.up[elm'] = p
          /\ Balanced(tree', q, p, SideOf(tree', p, elm'), -1)
          /\ LeafRule(tree', NULL) /\ Promoted(tree', elm')
      BY <2>1, <2>6, <2>10, <2>11 DEF Promoted
    <3>2. PICK pp : pp = p
      OBVIOUS
    <3>3. QED
      BY <3>1, <3>2 DEF Inserting
  <2>13. TreeInv(e, q)'
    BY <2>1, <2>4, <2>5, <2>12 DEF TreeInv, Progress
  <2>14. QED
    BY <1>1, <2>1, <2>3, <2>4, <2>13
<1>6. QED
  BY <1>4, <1>5

-----------------------------------------------------------------------------
(* Removal.  Node n, which has no child but c, is taken out: c is where it *)
(* was.                                                                    *)
Cut(T, U, n, c) ==
    /\ Typed(U)
    /\ U.root = IF T.up[n] = NULL THEN c ELSE T.root
    /\ \A y \in Keys, t \in Sides :
          U.kid[y][t] = IF y = n THEN NULL ELSE IF T.kid[y][t] = n THEN c ELSE T.kid[y][t]
    /\ \A y \in Keys :
          U.up[y] = IF y = n THEN NULL ELSE IF y = c THEN T.up[n] ELSE T.up[y]
    /\ U.red[n] = {} /\ \A y \in Keys : y # n => U.red[y] = T.red[y]

CutSets(d, n) == [m \in Pointers |-> IF m = n THEN {n} ELSE d[m] \ {n}]

(* n's only child, if it has any, is on side s.                            *)
OneKid(T, n, s, c) == s \in Sides /\ T.kid[n][s] = c /\ T.kid[n][Other(s)] = NULL

(* The tree without n has the other keys, in their order.                  *)
LEMMA CutLinks ==
    ASSUME NEW T, NEW d, Links(T, d), NEW n \in d[T.root], NEW s, NEW c, OneKid(T, n, s, c),
           NEW U, Cut(T, U, n, c)
    PROVE  Links(U, CutSets(d, n)) /\ CutSets(d, n)[U.root] = d[T.root] \ {n}
<1> DEFINE e == CutSets(d, n)
           p == T.up[n]
<1>1. /\ d \in [Pointers -> SUBSET Keys] /\ d[NULL] = {} /\ NULL \notin Keys
      /\ T.root \in Pointers /\ T.root # NULL /\ NULL \in Pointers
      /\ \A y \in Keys : IsFiniteSet(d[y]) /\ y \in Pointers
      /\ \A y \in Keys, t \in Sides : T.kid[y][t] \in Pointers
  BY ConstantsAssumption DEF Links, Grown, Typed, Pointers
<1>2. n \in Keys /\ T.root \in Keys
  BY <1>1 DEF Pointers
<1>3. /\ s \in Sides /\ T.kid[n][s] = c /\ c \in Pointers
      /\ \A t \in Sides : t # s => T.kid[n][t] = NULL
  BY <1>1, <1>2, SideFacts DEF OneKid
<1>4. d[n] = {n} \cup d[c] /\ n \notin d[c] /\ n # c
  <2>1. d[n] = {n} \cup d[c]
    BY <1>1, <1>2, <1>3, SideFacts, Hanging DEF Links
  <2>2. n \notin d[c]
    BY <1>2, <1>3 DEF Links, Ordered
  <2>3. c \in Keys => c \in d[c]
    BY Hanging DEF Links
  <2>4. QED
    BY <1>2, <2>1, <2>2, <2>3
<1>5. /\ e \in [Pointers -> SUBSET Keys] /\ e[n] = {n}
      /\ \A m \in Pointers : m # n => e[m] = d[m] \ {n}
  BY <1>1, <1>2 DEF CutSets
<1> HIDE DEF e
<1>6. /\ Typed(U)
      /\ U.root = IF p = NULL THEN c ELSE T.root
      /\ \A t \in Sides : U.kid[n][t] = NULL
      /\ \A y \in Keys, t \in Sides :
            y # n => U.kid[y][t] = IF T.kid[y][t] = n THEN c ELSE T.kid[y][t]
      /\ U.up[n] = NULL /\ (c \in Keys => U.up[c] = p)
      /\ \A y \in Keys : y # n /\ y # c => U.up[y] = T.up[y]
  BY <1>2, <1>4 DEF Cut
<1>7. \A y \in Keys, t \in Sides : y # n => e[U.kid[y][t]] = d[T.kid[y][t]] \ {n}
  BY <1>1, <1>3, <1>4, <1>5, <1>6
<1>8. e[NULL] = {}
  BY <1>1, <1>2, <1>5
<1>9. Grown(U, e)
  <2>1. ASSUME NEW y \in Keys
        PROVE  IsFiniteSet(e[y])
    <3>1. IsFiniteSet(d[y] \ {n}) /\ IsFiniteSet({n})
      BY <1>1, FS_Singleton, FS_RemoveElement
    <3>2. QED
      BY <1>1, <1>5, <3>1
  <2>2. ASSUME NEW y \in Keys
        PROVE  e[y] = {y} \cup e[U.kid[y]["left"]] \cup e[U.kid[y]["right"]]
    <3>1. "left" \in Sides /\ "right" \in Sides
      BY DEF Sides
    <3>2. CASE y = n
      BY <1>5, <1>6, <1>8, <3>1, <3>2
    <3>3. CASE y # n
      <4>1. d[y] = {y} \cup d[T.kid[y]["left"]] \cup d[T.kid[y]["right"]]
        BY DEF Links, Grown
      <4>2. e[y] = d[y] \ {n}
        BY <1>1, <1>5, <3>3
      <4>3. QED
        BY <1>7, <3>1, <3>3, <4>1, <4>2
    <3>4. QED
      BY <3>2, <3>3
  <2>3. QED
    BY <1>5, <1>8, <2>1, <2>2 DEF Grown
<1>10. Ordered(U, e)
  <2>1. ASSUME NEW y \in Keys, NEW t \in Sides, NEW m \in e[U.kid[y][t]]
        PROVE  m # y /\ Toward(m, y) = t
    <3>1. y # n
      BY <1>6, <1>8, <2>1
    <3>2. m \in d[T.kid[y][t]]
      BY <1>7, <2>1, <3>1
    <3>3. QED
      BY <3>2 DEF Links, Ordered
  <2>2. QED
    BY <2>1 DEF Ordered
<1>11. e[U.root] = d[T.root] \ {n}
  <2>1. p = NULL <=> n = T.root
    BY <1>2 DEF Links, Paired
  <2>2. CASE p = NULL
    BY <1>3, <1>4, <1>5, <1>6, <2>1, <2>2
  <2>3. CASE p # NULL
    BY <1>1, <1>5, <1>6, <2>1, <2>3
  <2>4. QED
    BY <2>2, <2>3
<1>12. Paired(U, e)
  <2>0. /\ \A y \in Keys, t \in Sides : T.kid[y][t] # NULL => T.up[T.kid[y][t]] = y
        /\ c # NULL => T.up[c] = n /\ c \in Keys
        /\ c # NULL => c \in d[T.root]
    <3>1. \A y \in Keys, t \in Sides : T.kid[y][t] # NULL => T.up[T.kid[y][t]] = y
      BY DEF Links, Paired
    <3>2. c # NULL => c \in d[c] /\ c \in Keys
      BY <1>3, Hanging DEF Links, Pointers
    <3>3. d[n] \subseteq d[T.root]
      BY <1>2, Nested
    <3>4. QED
      BY <1>2, <1>3, <1>4, <3>1, <3>2, <3>3
  <2>1. ASSUME NEW y \in Keys, NEW t \in Sides, U.kid[y][t] # NULL
        PROVE  U.up[U.kid[y][t]] = y
    <3>1. y # n
      BY <1>6, <2>1
    <3>2. CASE T.kid[y][t] = n
      <4>1. T.up[n] = y /\ U.kid[y][t] = c /\ c \in Keys
        BY <1>1, <1>2, <1>6, <2>0, <2>1, <3>1, <3>2
      <4>2. QED
        BY <1>6, <4>1
    <3>3. CASE T.kid[y][t] # n
      <4>1. U.kid[y][t] = T.kid[y][t] /\ T.kid[y][t] \in Keys
        BY <1>1, <1>6, <2>1, <3>1, <3>3 DEF Pointers
      <4>2. T.up[T.kid[y][t]] = y
        BY <2>0, <2>1, <4>1
      <4>3. T.kid[y][t] # c
        BY <2>0, <2>1, <3>1, <4>1, <4>2
      <4>4. QED
        BY <1>6, <3>3, <4>1, <4>2, <4>3
    <3>4. QED
      BY <3>2, <3>3
  <2>2. ASSUME NEW y \in Keys, U.up[y] # NULL
        PROVE  \E t \in Sides : U.kid[U.up[y]][t] = y
    <3>1. y # n
      BY <1>6, <2>2
    <3>2. CASE y = c
      <4>1. U.up[y] = p /\ p # NULL
        BY <1>6, <2>2, <3>2
      <4>2. p \in Keys /\ p # n /\ \E t \in Sides : T.kid[p][t] = n
        BY <1>2, <4>1, OneParent
      <4>3. QED
        BY <1>6, <3>2, <4>1, <4>2
    <3>3. CASE y # c
      <4>1. U.up[y] = T.up[y] /\ T.up[y] # NULL
        BY <1>6, <2>2, <3>1, <3>3
      <4>2. T.up[y] \in Keys /\ \E t \in Sides : T.kid[T.up[y]][t] = y
        BY <4>1, OneParent
      <4>3. T.up[y] # n
        BY <1>1, <1>3, <3>3, <4>2
      <4>4. QED
        BY <1>6, <3>1, <4>1, <4>2, <4>3
    <3>4. QED
      BY <3>2, <3>3
  <2>3. ASSUME NEW y \in Keys
        PROVE  U.up[y] = NULL <=> (y = U.root \/ y \notin e[U.root])
    <3>1. /\ T.up[y] = NULL <=> (y = T.root \/ y \notin d[T.root])
          /\ p = NULL <=> n = T.root
      BY <1>2 DEF Links, Paired
    <3>2. CASE y = n
      BY <1>6, <1>11, <3>2
    <3>3. CASE y = c
      <4>1. y \in e[U.root] /\ T.root # y
        BY <1>1, <1>2, <1>4, <1>11, <2>0, <3>1, <3>3
      <4>2. QED
        BY <1>6, <3>3, <4>1
    <3>4. CASE y # n /\ y # c
      BY <1>6, <1>11, <3>1, <3>4
    <3>5. QED
      BY <3>2, <3>3, <3>4
  <2>4. ASSUME NEW y \in Keys, NEW t \in Sides, y \notin e[U.root]
        PROVE  U.kid[y][t] = NULL
    <3>1. CASE y = n
      BY <1>6, <3>1
    <3>2. CASE y # n
      <4>1. T.kid[y][t] = NULL
        BY <1>11, <2>4, <3>2 DEF Links, Paired
      <4>2. QED
        BY <1>1, <1>2, <1>6, <3>2, <4>1
    <3>3. QED
      BY <3>1, <3>2
  <2>5. QED
    BY <2>1, <2>2, <2>3, <2>4 DEF Paired
<1>13. QED
  BY <1>6, <1>9, <1>10, <1>11, <1>12 DEF Links, e

(* The place where n was is shorter by exactly one, since a node with one  *)
(* child has rank 1 and a leaf rank 0.                                     *)
LEMMA CutRanks ==
    ASSUME NEW T, NEW d, Links(T, d), NEW n \in d[T.root], NEW s, NEW c, OneKid(T, n, s, c),
           NEW U, Cut(T, U, n, c), NEW r, Ranked(r), Balanced(T, r, NULL, "left", 0),
           LeafRule(T, NULL)
    PROVE  /\ \E q : Ranked(q) /\ Balanced(U, q, T.up[n], SideOf(T, T.up[n], n), 1)
           /\ LeafRule(U, T.up[n])
<1> DEFINE p == T.up[n]
           u == SideOf(T, p, n)
<1>1. n \in Keys /\ NULL \notin Keys /\ Typed(T)
  BY ConstantsAssumption DEF Links, Grown, Typed
<1>2. /\ s \in Sides /\ T.kid[n][s] = c /\ c \in Pointers
      /\ T.kid[n][Other(s)] = NULL /\ Other(s) \in Sides
      /\ \A t \in Sides : t = s \/ t = Other(s)
  BY <1>1, SideFacts DEF OneKid, Typed
<1>3. r[c] = r[n] - 1 /\ r[c] \in Int /\ r[n] \in Int
  <2>1. /\ r[n] = r[c] + (IF s \in T.red[n] THEN 2 ELSE 1)
        /\ r[c] \in Int /\ r[n] \in Int /\ (c \in Keys => r[c] >= 0)
    BY <1>1, <1>2, Edge
  <2>2. /\ r[n] = r[NULL] + (IF Other(s) \in T.red[n] THEN 2 ELSE 1) /\ r[NULL] = -1
    BY <1>1, <1>2, Edge DEF Ranked
  <2>3. CASE c = NULL
    <3>1. T.red[n] = {}
      BY <1>1, <1>2, <2>3 DEF LeafRule
    <3>2. QED
      BY <2>1, <3>1
  <2>4. CASE c # NULL
    <3>1. r[c] >= 0
      BY <1>2, <2>1, <2>4 DEF Pointers
    <3>2. QED
      BY <2>1, <2>2, <3>1
  <2>5. QED
    BY <2>3, <2>4
<1>4. /\ Typed(U) /\ U.red[n] = {} /\ \A y \in Keys : y # n => U.red[y] = T.red[y]
      /\ \A t \in Sides : U.kid[n][t] = NULL
      /\ \A y \in Keys, t \in Sides :
            y # n => U.kid[y][t] = IF T.kid[y][t] = n THEN c ELSE T.kid[y][t]
  BY <1>1 DEF Cut
<1>5. PICK q : Ranked(q) /\ q[n] = 0 /\ \A y \in Pointers : y # n => q[y] = r[y]
  BY <1>1, RankSet
<1>6. c # n
  <2>1. c # NULL => c # n
    BY <1>1, <1>2, KidFacts DEF Links
  <2>2. QED
    BY <1>1, <2>1
<1>7. \A y \in Keys, t \in Sides : T.kid[y][t] = n <=> y = p /\ t = u
  <2>1. p # NULL => p \in Keys /\ u \in Sides /\ T.kid[p][u] = n
    BY <1>1, OneParent
  <2>2. \A y \in Keys, t \in Sides : T.kid[y][t] = n => y = p /\ t = u
    <3>1. \A y \in Keys, t \in Sides : T.kid[y][t] = n => p = y
      BY <1>1 DEF Links, Paired
    <3>2. QED
      BY <1>1, <3>1, OneParent
  <2>3. QED
    BY <1>1, <2>1, <2>2
<1>8. ASSUME NEW y \in Keys, NEW t \in Sides
      PROVE  q[y] = q[U.kid[y][t]] + Long(U, y, t) + IF y = p /\ t = u THEN 1 ELSE 0
  <2>1. CASE y = n
    <3>1. Long(U, y, t) = 1 /\ U.kid[y][t] = NULL /\ q[NULL] = -1
      BY <1>4, <1>5, <2>1 DEF Long, Ranked
    <3>2. ~(y = p /\ t = u)
      BY <1>1, <1>7, <2>1, KidFacts DEF Links
    <3>3. QED
      BY <1>5, <2>1, <3>1, <3>2
  <2>2. CASE y # n
    <3>1. /\ r[y] = r[T.kid[y][t]] + Long(U, y, t) /\ Long(U, y, t) \in Int
          /\ r[T.kid[y][t]] \in Int /\ q[y] = r[y]
      <4>1. /\ r[y] = r[T.kid[y][t]] + (IF t \in T.red[y] THEN 2 ELSE 1)
            /\ r[T.kid[y][t]] \in Int
        BY <1>1, Edge
      <4>2. QED
        BY <1>4, <1>5, <2>2, <4>1 DEF Long, Pointers
    <3>2. T.kid[y][t] \in Pointers
      BY <1>1 DEF Typed
    <3>3. CASE T.kid[y][t] = n
      <4>1. q[U.kid[y][t]] = r[n] - 1 /\ r[T.kid[y][t]] = r[n]
        BY <1>2, <1>3, <1>4, <1>5, <1>6, <2>2, <3>3
      <4>2. QED
        BY <1>3, <1>7, <3>1, <3>3, <4>1
    <3>4. CASE T.kid[y][t] # n
      <4>1. q[U.kid[y][t]] = r[T.kid[y][t]]
        BY <1>4, <1>5, <2>2, <3>2, <3>4
      <4>2. QED
        BY <1>7, <3>1, <3>4, <4>1
    <3>5. QED
      BY <3>3, <3>4
  <2>3. QED
    BY <2>1, <2>2
<1>9. Balanced(U, q, p, u, 1)
  BY <1>8 DEF Balanced
<1>10. LeafRule(U, p)
  <2>1. ASSUME NEW y \in Keys, y # p, \A t \in Sides : U.kid[y][t] = NULL
        PROVE  U.red[y] = {}
    <3>1. CASE y = n
      BY <1>4, <3>1
    <3>2. CASE y # n
      <4>1. \A t \in Sides : T.kid[y][t] = NULL
        BY <1>4, <1>7, <2>1, <3>2
      <4>2. QED
        BY <1>1, <1>4, <3>2, <4>1 DEF LeafRule
    <3>3. QED
      BY <3>1, <3>2
  <2>2. QED
    BY <2>1 DEF LeafRule
<1>11. QED
  BY <1>5, <1>9, <1>10

(* The fields that the code of a removal writes, one step at a time.       *)
UpWritten(T, m, src, U) ==
    /\ Typed(U) /\ U.root = T.root /\ U.red = T.red /\ U.kid = T.kid
    /\ \A y \in Keys : U.up[y] = IF y = m THEN src ELSE T.up[y]

(* SetParent writes a node's parent, if there is a node.                   *)
LEMMA SetParentIs ==
    ASSUME NEW T, Typed(T), NEW m \in Pointers, NEW src \in Pointers
    PROVE  UpWritten(T, m, src, SetParent(T, m, src))
<1>1. CASE m = NULL
  BY <1>1, ConstantsAssumption DEF SetParent, UpWritten
<1>2. CASE m # NULL
  BY <1>2 DEF SetParent, UpWritten, Typed, Pointers
<1>3. QED
  BY <1>1, <1>2

ChildSwapped(T, n, c, U) ==
    /\ Typed(U) /\ U.red = T.red /\ U.up = T.up
    /\ U.root = IF T.up[n] = NULL THEN c ELSE T.root
    /\ \A y \in Keys, t \in Sides :
          U.kid[y][t] = IF y = T.up[n] /\ t = SideOf(T, T.up[n], n) THEN c ELSE T.kid[y][t]

(* SwapChild writes the pointer to n.                                      *)
LEMMA SwapIs ==
    ASSUME NEW T, Typed(T), NEW n \in Keys, NEW c \in Pointers
    PROVE  ChildSwapped(T, n, c, SwapChild(T, n, c))
<1> DEFINE p == T.up[n]
           u == SideOf(T, p, n)
           U == SwapChild(T, n, c)
<1>1. p \in Pointers
  BY DEF Typed
<1>2. CASE p = NULL
  <2>1. U = [T EXCEPT !.root = c] /\ \A y \in Keys : y # p
    BY <1>2, ConstantsAssumption DEF SwapChild
  <2>2. QED
    BY <1>2, <2>1 DEF ChildSwapped, Typed
<1>3. CASE p # NULL
  <2>1. p \in Keys /\ u \in Sides
    BY <1>1, <1>3 DEF Pointers, SideOf, Sides
  <2>2. U = SetKid(T, p, u, c)
    BY <1>3 DEF SwapChild, SetKid
  <2> HIDE DEF U, u, p
  <2>3. KidWritten(T, p, u, c, U)
    BY <2>1, <2>2, KidIs
  <2>4. QED
    BY <1>3, <2>3 DEF KidWritten, ChildSwapped, U, u, p
<1>4. QED
  BY <1>2, <1>3

Forgotten(T, n, U) ==
    /\ Typed(U) /\ U.root = T.root
    /\ \A y \in Keys : /\ U.up[y] = IF y = n THEN NULL ELSE T.up[y]
                       /\ U.red[y] = IF y = n THEN {} ELSE T.red[y]
                       /\ \A t \in Sides : U.kid[y][t] = IF y = n THEN NULL ELSE T.kid[y][t]

(* Forget clears the fields of one node.                                   *)
LEMMA ForgetIs ==
    ASSUME NEW T, Typed(T), NEW n \in Keys
    PROVE  Forgotten(T, n, Forget(T, n))
<1>1. Nil \in [Sides -> Pointers] /\ (\A t \in Sides : Nil[t] = NULL) /\ NULL \in Pointers
  BY DEF Nil, Pointers
<1>2. QED
  BY <1>1 DEF Forget, Forgotten, Typed

(* A node with at most one child is bypassed.                              *)
LEMMA BypassCuts ==
    ASSUME NEW d, Links(tree, d), NEW n \in d[tree.root],
           NULL \in {tree.kid[n][s] : s \in Sides}
    PROVE  /\ \E s : OneKid(tree, n, s, Bypass(n).child)
           /\ Cut(tree, Forget(Bypass(n).tree, n), n, Bypass(n).child)
           /\ Bypass(n).parent = tree.up[n]
<1> DEFINE c == OnlyChild(n)
           p == tree.up[n]
           T1 == SwapChild(tree, n, c)
           T2 == SetParent(T1, c, p)
           U == Forget(T2, n)
<1>1. Bypass(n).tree = T2 /\ Bypass(n).parent = p /\ Bypass(n).child = c
  BY DEF Bypass
<1>2. n \in Keys /\ Typed(tree) /\ p \in Pointers
  BY DEF Links, Grown, Typed
<1>3. \E s : OneKid(tree, n, s, c)
  <2>1. CASE tree.kid[n]["left"] = NULL
    <3>1. OneKid(tree, n, "right", c)
      BY <2>1 DEF OneKid, OnlyChild, Sides, Other
    <3>2. QED
      BY <3>1
  <2>2. CASE tree.kid[n]["left"] # NULL
    <3>1. OneKid(tree, n, "left", c)
      BY <2>2 DEF OneKid, OnlyChild, Sides, Other
    <3>2. QED
      BY <3>1
  <2>3. QED
    BY <2>1, <2>2
<1> HIDE DEF c
<1>4. c \in Pointers /\ c # n
  <2>1. PICK s \in Sides : tree.kid[n][s] = c
    BY <1>3 DEF OneKid
  <2>2. QED
    BY <1>2, <2>1, KidFacts, ConstantsAssumption DEF Links, Typed
<1>5. ChildSwapped(tree, n, c, T1)
  BY <1>2, <1>4, SwapIs
<1> HIDE DEF T1
<1>6. Typed(T1)
  BY <1>5 DEF ChildSwapped
<1>7. UpWritten(T1, c, p, T2)
  BY <1>2, <1>4, <1>6, SetParentIs
<1> HIDE DEF T2
<1>8. Typed(T2)
  BY <1>7 DEF UpWritten
<1>9. Forgotten(T2, n, U)
  BY <1>2, <1>8, ForgetIs
<1> HIDE DEF U
<1>10. \A y \in Keys, t \in Sides : tree.kid[y][t] = n <=> y = p /\ t = SideOf(tree, p, n)
  <2>1. p # NULL => tree.kid[p][SideOf(tree, p, n)] = n
    BY <1>2, OneParent
  <2>2. \A y \in Keys, t \in Sides : tree.kid[y][t] = n => p = y
    BY <1>2, ConstantsAssumption DEF Links, Paired
  <2>3. QED
    BY <1>2, <2>1, <2>2, OneParent, ConstantsAssumption
<1>11. Cut(tree, U, n, c)
  <2>1. ASSUME NEW y \in Keys, NEW t \in Sides
        PROVE  U.kid[y][t] = IF y = n THEN NULL
                             ELSE IF tree.kid[y][t] = n THEN c ELSE tree.kid[y][t]
    <3>1. T2.kid = T1.kid
      BY <1>7 DEF UpWritten
    <3>2. T1.kid[y][t] = IF tree.kid[y][t] = n THEN c ELSE tree.kid[y][t]
      BY <1>5, <1>10 DEF ChildSwapped, p
    <3>3. QED
      BY <1>9, <3>1, <3>2 DEF Forgotten
  <2>2. ASSUME NEW y \in Keys
        PROVE  U.up[y] = IF y = n THEN NULL ELSE IF y = c THEN p ELSE tree.up[y]
    BY <1>5, <1>7, <1>9 DEF ChildSwapped, UpWritten, Forgotten
  <2>3. ASSUME NEW y \in Keys
        PROVE  U.red[y] = IF y = n THEN {} ELSE tree.red[y]
    BY <1>5, <1>7, <1>9 DEF ChildSwapped, UpWritten, Forgotten
  <2>4. Typed(U) /\ U.root = IF p = NULL THEN c ELSE tree.root
    BY <1>5, <1>7, <1>9 DEF ChildSwapped, UpWritten, Forgotten
  <2>5. QED
    BY <1>2, <2>1, <2>2, <2>3, <2>4 DEF Cut
<1>12. QED
  BY <1>1, <1>3, <1>11 DEF U

-----------------------------------------------------------------------------
(* Node x, from outside the tree, takes the place of node n.               *)
Sub(n, x, y) == IF y = n THEN x ELSE IF y = x THEN n ELSE y

Renamed(T, U, n, x) ==
    /\ Typed(U)
    /\ U.root = Sub(n, x, T.root)
    /\ \A y \in Keys : /\ U.up[y] = Sub(n, x, T.up[Sub(n, x, y)])
                       /\ U.red[y] = T.red[Sub(n, x, y)]
    /\ \A y \in Keys, t \in Sides : U.kid[y][t] = Sub(n, x, T.kid[Sub(n, x, y)][t])

RenamedSets(d, n, x) == [y \in Pointers |-> {z \in Keys : Sub(n, x, z) \in d[Sub(n, x, y)]}]

(* Swapping the two names twice changes nothing.                           *)
LEMMA SubFacts ==
    ASSUME NEW n \in Keys, NEW x \in Keys
    PROVE  /\ \A y \in Keys : Sub(n, x, y) \in Keys
           /\ \A y \in Pointers : Sub(n, x, y) \in Pointers
           /\ \A y : Sub(n, x, Sub(n, x, y)) = y
           /\ Sub(n, x, NULL) = NULL
           /\ \A y : Sub(n, x, y) = NULL => y = NULL
           /\ Sub(n, x, n) = x /\ Sub(n, x, x) = n
           /\ \A y : y # n /\ y # x => Sub(n, x, y) = y
BY ConstantsAssumption DEF Sub, Pointers

(* x has n's place in the order of the nodes in S.                         *)
Fits(S, n, x) ==
    \A m \in S : m # n => Toward(m, x) = Toward(m, n) /\ Toward(x, m) = Toward(n, m)

(* The tree with x for n is in order if x fits there.                      *)
LEMMA RenameLinks ==
    ASSUME NEW T, NEW d, Links(T, d), NEW n \in d[T.root], NEW x \in Keys, x \notin d[T.root],
           Fits(d[T.root], n, x), NEW U, Renamed(T, U, n, x)
    PROVE  /\ Links(U, RenamedSets(d, n, x))
           /\ RenamedSets(d, n, x)[U.root] = (d[T.root] \ {n}) \cup {x}
<1> DEFINE e == RenamedSets(d, n, x)
           f(y) == Sub(n, x, y)
<1>1. /\ d \in [Pointers -> SUBSET Keys] /\ d[NULL] = {} /\ NULL \notin Keys
      /\ T.root \in Keys /\ NULL \in Pointers /\ n \in Keys /\ n # x
      /\ \A y \in Keys : IsFiniteSet(d[y]) /\ y \in Pointers
      /\ \A y \in Keys, t \in Sides : T.kid[y][t] \in Pointers
      /\ \A y \in Keys : T.up[y] \in Pointers
  BY ConstantsAssumption DEF Links, Grown, Typed, Pointers
<1>2. /\ \A y \in Keys : f(y) \in Keys
      /\ \A y \in Pointers : f(y) \in Pointers
      /\ \A y : f(f(y)) = y
      /\ f(NULL) = NULL /\ \A y : f(y) = NULL => y = NULL
      /\ f(n) = x /\ f(x) = n /\ \A y : y # n /\ y # x => f(y) = y
  BY <1>1, SubFacts
<1>3. /\ Typed(U) /\ U.root = f(T.root)
      /\ \A y \in Keys : U.up[y] = f(T.up[f(y)])
      /\ \A y \in Keys, t \in Sides : U.kid[y][t] = f(T.kid[f(y)][t])
  BY DEF Renamed
<1>4. /\ e \in [Pointers -> SUBSET Keys]
      /\ \A y \in Pointers, z \in Keys : z \in e[y] <=> f(z) \in d[f(y)]
  BY <1>2 DEF RenamedSets
<1> HIDE DEF e, f
<1>5. \A y \in Keys, t \in Sides, z \in Keys : z \in e[U.kid[y][t]] <=> f(z) \in d[T.kid[f(y)][t]]
  <2>1. \A y \in Keys, t \in Sides : U.kid[y][t] \in Pointers /\ f(U.kid[y][t]) = T.kid[f(y)][t]
    BY <1>1, <1>2, <1>3
  <2>2. QED
    BY <1>4, <2>1
<1>6. \A z \in Keys : z \in e[U.root] <=> f(z) \in d[T.root]
  BY <1>1, <1>2, <1>3, <1>4
<1>7. Grown(U, e)
  <2>1. ASSUME NEW y \in Keys
        PROVE  IsFiniteSet(e[y])
    <3>1. IsFiniteSet((d[f(y)] \cup {n}) \cup {x})
      BY <1>1, <1>2, FS_AddElement
    <3>2. e[y] \subseteq (d[f(y)] \cup {n}) \cup {x}
      BY <1>1, <1>2, <1>4
    <3>3. QED
      BY <3>1, <3>2, FS_Subset
  <2>2. e[NULL] = {}
    BY <1>1, <1>2, <1>4
  <2>3. ASSUME NEW y \in Keys
        PROVE  e[y] = {y} \cup e[U.kid[y]["left"]] \cup e[U.kid[y]["right"]]
    <3>1. "left" \in Sides /\ "right" \in Sides
      BY DEF Sides
    <3>2. /\ e[y] \subseteq Keys
          /\ \A t \in Sides : e[U.kid[y][t]] \subseteq Keys
      BY <1>1, <1>3, <1>4 DEF Typed
    <3>3. d[f(y)] = {f(y)} \cup d[T.kid[f(y)]["left"]] \cup d[T.kid[f(y)]["right"]]
      BY <1>2 DEF Links, Grown
    <3>4. \A z \in Keys : z \in e[y] <=> (z = y \/ z \in e[U.kid[y]["left"]]
                                          \/ z \in e[U.kid[y]["right"]])
      <4>1. ASSUME NEW z \in Keys
            PROVE  z \in e[y] <=> (z = y \/ z \in e[U.kid[y]["left"]] \/ z \in e[U.kid[y]["right"]])
        <5>1. z \in e[y] <=> f(z) \in d[f(y)]
          BY <1>1, <1>4
        <5>2. f(z) = f(y) <=> z = y
          BY <1>2
        <5>3. \A t \in Sides : z \in e[U.kid[y][t]] <=> f(z) \in d[T.kid[f(y)][t]]
          BY <1>5
        <5>4. QED
          BY <3>1, <3>3, <5>1, <5>2, <5>3
      <4>2. QED
        BY <4>1, Zenon
    <3>5. QED
      BY <3>1, <3>2, <3>4
  <2>4. QED
    BY <1>4, <2>1, <2>2, <2>3 DEF Grown
<1>8. Ordered(U, e)
  <2>1. ASSUME NEW y \in Keys, NEW t \in Sides, NEW z \in e[U.kid[y][t]]
        PROVE  z # y /\ Toward(z, y) = t
    <3>1. z \in Keys
      BY <1>3, <1>4 DEF Typed
    <3>2. f(z) \in d[T.kid[f(y)][t]] /\ f(z) \in Keys /\ f(y) \in Keys
      BY <1>2, <1>5, <3>1
    <3>3. f(z) # f(y) /\ Toward(f(z), f(y)) = t
      BY <3>2 DEF Links, Ordered
    <3>4. f(y) \in d[T.root]
      BY <1>1, <3>2 DEF Links, Paired
    <3>5. f(z) \in d[T.root]
      <4>1. d[f(y)] \subseteq d[T.root]
        BY <1>1, <3>4, Nested
      <4>2. d[T.kid[f(y)][t]] \subseteq d[f(y)]
        BY <3>2, Hanging DEF Links
      <4>3. QED
        BY <3>2, <4>1, <4>2
    <3>6. z # y
      BY <3>3
    <3>7. f(z) # x /\ f(y) # x
      BY <3>4, <3>5
    <3>8. CASE f(z) = n
      <4>1. z = x /\ f(y) = y /\ y # n
        BY <1>2, <3>3, <3>7, <3>8
      <4>2. QED
        BY <3>3, <3>4, <3>6, <3>8, <4>1 DEF Fits
    <3>9. CASE f(y) = n
      <4>1. y = x /\ f(z) = z /\ z # n
        BY <1>2, <3>3, <3>7, <3>9
      <4>2. QED
        BY <3>3, <3>5, <3>6, <3>9, <4>1 DEF Fits
    <3>10. CASE f(z) # n /\ f(y) # n
      <4>1. f(z) = z /\ f(y) = y
        BY <1>2, <3>7, <3>10
      <4>2. QED
        BY <3>3, <4>1
    <3>11. QED
      BY <3>8, <3>9, <3>10
  <2>2. QED
    BY <2>1 DEF Ordered
<1>9. Paired(U, e)
  <2>1. ASSUME NEW y \in Keys, NEW t \in Sides, U.kid[y][t] # NULL
        PROVE  U.up[U.kid[y][t]] = y
    <3>1. U.kid[y][t] \in Keys /\ f(U.kid[y][t]) = T.kid[f(y)][t]
      BY <1>2, <1>3, <2>1 DEF Typed, Pointers
    <3>2. T.kid[f(y)][t] # NULL /\ f(y) \in Keys
      BY <1>2, <1>3, <2>1
    <3>3. T.up[T.kid[f(y)][t]] = f(y)
      BY <3>2 DEF Links, Paired
    <3>4. QED
      BY <1>2, <1>3, <3>1, <3>3
  <2>2. ASSUME NEW y \in Keys, U.up[y] # NULL
        PROVE  \E t \in Sides : U.kid[U.up[y]][t] = y
    <3>1. T.up[f(y)] # NULL /\ f(y) \in Keys /\ U.up[y] = f(T.up[f(y)])
      BY <1>2, <1>3, <2>2
    <3>2. PICK t \in Sides : T.kid[T.up[f(y)]][t] = f(y)
      BY <3>1 DEF Links, Paired
    <3>3. T.up[f(y)] \in Keys
      BY <1>1, <3>1 DEF Pointers
    <3>4. U.up[y] \in Keys /\ f(U.up[y]) = T.up[f(y)]
      BY <1>2, <3>1, <3>3
    <3>5. U.kid[U.up[y]][t] = y
      BY <1>2, <1>3, <3>2, <3>4
    <3>6. QED
      BY <3>5
  <2>3. ASSUME NEW y \in Keys
        PROVE  U.up[y] = NULL <=> (y = U.root \/ y \notin e[U.root])
    <3>1. T.up[f(y)] = NULL <=> (f(y) = T.root \/ f(y) \notin d[T.root])
      BY <1>2 DEF Links, Paired
    <3>2. U.up[y] = NULL <=> T.up[f(y)] = NULL
      BY <1>2, <1>3
    <3>3. y = U.root <=> f(y) = T.root
      BY <1>2, <1>3
    <3>4. QED
      BY <1>6, <3>1, <3>2, <3>3
  <2>4. ASSUME NEW y \in Keys, NEW t \in Sides, y \notin e[U.root]
        PROVE  U.kid[y][t] = NULL
    <3>1. T.kid[f(y)][t] = NULL
      BY <1>2, <1>6, <2>4 DEF Links, Paired
    <3>2. QED
      BY <1>2, <1>3, <3>1
  <2>5. QED
    BY <2>1, <2>2, <2>3, <2>4 DEF Paired
<1>10. e[U.root] = (d[T.root] \ {n}) \cup {x}
  <2>1. \A z \in Keys : f(z) \in d[T.root] <=> z \in (d[T.root] \ {n}) \cup {x}
    BY <1>1, <1>2
  <2>2. e[U.root] \subseteq Keys /\ d[T.root] \subseteq Keys
    BY <1>1, <1>2, <1>3, <1>4
  <2>3. QED
    BY <1>6, <2>1, <2>2
<1>11. QED
  BY <1>3, <1>7, <1>8, <1>9, <1>10 DEF Links, e

(* Its ranks are those it had, and so is the edge that is too long.        *)
LEMMA RenameRanks ==
    ASSUME NEW T, Typed(T), NEW n \in Keys, NEW x \in Keys, NEW U, Renamed(T, U, n, x),
           NEW r, Ranked(r), NEW p \in Pointers, NEW s, NEW g \in Int, Balanced(T, r, p, s, g),
           LeafRule(T, p)
    PROVE  /\ \E q : Ranked(q) /\ Balanced(U, q, Sub(n, x, p), s, g)
           /\ LeafRule(U, Sub(n, x, p))
<1> DEFINE f(y) == Sub(n, x, y)
           q == [y \in Pointers |-> r[f(y)]]
<1>1. /\ \A y \in Keys : f(y) \in Keys
      /\ \A y \in Pointers : f(y) \in Pointers
      /\ \A y : f(f(y)) = y
      /\ f(NULL) = NULL /\ \A y : f(y) = NULL => y = NULL
  BY SubFacts
<1>2. /\ Typed(U)
      /\ \A y \in Keys : U.red[y] = T.red[f(y)]
      /\ \A y \in Keys, t \in Sides : U.kid[y][t] = f(T.kid[f(y)][t])
  BY DEF Renamed
<1> HIDE DEF f
<1>3. Ranked(q) /\ \A y \in Pointers : q[y] = r[f(y)]
  BY <1>1, Zenon DEF Ranked, Pointers
<1> HIDE DEF q
<1>4. ASSUME NEW y \in Keys, NEW t \in Sides
      PROVE  q[y] = q[U.kid[y][t]] + Long(U, y, t) + IF y = f(p) /\ t = s THEN g ELSE 0
  <2>1. r[f(y)] = r[T.kid[f(y)][t]] + Long(T, f(y), t) + IF f(y) = p /\ t = s THEN g ELSE 0
    BY <1>1 DEF Balanced
  <2>2. Long(U, y, t) = Long(T, f(y), t)
    BY <1>2 DEF Long
  <2>3. q[y] = r[f(y)]
    BY <1>3 DEF Pointers
  <2>4. q[U.kid[y][t]] = r[T.kid[f(y)][t]]
    <3>1. U.kid[y][t] \in Pointers /\ f(U.kid[y][t]) = T.kid[f(y)][t]
      BY <1>1, <1>2 DEF Typed
    <3>2. QED
      BY <1>3, <3>1
  <2>5. f(y) = p <=> y = f(p)
    BY <1>1
  <2>6. QED
    BY <2>1, <2>2, <2>3, <2>4, <2>5
<1>5. Balanced(U, q, f(p), s, g)
  BY <1>4 DEF Balanced
<1>6. LeafRule(U, f(p))
  <2>1. ASSUME NEW y \in Keys, y # f(p), \A t \in Sides : U.kid[y][t] = NULL
        PROVE  U.red[y] = {}
    <3>1. f(y) \in Keys /\ f(y) # p /\ \A t \in Sides : T.kid[f(y)][t] = NULL
      BY <1>1, <1>2, <2>1
    <3>2. QED
      BY <1>2, <3>1 DEF LeafRule
  <2>2. QED
    BY <2>1 DEF LeafRule
<1>7. QED
  BY <1>3, <1>5, <1>6 DEF f

-----------------------------------------------------------------------------
(* Of two nodes below w, there is a lowest one that both hang from.        *)
LEMMA Meeting ==
    ASSUME NEW T, NEW d, Links(T, d), NEW w \in Keys, NEW x \in d[w], NEW y \in d[w]
    PROVE  \E a \in d[w] : /\ a \in Keys /\ x \in d[a] /\ y \in d[a]
                           /\ \A s \in Sides : ~(x \in d[T.kid[a][s]] /\ y \in d[T.kid[a][s]])
<1> DEFINE S == {a \in d[w] : x \in d[a] /\ y \in d[a]}
<1>1. S \in SUBSET Keys /\ w \in S
  BY Hanging DEF Links
<1>2. PICK a \in S : \A s \in Sides : T.kid[a][s] \notin S
  BY <1>1, Lowest DEF Links
<1>3. a \in Keys /\ a \in d[w] /\ x \in d[a] /\ y \in d[a]
  BY <1>1
<1>4. ASSUME NEW s \in Sides, x \in d[T.kid[a][s]], y \in d[T.kid[a][s]]
      PROVE  FALSE
  <2>1. T.kid[a][s] # NULL
    BY <1>4 DEF Links, Grown
  <2>2. T.kid[a][s] \in d[a]
    BY <1>3, <2>1, KidFacts DEF Links
  <2>3. d[a] \subseteq d[w]
    BY <1>3, Nested
  <2>4. QED
    BY <1>2, <1>4, <2>2, <2>3
<1>5. QED
  BY <1>3, <1>4

(* The node farthest to side s below n is below n, has no child there, and *)
(* all else below n is on the other side of it.                            *)
LEMMA ExtremeIs ==
    ASSUME NEW T, NEW d, Links(T, d), NEW n \in Keys, NEW s \in Sides
    PROVE  /\ Extreme(T, n, s) \in d[n] /\ T.kid[Extreme(T, n, s)][s] = NULL
           /\ \A m \in d[n] : m # Extreme(T, n, s) => Toward(Extreme(T, n, s), m) = s
<1> DEFINE g == [m \in Keys |-> s]
           F(f) == f = [m \in Keys |-> IF T.kid[m][s] = NULL THEN m ELSE f[T.kid[m][s]]]
           w == CHOOSE f : F(f)
           x == w[n]
<1>1. g \in [Keys -> Sides] /\ \A m \in Keys : g[m] = s
  OBVIOUS
<1>2. Extreme(T, n, s) = x
  BY DEF Extreme
<1> HIDE DEF g
<1>3. ASSUME NEW f
      PROVE  F(f) <=> Walk(T, g, {}, f)
  <2>1. \A m \in Keys : /\ Stops(T, g, {}, m) <=> T.kid[m][s] = NULL
                        /\ T.kid[m][g[m]] = T.kid[m][s]
    BY <1>1, Zenon DEF Stops
  <2>2. [m \in Keys |-> IF T.kid[m][s] = NULL THEN m ELSE f[T.kid[m][s]]]
        = [m \in Keys |-> IF Stops(T, g, {}, m) THEN m ELSE f[T.kid[m][g[m]]]]
    BY <2>1
  <2>3. QED
    BY <2>2 DEF Walk
<1>4. \E f : F(f)
  BY <1>1, <1>3, WalkExists
<1>5. F(w)
  BY <1>4, Zenon
<1> HIDE DEF w, F
<1>6. Walk(T, g, {}, w)
  BY <1>3, <1>5
<1>7. x \in Tips(T, d, g, {}, n)
  BY <1>1, <1>6, WalkEnds
<1> HIDE DEF x
<1>8. /\ x \in d[n] /\ d[n] \subseteq Keys /\ T.kid[x][s] = NULL
      /\ \A a \in d[n] : x \in d[a] /\ a # x => x \in d[T.kid[a][s]]
  <2>1. d[n] \subseteq Keys
    BY Hanging DEF Links
  <2>2. QED
    BY <1>1, <1>7, <2>1 DEF Tips, Stops
<1>9. ASSUME NEW m \in d[n], m # x
      PROVE  Toward(x, m) = s
  <2>1. PICK a \in d[n] : /\ a \in Keys /\ x \in d[a] /\ m \in d[a]
                          /\ \A t \in Sides : ~(x \in d[T.kid[a][t]] /\ m \in d[T.kid[a][t]])
    BY <1>8, Meeting
  <2>2. CASE a = x
    <3>1. PICK t \in Sides : m \in d[T.kid[x][t]]
      BY <1>9, <2>1, <2>2, Hanging DEF Links
    <3>2. t = Other(s)
      BY <1>8, <3>1, SideFacts DEF Links, Grown
    <3>3. Toward(m, x) = Other(s)
      BY <1>8, <3>1, <3>2 DEF Links, Ordered
    <3>4. x \in Int /\ m \in Int
      BY <1>8, ConstantsAssumption
    <3>5. QED
      BY <1>9, <3>3, <3>4, TowardFacts, SideFacts
  <2>3. CASE a # x
    <3>1. x \in d[T.kid[a][s]] /\ Toward(x, a) = s
      BY <1>8, <2>1, <2>3 DEF Links, Ordered
    <3>2. CASE m = a
      BY <3>1, <3>2
    <3>3. CASE m # a
      <4>1. PICK t \in Sides : m \in d[T.kid[a][t]]
        BY <2>1, <3>3, Hanging DEF Links
      <4>2. t = Other(s)
        BY <2>1, <3>1, <4>1, SideFacts
      <4>3. Toward(m, a) = Other(s)
        BY <2>1, <4>1, <4>2 DEF Links, Ordered
      <4>4. x \in Int /\ m \in Int /\ a \in Int
        BY <1>8, <2>1, ConstantsAssumption
      <4>5. QED
        BY <2>3, <3>1, <3>3, <4>3, <4>4, TowardFacts
    <3>4. QED
      BY <3>2, <3>3
  <2>4. QED
    BY <2>2, <2>3
<1>10. QED
  BY <1>2, <1>8, <1>9

(* The next node has n's place in the order of the others.                 *)
LEMMA NextFits ==
    ASSUME NEW T, NEW d, Links(T, d), NEW n \in d[T.root], T.kid[n]["right"] # NULL,
           NEW x, x = Extreme(T, T.kid[n]["right"], "left"),
           NEW m \in d[T.root], m # n, m # x
    PROVE  Toward(m, x) = Toward(m, n) /\ Toward(x, m) = Toward(n, m)
<1> DEFINE R == T.kid[n]["right"]
<1>1. n \in Keys /\ T.root \in Keys /\ m \in Keys
  BY DEF Links, Grown, Typed, Pointers
<1>2. R \in Keys /\ "right" \in Sides /\ "left" \in Sides
  BY <1>1 DEF Links, Typed, Pointers, Sides
<1>3. /\ x \in d[R] /\ \A z \in d[R] : z # x => Toward(x, z) = "left"
  BY <1>2, ExtremeIs
<1>4. x \in Keys /\ x # n /\ Toward(x, n) = "right" /\ x \in d[n]
  <2>1. d[R] \subseteq d[n]
    BY <1>1, <1>2, Hanging DEF Links
  <2>2. x \in d[n]
    BY <1>3, <2>1
  <2>3. x # n /\ Toward(x, n) = "right"
    BY <1>1, <1>2, <1>3 DEF Links, Ordered
  <2>4. x \in Keys
    BY <1>1, <2>2, Hanging DEF Links
  <2>5. QED
    BY <2>2, <2>3, <2>4
<1>5. n \in Int /\ m \in Int /\ x \in Int
  BY <1>1, <1>4, ConstantsAssumption
<1>6. n < x
  BY <1>4, <1>5 DEF Toward
<1>7. CASE m \in d[R]
  <2>1. Toward(m, n) = "right" /\ Toward(x, m) = "left"
    BY <1>1, <1>2, <1>3, <1>7 DEF Links, Ordered
  <2>2. QED
    BY <1>5, <1>6, <2>1 DEF Toward
<1>8. CASE m \in d[n] /\ m \notin d[R]
  <2>1. m \in d[T.kid[n]["left"]]
    BY <1>1, <1>8 DEF Links, Grown
  <2>2. Toward(m, n) = "left"
    BY <1>1, <1>2, <2>1 DEF Links, Ordered
  <2>3. QED
    BY <1>5, <1>6, <2>2 DEF Toward
<1>9. CASE m \notin d[n]
  <2>1. PICK a \in d[T.root] : /\ a \in Keys /\ n \in d[a] /\ m \in d[a]
                          /\ \A t \in Sides : ~(n \in d[T.kid[a][t]] /\ m \in d[T.kid[a][t]])
    BY <1>1, Meeting
  <2>2. a # n
    BY <1>9, <2>1
  <2>3. PICK s \in Sides : n \in d[T.kid[a][s]]
    BY <2>1, <2>2, Hanging DEF Links
  <2>4. x \in d[T.kid[a][s]]
    <3>1. T.kid[a][s] \in Keys
      BY <2>1, <2>3 DEF Links, Typed, Grown, Pointers
    <3>2. QED
      BY <1>4, <2>3, <3>1, Nested
  <2>5. Toward(n, a) = s /\ Toward(x, a) = s /\ x # a /\ n # a
    BY <2>1, <2>3, <2>4 DEF Links, Ordered
  <2>6. a \in Int
    BY <2>1, ConstantsAssumption
  <2>7. CASE m = a
    BY <1>5, <2>5, <2>7 DEF Toward
  <2>8. CASE m # a
    <3>1. PICK t \in Sides : m \in d[T.kid[a][t]]
      BY <2>1, <2>8, Hanging DEF Links
    <3>2. t # s
      BY <2>1, <2>3, <3>1
    <3>3. Toward(m, a) = t
      BY <2>1, <3>1 DEF Links, Ordered
    <3>4. QED
      BY <1>5, <2>5, <2>6, <2>8, <3>2, <3>3 DEF Toward, Sides
  <2>9. QED
    BY <2>7, <2>8
<1>10. QED
  BY <1>7, <1>8, <1>9

(* A node with two children is replaced by the next one, which is first    *)
(* taken out of its own place: B is the tree in between.                   *)
CutTree(T, n, c) ==
    [root |-> IF T.up[n] = NULL THEN c ELSE T.root,
     kid |-> [y \in Keys |-> [t \in Sides |->
                IF y = n THEN NULL ELSE IF T.kid[y][t] = n THEN c ELSE T.kid[y][t]]],
     up |-> [y \in Keys |-> IF y = n THEN NULL ELSE IF y = c THEN T.up[n] ELSE T.up[y]],
     red |-> [y \in Keys |-> IF y = n THEN {} ELSE T.red[y]]]

(* B is the tree without the next node.                                    *)
LEMMA CutTreeIs ==
    ASSUME NEW T, Typed(T), NEW n \in Keys, NEW c \in Pointers
    PROVE  Cut(T, CutTree(T, n, c), n, c)
<1> DEFINE B == CutTree(T, n, c)
<1>1. /\ B.root = IF T.up[n] = NULL THEN c ELSE T.root
      /\ B.kid = [y \in Keys |-> [t \in Sides |->
                    IF y = n THEN NULL ELSE IF T.kid[y][t] = n THEN c ELSE T.kid[y][t]]]
      /\ B.up = [y \in Keys |-> IF y = n THEN NULL ELSE IF y = c THEN T.up[n] ELSE T.up[y]]
      /\ B.red = [y \in Keys |-> IF y = n THEN {} ELSE T.red[y]]
  BY DEF CutTree
<1>2. /\ \A y \in Keys, t \in Sides : T.kid[y][t] \in Pointers
      /\ \A y \in Keys : T.up[y] \in Pointers /\ T.red[y] \in SUBSET Sides
      /\ T.root \in Pointers /\ NULL \in Pointers
  BY DEF Typed, Pointers
<1>3. B = [root |-> B.root, kid |-> B.kid, up |-> B.up, red |-> B.red]
  BY DEF CutTree
<1> HIDE DEF B
<1>4. /\ B.root \in Pointers /\ B.kid \in [Keys -> [Sides -> Pointers]]
      /\ B.up \in [Keys -> Pointers] /\ B.red \in [Keys -> SUBSET Sides]
  BY <1>1, <1>2
<1>5. Typed(B)
  BY <1>3, <1>4 DEF Typed
<1>6. QED
  BY <1>1, <1>5 DEF Cut, B

(* n's fields are written to node x.                                       *)
TakenOver(T, n, x, U) ==
    /\ Typed(U) /\ U.root = T.root
    /\ \A y \in Keys : /\ U.up[y] = T.up[IF y = x THEN n ELSE y]
                       /\ U.red[y] = T.red[IF y = x THEN n ELSE y]
    /\ \A y \in Keys, t \in Sides : U.kid[y][t] = T.kid[IF y = x THEN n ELSE y][t]

(* The code's assignment of the three fields does that.                    *)
LEMMA TakeOverIs ==
    ASSUME NEW T, Typed(T), NEW n \in Keys, NEW x \in Keys,
           NEW U, U = [T EXCEPT !.kid[x] = T.kid[n], !.up[x] = T.up[n], !.red[x] = T.red[n]]
    PROVE  TakenOver(T, n, x, U)
BY DEF Typed, TakenOver

(* The next node is below n's right child, and its parent has it on the    *)
(* left unless it is that child.                                           *)
IsNext(T, d, n, x) ==
    /\ x \in Keys /\ x \in d[T.root] /\ x \in d[n] /\ x # n /\ T.kid[x]["left"] = NULL
    /\ T.up[x] \in Keys /\ T.up[x] \in d[T.root] /\ T.up[x] # x
    /\ T.up[n] # x
    /\ T.up[x] = n <=> x = T.kid[n]["right"]
    /\ T.up[x] # n => T.kid[T.up[x]]["left"] = x
    /\ SideOf(T, T.up[x], x) \in Sides /\ T.kid[T.up[x]][SideOf(T, T.up[x], x)] = x

LEMMA NextNode ==
    ASSUME NEW T, NEW d, Links(T, d), NEW n \in d[T.root], T.kid[n]["right"] # NULL,
           NEW x, x = Extreme(T, T.kid[n]["right"], "left")
    PROVE  IsNext(T, d, n, x)
<1> DEFINE R == T.kid[n]["right"]
           p == T.up[x]
<1>1. n \in Keys /\ T.root \in Keys
  BY DEF Links, Grown, Typed, Pointers
<1>2. R \in Keys /\ "right" \in Sides /\ "left" \in Sides
  BY <1>1 DEF Links, Typed, Pointers, Sides
<1>3. /\ x \in d[R] /\ T.kid[x]["left"] = NULL
      /\ \A z \in d[R] : z # x => Toward(x, z) = "left"
  BY <1>2, ExtremeIs
<1>4. d[R] \subseteq d[n] /\ d[n] \subseteq d[T.root] /\ d[T.root] \subseteq Keys
  BY <1>1, <1>2, Hanging, Nested DEF Links
<1>5. x \in Keys /\ x \in d[T.root] /\ x \in d[n]
  BY <1>3, <1>4
<1>6. x # n
  BY <1>1, <1>2, <1>3 DEF Links, Ordered
<1>7. p \in Keys /\ p \in d[n]
  BY <1>1, <1>5, <1>6, Nested
<1>8. p # NULL
  BY <1>7, ConstantsAssumption
<1>9. SideOf(T, p, x) \in Sides /\ T.kid[p][SideOf(T, p, x)] = x /\ p # x
  BY <1>5, <1>8, OneParent
<1>10. T.up[n] # x
  <2>1. ASSUME T.up[n] = x
        PROVE  FALSE
    <3>1. PICK t \in Sides : T.kid[x][t] = n
      BY <1>1, <1>5, <2>1, ConstantsAssumption DEF Links, Paired
    <3>2. n # NULL
      BY <1>1, ConstantsAssumption
    <3>3. n \in d[x] /\ x \notin d[n]
      BY <1>5, <3>1, <3>2, KidFacts DEF Links
    <3>4. QED
      BY <1>5, <3>3
  <2>2. QED
    BY <2>1
<1>11. R = x => p = n
  <2>1. T.up[R] = n
    BY <1>1, <1>2 DEF Links, Paired
  <2>2. QED
    BY <2>1
<1>12. R # x => p # n /\ T.kid[p]["left"] = x
  <2>1. ASSUME R # x
        PROVE  p # n /\ T.kid[p]["left"] = x
    <3>1. p \in d[R]
      BY <1>2, <1>3, <2>1, Nested
    <3>2. p # n
      BY <1>1, <1>2, <3>1 DEF Links, Ordered
    <3>3. Toward(x, p) = "left"
      BY <1>3, <1>9, <3>1
    <3>4. x # NULL
      BY <1>5, ConstantsAssumption
    <3>5. SideOf(T, p, x) = "left"
      <4>1. PICK t \in Sides : t = SideOf(T, p, x) /\ T.kid[p][t] = x
        BY <1>9
      <4>2. Typed(T) /\ Grown(T, d) /\ Ordered(T, d) /\ p \in Keys /\ T.kid[p][t] # NULL
        BY <1>7, <3>4, <4>1 DEF Links
      <4>3. Toward(T.kid[p][t], p) = t
        BY <4>2, KidFacts
      <4>4. QED
        BY <3>3, <4>1, <4>3
    <3>6. QED
      BY <1>9, <3>2, <3>5
  <2>2. QED
    BY <2>1
<1>13. x = R => p = n
  BY <1>11
<1>14. p = n <=> x = R
  BY <1>12, <1>13
<1>15. p \in d[T.root]
  BY <1>4, <1>7
<1>16. QED
  BY <1>3, <1>5, <1>6, <1>7, <1>9, <1>10, <1>12, <1>14, <1>15, Zenon DEF IsNext

(* What the code writes, in its order, is B with the next node for n.      *)
LEMMA ReplaceRenames ==
    ASSUME NEW d, Links(tree, d), NEW n \in d[tree.root],
           NULL \notin {tree.kid[n][s] : s \in Sides},
           NEW x, x = Extreme(tree, tree.kid[n]["right"], "left"),
           NEW c, c = tree.kid[x]["right"], NEW B, Cut(tree, B, x, c)
    PROVE  /\ Renamed(B, Forget(Replace(n).tree, n), n, x)
           /\ Replace(n).parent = Sub(n, x, tree.up[x])
           /\ Replace(n).child = c
<1> DEFINE R == tree.kid[n]["right"]
           L == tree.kid[n]["left"]
           p == IF x = R THEN x ELSE tree.up[x]
           v == IF x = R THEN "right" ELSE "left"
           A == SetKid(tree, tree.up[x], v, c)
           T1 == IF x = R THEN A ELSE SetParent(A, R, x)
           T2 == SetParent(T1, L, x)
           T3 == [T2 EXCEPT !.kid[x] = T2.kid[n], !.up[x] = T2.up[n], !.red[x] = T2.red[n]]
           T4 == SwapChild(T3, n, x)
           T5 == SetParent(T4, c, p)
           U == Forget(T5, n)
<1>1. /\ n \in Keys /\ Typed(tree) /\ NULL \notin Keys /\ NULL \in Pointers
      /\ R \in Keys /\ L \in Keys /\ "right" \in Sides /\ "left" \in Sides
      /\ \A y \in Keys, t \in Sides : tree.kid[y][t] \in Pointers
      /\ \A y \in Keys : tree.up[y] \in Pointers
  BY ConstantsAssumption DEF Links, Grown, Typed, Sides, Pointers
<1>2. /\ x \in Keys /\ x \in d[tree.root] /\ x # n /\ tree.kid[x]["left"] = NULL
      /\ tree.up[x] \in Keys /\ tree.up[x] # x /\ tree.up[n] # x
      /\ tree.up[x] = n <=> x = R
      /\ tree.up[x] # n => tree.kid[tree.up[x]]["left"] = x
  <2>1. R # NULL /\ tree.kid[n]["right"] = R
    BY <1>1
  <2>2. IsNext(tree, d, n, x)
    BY <2>1, NextNode
  <2>3. QED
    BY <2>2, Zenon DEF IsNext
<1>3. Replace(n).tree = T5 /\ Replace(n).parent = p /\ Replace(n).child = c
  <2>1. A = IF x = R THEN [tree EXCEPT !.kid[n]["right"] = c]
            ELSE [tree EXCEPT !.kid[tree.up[x]]["left"] = c]
    BY <1>2 DEF SetKid
  <2>2. T1 = IF x = R THEN [tree EXCEPT !.kid[n]["right"] = c]
             ELSE SetParent([tree EXCEPT !.kid[p]["left"] = c], R, x)
    BY <2>1
  <2> HIDE DEF T1, A
  <2>3. QED
    BY <2>2 DEF Replace
<1>4. p = Sub(n, x, tree.up[x])
  BY <1>2 DEF Sub
<1>5. /\ c \in Pointers /\ c # x /\ c # n
      /\ c # NULL => tree.up[c] = x
      /\ \A y \in Keys : tree.up[y] = x => y = c
      /\ \A y \in Keys : tree.up[y] = n <=> y = R \/ y = L
      /\ R # n /\ L # n /\ L # x /\ tree.up[n] # n /\ L # R
  <2>1. c \in Pointers /\ (c # NULL => tree.up[c] = x /\ c # x /\ c \in d[x] /\ tree.up[c] # n)
    <3>1. c \in Pointers
      BY <1>1, <1>2
    <3>2. ASSUME c # NULL
          PROVE  tree.up[c] = x /\ c # x /\ c \in d[x]
      <4>1. tree.up[c] = x
        <5>1. x \in Keys /\ "right" \in Sides
          BY <1>1, <1>2
        <5>2. QED
          BY <3>2, <5>1 DEF Links, Paired
      <4>2. Typed(tree) /\ Grown(tree, d) /\ Ordered(tree, d) /\ x \in Keys /\ "right" \in Sides
        BY <1>1, <1>2 DEF Links
      <4>3. c \in d[x] /\ c # x
        BY <3>2, <4>2, KidFacts
      <4>4. QED
        BY <4>1, <4>3
    <3>3. QED
      BY <1>2, <3>1, <3>2
  <2>2. c # x /\ c # n /\ (c # NULL => tree.up[c] = x)
    BY <1>1, <1>2, <2>1
  <2>3. \A y \in Keys : tree.up[y] = x => y = c
    <3>1. ASSUME NEW y \in Keys, tree.up[y] = x
          PROVE  y = c
      <4>1. PICK t \in Sides : tree.kid[x][t] = y
        <5>1. x # NULL
          BY <1>1, <1>2
        <5>2. QED
          BY <3>1, <5>1 DEF Links, Paired
      <4>2. QED
        BY <1>1, <1>2, <4>1 DEF Sides
    <3>2. QED
      BY <3>1
  <2>4. tree.up[R] = n /\ tree.up[L] = n
    BY <1>1 DEF Links, Paired
  <2>5. \A y \in Keys : tree.up[y] = n => y = R \/ y = L
    <3>1. ASSUME NEW y \in Keys, tree.up[y] = n
          PROVE  y = R \/ y = L
      <4>1. PICK t \in Sides : tree.kid[n][t] = y
        BY <1>1, <3>1 DEF Links, Paired
      <4>2. QED
        BY <4>1 DEF Sides
    <3>2. QED
      BY <3>1
  <2>6. tree.up[n] # n
    <3>1. n # NULL
      BY <1>1
    <3>2. tree.up[n] # NULL => tree.up[n] # n
      BY <1>1, OneParent
    <3>3. QED
      BY <3>1, <3>2
  <2>7. L # R
    <3>1. Toward(L, n) = "left" /\ Toward(R, n) = "right"
      BY <1>1, KidFacts DEF Links
    <3>2. QED
      BY <3>1
  <2>8. L # x
    <3>1. L = x => x = R
      BY <1>2, <2>4
    <3>2. QED
      BY <2>7, <3>1
  <2>9. R # n /\ L # n
    BY <2>4, <2>6
  <2>10. \A y \in Keys : tree.up[y] = n <=> y = R \/ y = L
    BY <2>4, <2>5, Zenon
  <2>11. c \in Pointers
    BY <2>1
  <2>12. QED
    BY <2>2, <2>3, <2>6, <2>7, <2>8, <2>9, <2>10, <2>11
<1>6. /\ tree.kid[tree.up[x]][v] = x
      /\ \A y \in Keys, t \in Sides : tree.kid[y][t] = x => y = tree.up[x] /\ t = v
  <2>1. v \in Sides /\ tree.kid[tree.up[x]][v] = x
    BY <1>1, <1>2
  <2>2. x # NULL /\ tree.up[x] # NULL
    BY <1>1, <1>2
  <2>3. x \in Keys /\ tree.up[x] \in Keys
    BY <1>2
  <2> HIDE DEF v
  <2>4. QED
    <3>1. \A y \in Keys, t \in Sides :
             tree.kid[y][t] = x => y = tree.up[x] /\ t = SideOf(tree, tree.up[x], x)
      BY <2>2, <2>3, OneParent
    <3>2. v = SideOf(tree, tree.up[x], x)
      BY <2>1, <2>3, <3>1, Zenon
    <3>3. QED
      BY <2>1, <3>1, <3>2, Zenon
<1> HIDE DEF A, T1, T2, T3, T4, T5, U
<1>7. /\ Typed(A) /\ A.root = tree.root /\ A.red = tree.red /\ A.up = tree.up
      /\ \A y \in Keys, t \in Sides :
            A.kid[y][t] = IF tree.kid[y][t] = x THEN c ELSE tree.kid[y][t]
  <2>1. KidWritten(tree, tree.up[x], v, c, A)
    BY <1>1, <1>2, <1>5, KidIs DEF A
  <2>2. QED
    BY <1>6, <2>1 DEF KidWritten
<1>8. /\ Typed(T1) /\ T1.root = tree.root /\ T1.red = tree.red /\ T1.kid = A.kid
      /\ \A y \in Keys : T1.up[y] = IF y = R /\ x # R THEN x ELSE tree.up[y]
  <2>1. CASE x = R
    BY <1>7, <2>1 DEF T1
  <2>2. CASE x # R
    <3>1. UpWritten(A, R, x, T1)
      BY <1>1, <1>2, <1>7, <2>2, SetParentIs DEF T1, Pointers
    <3>2. QED
      BY <1>7, <2>2, <3>1 DEF UpWritten
  <2>3. QED
    BY <2>1, <2>2
<1>9. /\ Typed(T2) /\ T2.root = tree.root /\ T2.red = tree.red /\ T2.kid = A.kid
      /\ \A y \in Keys : T2.up[y] = IF tree.up[y] = n /\ y # x THEN x ELSE tree.up[y]
  <2>1. UpWritten(T1, L, x, T2)
    BY <1>1, <1>2, <1>8, SetParentIs DEF T2, Pointers
  <2>2. QED
    BY <1>5, <1>8, <2>1 DEF UpWritten
<1>10. TakenOver(T2, n, x, T3)
  BY <1>1, <1>2, <1>9, TakeOverIs, Zenon DEF T3
<1>11. /\ Typed(T3) /\ T3.root = tree.root
       /\ \A y \in Keys : T3.red[y] = tree.red[IF y = x THEN n ELSE y]
       /\ T3.up[x] = tree.up[n]
       /\ \A y \in Keys : y # x => T3.up[y] = IF tree.up[y] = n THEN x ELSE tree.up[y]
       /\ \A y \in Keys, t \in Sides : T3.kid[y][t] = A.kid[IF y = x THEN n ELSE y][t]
  <2>1. n \in Keys /\ x \in Keys /\ n # x /\ tree.up[n] # n
    BY <1>1, <1>2, <1>5
  <2>2. /\ Typed(T3) /\ T3.root = tree.root
        /\ \A y \in Keys : T3.up[y] = T2.up[IF y = x THEN n ELSE y]
        /\ \A y \in Keys : T3.red[y] = tree.red[IF y = x THEN n ELSE y]
        /\ \A y \in Keys, t \in Sides : T3.kid[y][t] = A.kid[IF y = x THEN n ELSE y][t]
    BY <1>9, <1>10 DEF TakenOver
  <2>3. \A y \in Keys : T2.up[y] = IF tree.up[y] = n /\ y # x THEN x ELSE tree.up[y]
    BY <1>9
  <2>4. T3.up[x] = tree.up[n]
    BY <2>1, <2>2, <2>3
  <2>5. \A y \in Keys : y # x => T3.up[y] = IF tree.up[y] = n THEN x ELSE tree.up[y]
    BY <2>2, <2>3
  <2>6. QED
    BY <2>2, <2>4, <2>5
<1>12. T3.up[n] = tree.up[n]
  <2>1. n \in Keys /\ n # x /\ tree.up[n] # n
    BY <1>1, <1>2, <1>5
  <2>2. \A y \in Keys : y # x => T3.up[y] = IF tree.up[y] = n THEN x ELSE tree.up[y]
    BY <1>11
  <2>3. QED
    BY <2>1, <2>2
<1>13. ChildSwapped(T3, n, x, T4)
  BY <1>1, <1>2, <1>11, SwapIs DEF Pointers, T4
<1>14. \A y \in Keys, t \in Sides :
          y = tree.up[n] /\ t = SideOf(T3, tree.up[n], n) <=> tree.kid[y][t] = n
  <2>1. tree.up[n] # NULL =>
           /\ tree.up[n] \in Keys /\ tree.kid[tree.up[n]][SideOf(tree, tree.up[n], n)] = n
           /\ \A y \in Keys, t \in Sides :
                 tree.kid[y][t] = n => y = tree.up[n] /\ t = SideOf(tree, tree.up[n], n)
    BY <1>1, OneParent
  <2>2. \A y \in Keys, t \in Sides : tree.kid[y][t] = n => y = tree.up[n]
    BY <1>1 DEF Links, Paired
  <2>3. tree.up[n] # NULL => SideOf(T3, tree.up[n], n) = SideOf(tree, tree.up[n], n)
    <3>1. ASSUME tree.up[n] # NULL
          PROVE  T3.kid[tree.up[n]]["left"] = n <=> tree.kid[tree.up[n]]["left"] = n
      <4> DEFINE g == tree.up[n]
      <4>1. g \in Keys /\ "left" \in Sides /\ g # x /\ x # n /\ c # n
        BY <1>1, <1>2, <1>5, <2>1, <3>1
      <4> HIDE DEF g
      <4>2. T3.kid[g]["left"] = A.kid[g]["left"]
        BY <1>11, <4>1
      <4>3. A.kid[g]["left"] = IF tree.kid[g]["left"] = x THEN c ELSE tree.kid[g]["left"]
        BY <1>7, <4>1
      <4>4. QED
        BY <4>1, <4>2, <4>3 DEF g
    <3>2. QED
      BY <3>1 DEF SideOf
  <2>4. QED
    BY <1>1, <2>1, <2>2, <2>3
<1>15. /\ Typed(T4) /\ T4.red = T3.red /\ T4.up = T3.up
       /\ T4.root = IF tree.up[n] = NULL THEN x ELSE tree.root
       /\ \A y \in Keys, t \in Sides :
             T4.kid[y][t] = IF tree.kid[y][t] = n THEN x ELSE T3.kid[y][t]
  BY <1>11, <1>12, <1>13, <1>14 DEF ChildSwapped
<1>16. /\ Typed(T5) /\ T5.red = T3.red /\ T5.root = T4.root /\ T5.kid = T4.kid
       /\ \A y \in Keys : T5.up[y] = IF y = c THEN p ELSE T3.up[y]
  <2>1. p \in Pointers
    BY <1>1, <1>2 DEF Pointers
  <2>2. UpWritten(T4, c, p, T5)
    BY <1>5, <1>15, <2>1, SetParentIs DEF T5
  <2>3. QED
    BY <1>15, <2>2 DEF UpWritten
<1>17. Forgotten(T5, n, U)
  BY <1>1, <1>16, ForgetIs DEF U
<1>18. Typed(U) /\ U.root = Sub(n, x, B.root)
  <2>1. U.root = IF tree.up[n] = NULL THEN x ELSE tree.root
    BY <1>15, <1>16, <1>17 DEF Forgotten
  <2>2. tree.up[n] = NULL <=> n = tree.root
    BY <1>1 DEF Links, Paired
  <2>3. tree.up[x] # NULL /\ x # tree.root
    BY <1>1, <1>2 DEF Links, Paired
  <2>4. B.root = tree.root
    BY <2>3 DEF Cut
  <2>5. QED
    BY <1>17, <2>1, <2>2, <2>3, <2>4 DEF Forgotten, Sub
<1>19. ASSUME NEW y \in Keys
       PROVE  U.up[y] = Sub(n, x, B.up[Sub(n, x, y)]) /\ U.red[y] = B.red[Sub(n, x, y)]
  <2>1. /\ U.up[y] = IF y = n THEN NULL ELSE IF y = c THEN p ELSE T3.up[y]
        /\ U.red[y] = IF y = n THEN {} ELSE T3.red[y]
    BY <1>16, <1>17 DEF Forgotten
  <2>2. /\ \A z \in Keys : B.up[z] = IF z = x THEN NULL ELSE IF z = c THEN tree.up[x] ELSE tree.up[z]
        /\ B.red[x] = {} /\ \A z \in Keys : z # x => B.red[z] = tree.red[z]
    BY DEF Cut
  <2>3. CASE y = n
    BY <1>1, <1>2, <2>1, <2>2, <2>3 DEF Sub
  <2>4. CASE y = x
    <3>1. Sub(n, x, y) = n /\ y # n /\ y # c /\ n # c /\ n # x
      BY <1>2, <1>5, <2>4 DEF Sub
    <3>2. B.up[n] = tree.up[n] /\ B.red[n] = tree.red[n]
      BY <1>1, <2>2, <3>1
    <3>3. Sub(n, x, tree.up[n]) = tree.up[n]
      BY <1>2, <1>5 DEF Sub
    <3>4. QED
      <4>1. T3.red[x] = tree.red[n] /\ T3.up[x] = tree.up[n]
        BY <1>2, <1>11
      <4>2. QED
        BY <2>1, <2>4, <3>1, <3>2, <3>3, <4>1
  <2>5. CASE y # n /\ y # x
    <3>1. Sub(n, x, y) = y /\ B.red[y] = tree.red[y] /\ U.red[y] = tree.red[y]
      BY <1>11, <2>1, <2>2, <2>5 DEF Sub
    <3>2. CASE y = c
      BY <1>4, <2>1, <2>2, <2>5, <3>1, <3>2, Zenon
    <3>3. CASE y # c
      <4>1. U.up[y] = IF tree.up[y] = n THEN x ELSE tree.up[y]
        BY <1>11, <2>1, <2>5, <3>3
      <4>2. B.up[y] = tree.up[y] /\ tree.up[y] # x
        BY <1>5, <2>2, <2>5, <3>3
      <4>3. QED
        BY <3>1, <4>1, <4>2 DEF Sub
    <3>4. QED
      BY <3>1, <3>2, <3>3
  <2>6. QED
    BY <2>3, <2>4, <2>5
<1>20. ASSUME NEW y \in Keys, NEW t \in Sides
       PROVE  U.kid[y][t] = Sub(n, x, B.kid[Sub(n, x, y)][t])
  <2>1. U.kid[y][t] = IF y = n THEN NULL
                      ELSE IF tree.kid[y][t] = n THEN x ELSE A.kid[IF y = x THEN n ELSE y][t]
    <3>1. U.kid[y][t] = IF y = n THEN NULL ELSE T4.kid[y][t]
      BY <1>16, <1>17 DEF Forgotten
    <3>2. /\ T4.kid[y][t] = IF tree.kid[y][t] = n THEN x ELSE T3.kid[y][t]
          /\ T3.kid[y][t] = A.kid[IF y = x THEN n ELSE y][t]
      BY <1>11, <1>15
    <3>3. QED
      BY <3>1, <3>2
  <2>2. \A z \in Keys : B.kid[z][t] = IF z = x THEN NULL
                                      ELSE IF tree.kid[z][t] = x THEN c ELSE tree.kid[z][t]
    BY DEF Cut
  <2>3. \A z \in Keys : A.kid[z][t] = IF tree.kid[z][t] = x THEN c ELSE tree.kid[z][t]
    BY <1>7
  <2>4. tree.kid[x][t] # n /\ tree.kid[n][t] # n
    BY <1>1, <1>2, <1>5 DEF Sides
  <2>5. CASE y = n
    BY <1>1, <1>2, <2>1, <2>2, <2>5 DEF Sub
  <2>6. CASE y = x
    <3>1. Sub(n, x, y) = n /\ U.kid[y][t] = A.kid[n][t] /\ y # n
      BY <1>2, <2>1, <2>4, <2>6 DEF Sub
    <3>2. B.kid[n][t] = A.kid[n][t] /\ A.kid[n][t] # n /\ A.kid[n][t] # x
      <4>1. n \in Keys /\ x # n /\ c # n /\ c # x
        BY <1>1, <1>2, <1>5
      <4>2. B.kid[n][t] = IF tree.kid[n][t] = x THEN c ELSE tree.kid[n][t]
        BY <2>2, <4>1
      <4>3. A.kid[n][t] = IF tree.kid[n][t] = x THEN c ELSE tree.kid[n][t]
        BY <2>3, <4>1
      <4>4. QED
        BY <2>4, <4>1, <4>2, <4>3
    <3>3. QED
      BY <3>1, <3>2 DEF Sub
  <2>7. CASE y # n /\ y # x
    <3>1. Sub(n, x, y) = y
      BY <2>7 DEF Sub
    <3>2. B.kid[y][t] = A.kid[y][t] /\ A.kid[y][t] # x
      BY <1>5, <2>2, <2>3, <2>7
    <3>3. tree.kid[y][t] = n <=> A.kid[y][t] = n
      BY <1>2, <1>5, <2>3
    <3>4. QED
      BY <2>1, <2>7, <3>1, <3>2, <3>3 DEF Sub
  <2>8. QED
    BY <2>5, <2>6, <2>7
<1>21. Renamed(B, U, n, x)
  BY <1>18, <1>19, <1>20 DEF Renamed
<1>22. QED
  BY <1>3, <1>4, <1>21 DEF U

(* A tree U without node n: where n was taken out, below p, it is shorter. *)
Trims(T, d, n, U, e, q, p, s, c) ==
    /\ Links(U, e) /\ e[U.root] = d[T.root] \ {n}
    /\ Ranked(q) /\ Balanced(U, q, p, s, 1) /\ LeafRule(U, p)
    /\ p \in Pointers /\ c \in Pointers
    /\ p # NULL => p \in e[U.root] /\ s \in Sides /\ U.kid[p][s] = c

(* Taking out a node with at most one child does that.                     *)
LEMMA CutTrims ==
    ASSUME NEW T, NEW d, Links(T, d), NEW n \in d[T.root], NEW s, NEW c, OneKid(T, n, s, c),
           NEW U, Cut(T, U, n, c), NEW r, Ranked(r), Balanced(T, r, NULL, "left", 0),
           LeafRule(T, NULL)
    PROVE  \E e, q : Trims(T, d, n, U, e, q, T.up[n], SideOf(T, T.up[n], n), c)
<1> DEFINE p == T.up[n]
           u == SideOf(T, p, n)
           e == CutSets(d, n)
<1>1. Links(U, e) /\ e[U.root] = d[T.root] \ {n}
  BY CutLinks
<1>2. PICK q : Ranked(q) /\ Balanced(U, q, p, u, 1)
  BY CutRanks
<1>3. LeafRule(U, p)
  BY CutRanks
<1>4. n \in Keys /\ T.root \in Keys /\ p \in Pointers /\ c \in Pointers
  BY DEF Links, Grown, Typed, Pointers, OneKid
<1>5. ASSUME p # NULL
      PROVE  p \in d[T.root] \ {n} /\ u \in Sides /\ U.kid[p][u] = c
  <2>1. p \in Keys /\ p # n /\ u \in Sides /\ T.kid[p][u] = n
    BY <1>4, <1>5, OneParent
  <2>2. n # T.root
    BY <1>4, <1>5 DEF Links, Paired
  <2>3. p \in d[T.root]
    BY <1>4, <2>2, Nested
  <2>4. U.kid[p][u] = c
    BY <2>1 DEF Cut
  <2>5. QED
    BY <2>1, <2>3, <2>4
<1> HIDE DEF p, u, e
<1>6. Trims(T, d, n, U, e, q, p, u, c)
  BY <1>1, <1>2, <1>3, <1>4, <1>5 DEF Trims
<1>7. QED
  BY <1>6 DEF p, u

(* And so does replacing a node with two.                                  *)
LEMMA ReplaceTrims ==
    ASSUME NEW d, Links(tree, d), NEW n \in d[tree.root],
           NULL \notin {tree.kid[n][s] : s \in Sides},
           NEW r, Ranked(r), Balanced(tree, r, NULL, "left", 0), LeafRule(tree, NULL)
    PROVE  \E e, q, s : Trims(tree, d, n, Forget(Replace(n).tree, n), e, q,
                              Replace(n).parent, s, Replace(n).child)
<1> DEFINE x == Extreme(tree, tree.kid[n]["right"], "left")
           c == tree.kid[x]["right"]
           p == tree.up[x]
           u == SideOf(tree, p, x)
           B == CutTree(tree, x, c)
           U == Forget(Replace(n).tree, n)
<1>1. tree.kid[n]["right"] # NULL /\ n \in Keys /\ Typed(tree) /\ NULL \notin Keys
  BY ConstantsAssumption DEF Sides, Links, Grown, Typed
<1>2. /\ x \in Keys /\ x \in d[tree.root] /\ x # n /\ tree.kid[x]["left"] = NULL
      /\ p \in Keys /\ p # x /\ u \in Sides /\ tree.kid[p][u] = x
  <2>1. IsNext(tree, d, n, x)
    BY <1>1, NextNode, Zenon
  <2>2. QED
    BY <2>1 DEF IsNext
<1>3. \A m \in d[tree.root] : m # n /\ m # x =>
         Toward(m, x) = Toward(m, n) /\ Toward(x, m) = Toward(n, m)
  BY <1>1, NextFits
<1>4. OneKid(tree, x, "right", c) /\ c \in Pointers
  BY <1>1, <1>2 DEF OneKid, Sides, Other, Typed
<1> HIDE DEF x
<1>5. Cut(tree, B, x, c)
  BY <1>1, <1>2, <1>4, CutTreeIs
<1>6. /\ Renamed(B, U, n, x) /\ Replace(n).parent = Sub(n, x, p) /\ Replace(n).child = c
  <2>1. x = Extreme(tree, tree.kid[n]["right"], "left")
    BY DEF x
  <2>2. c = tree.kid[x]["right"]
    OBVIOUS
  <2> HIDE DEF c, B
  <2>3. QED
    BY <1>5, <2>1, <2>2, ReplaceRenames
<1> HIDE DEF B, U, c, u
<1>7. PICK e0, q0 : Trims(tree, d, x, B, e0, q0, p, u, c)
  BY <1>2, <1>4, <1>5, CutTrims DEF u
<1> HIDE DEF p
<1>8. /\ Links(B, e0) /\ e0[B.root] = d[tree.root] \ {x}
      /\ Ranked(q0) /\ Balanced(B, q0, p, u, 1) /\ LeafRule(B, p)
      /\ p \in e0[B.root] /\ B.kid[p][u] = c
  BY <1>1, <1>2, <1>7 DEF Trims
<1> DEFINE e == RenamedSets(e0, n, x)
           y == Sub(n, x, p)
<1>9. Links(U, e) /\ e[U.root] = d[tree.root] \ {n}
  <2>1. n \in e0[B.root] /\ x \notin e0[B.root]
    BY <1>2, <1>8
  <2>2. Fits(e0[B.root], n, x)
    BY <1>3, <1>8 DEF Fits
  <2>3. Links(U, e) /\ e[U.root] = (e0[B.root] \ {n}) \cup {x}
    <3>1. Links(B, e0) /\ x \in Keys /\ Renamed(B, U, n, x)
      BY <1>2, <1>6, <1>8
    <3>2. QED
      BY <2>1, <2>2, <3>1, RenameLinks
  <2>4. ((d[tree.root] \ {x}) \ {n}) \cup {x} = d[tree.root] \ {n}
    BY <1>2
  <2>5. QED
    BY <1>8, <2>3, <2>4
<1>10. (\E q : Ranked(q) /\ Balanced(U, q, y, u, 1)) /\ LeafRule(U, y)
  <2>1. Typed(B) /\ p \in Pointers /\ 1 \in Int
    BY <1>2, <1>8 DEF Links, Pointers
  <2>2. QED
    BY <1>1, <1>2, <1>6, <1>8, <2>1, RenameRanks
<1>11. PICK q : Ranked(q) /\ Balanced(U, q, y, u, 1)
  BY <1>10
<1>12. y \in Keys /\ y \in e[U.root]
  <2>1. p \in d[tree.root] /\ p # x
    BY <1>8
  <2>2. QED
    BY <1>2, <1>9, <2>1 DEF Sub
<1>13. U.kid[y][u] = c
  <2>1. U.kid[y][u] = Sub(n, x, B.kid[Sub(n, x, y)][u])
    BY <1>2, <1>6, <1>12 DEF Renamed
  <2>2. Sub(n, x, y) = p
    BY <1>1, <1>2, SubFacts
  <2>3. c # n /\ c # x
    <3>1. c # NULL => c # x /\ tree.up[c] = x
      BY <1>1, <1>2, KidFacts DEF c, Links, Paired, Sides
    <3>2. tree.up[n] # x
      <4>1. IsNext(tree, d, n, x)
        BY <1>1, NextNode DEF x
      <4>2. QED
        BY <4>1 DEF IsNext
    <3>3. QED
      BY <1>1, <1>2, <3>1, <3>2
  <2>4. QED
    BY <1>8, <2>1, <2>2, <2>3 DEF Sub
<1> HIDE DEF e, y
<1>14. Trims(tree, d, n, U, e, q, y, u, c)
  BY <1>2, <1>4, <1>9, <1>10, <1>11, <1>12, <1>13 DEF Trims, Pointers
<1>15. QED
  BY <1>6, <1>14 DEF U, y

(* A removal takes out a node that is there, and nothing else.             *)
LEMMA RemoveKeeps ==
    ASSUME NEW d, NEW r, TreeInv(d, r), NEW n \in Keys, Remove(n)
    PROVE  /\ \E e, q : TreeInv(e, q)' /\ e[tree'.root] = d[tree.root] \ {n}
           /\ n \in d[tree.root] /\ ret' = n /\ pc = "idle"
<1> DEFINE cut == IF NULL \in {tree.kid[n][s] : s \in Sides} THEN Bypass(n) ELSE Replace(n)
<1>1. /\ pc = "idle" /\ Balanced(tree, r, NULL, "left", 0) /\ LeafRule(tree, NULL)
      /\ Links(tree, d) /\ Ranked(r)
  BY DEF Remove, TreeInv, Progress, Idle, Inserting, Removing
<1>2. n \in d[tree.root]
  <2>1. Descend(tree, n) = n /\ n # NULL
    BY ConstantsAssumption DEF Remove, RB_FIND
  <2>2. QED
    BY <1>1, <2>1, DescendFinds DEF Found
<1>3. \E e, q, s : Trims(tree, d, n, Forget(cut.tree, n), e, q, cut.parent, s, cut.child)
  <2>1. CASE NULL \in {tree.kid[n][s] : s \in Sides}
    <3>1. PICK s : OneKid(tree, n, s, Bypass(n).child)
      BY <1>1, <1>2, <2>1, BypassCuts
    <3>2. /\ Cut(tree, Forget(Bypass(n).tree, n), n, Bypass(n).child)
          /\ Bypass(n).parent = tree.up[n]
      BY <1>1, <1>2, <2>1, BypassCuts
    <3>3. \E e, q : Trims(tree, d, n, Forget(Bypass(n).tree, n), e, q, tree.up[n],
                          SideOf(tree, tree.up[n], n), Bypass(n).child)
      BY <1>1, <1>2, <3>1, <3>2, CutTrims
    <3>4. QED
      BY <2>1, <3>2, <3>3
  <2>2. CASE NULL \notin {tree.kid[n][s] : s \in Sides}
    <3>1. \E e, q, s : Trims(tree, d, n, Forget(Replace(n).tree, n), e, q,
                             Replace(n).parent, s, Replace(n).child)
      BY <1>1, <1>2, <2>2, ReplaceTrims
    <3>2. QED
      BY <2>2, <3>1
  <2>3. QED
    BY <2>1, <2>2
<1>4. /\ tree' = Forget(cut.tree, n) /\ ret' = n
      /\ cut.parent = NULL => Return
      /\ cut.parent # NULL => pc' = "remove_leaf" /\ elm' = cut.child /\ parent' = cut.parent
  BY DEF Remove
<1>5. PICK e, q, s : Trims(tree, d, n, tree', e, q, cut.parent, s, cut.child)
  BY <1>3, <1>4
<1>6. PICK p, c : p = cut.parent /\ c = cut.child
  OBVIOUS
<1> HIDE DEF cut
<1>7. /\ Links(tree', e) /\ e[tree'.root] = d[tree.root] \ {n}
      /\ Ranked(q) /\ Balanced(tree', q, p, s, 1) /\ LeafRule(tree', p)
      /\ p \in Pointers /\ c \in Pointers
      /\ p # NULL => p \in e[tree'.root] /\ s \in Sides /\ tree'.kid[p][s] = c
  BY <1>5, <1>6 DEF Trims
<1>8. CASE p = NULL
  <2>1. pc' = "idle" /\ elm' = NULL /\ parent' = NULL
    BY <1>4, <1>6, <1>8 DEF Return
  <2>2. Balanced(tree', q, NULL, "left", 0)
    BY <1>7, <1>8, ConstantsAssumption DEF Balanced
  <2>3. Idle(q)'
    BY <1>7, <1>8, <2>1, <2>2 DEF Idle
  <2>4. TreeInv(e, q)'
    BY <1>7, <2>3 DEF TreeInv, Progress
  <2>5. QED
    BY <1>1, <1>2, <1>4, <1>7, <2>4
<1>9. CASE p # NULL
  <2>1. pc' = "remove_leaf" /\ elm' = c /\ parent' = p
    BY <1>4, <1>6, <1>9
  <2>2. Removing(q)'
    BY <1>7, <1>9, <2>1 DEF Removing
  <2>3. TreeInv(e, q)'
    BY <1>7, <1>9, <2>1, <2>2 DEF TreeInv, Progress
  <2>4. QED
    BY <1>1, <1>2, <1>4, <1>7, <2>3
<1>10. QED
  BY <1>8, <1>9

-----------------------------------------------------------------------------
(* The invariant holds at first: no node is in the tree.                   *)
LEMMA InitTree ==
    ASSUME Init
    PROVE  \E d, r : TreeInv(d, r) /\ d[tree.root] = {}
<1> DEFINE d == [m \in Pointers |-> IF m = NULL THEN {} ELSE {m}]
           r == [m \in Pointers |-> IF m = NULL THEN -1 ELSE 0]
<1>1. /\ \A n \in Keys, s \in Sides : tree.kid[n][s] = NULL
      /\ \A n \in Keys : tree.up[n] = NULL /\ tree.red[n] = {}
      /\ tree.root = NULL /\ pc = "idle" /\ elm = NULL /\ parent = NULL
  BY DEF Init, Nil
<1>2. NULL \notin Keys /\ "left" \in Sides /\ "right" \in Sides
  BY ConstantsAssumption DEF Sides
<1>3. d \in [Pointers -> SUBSET Keys] /\ d[NULL] = {} /\ \A n \in Keys : d[n] = {n}
  BY <1>2 DEF Pointers
<1>4. r[NULL] = -1 /\ r \in [Pointers -> Int] /\ \A n \in Keys : r[n] = 0
  BY <1>2 DEF Pointers
<1> HIDE DEF d, r
<1>5. Typed(tree)
  BY DEF Init, Nil, Typed, Pointers
<1>6. Grown(tree, d)
  <2>1. \A n \in Keys : IsFiniteSet({n})
    BY FS_Singleton
  <2>2. \A n \in Keys : tree.kid[n]["left"] = NULL /\ tree.kid[n]["right"] = NULL
    BY <1>1, <1>2, Zenon
  <2>3. \A n \in Keys : d[n] = {n} \cup d[tree.kid[n]["left"]] \cup d[tree.kid[n]["right"]]
    BY <1>3, <2>2, Zenon
  <2>4. QED
    BY <1>3, <2>1, <2>3 DEF Grown
<1>7. Ordered(tree, d) /\ Paired(tree, d)
  BY <1>1, <1>3 DEF Ordered, Paired
<1>8. Ranked(r)
  BY <1>4 DEF Ranked
<1>9. Balanced(tree, r, NULL, "left", 0)
  <2>1. ASSUME NEW n \in Keys, NEW t \in Sides
        PROVE  r[n] = r[tree.kid[n][t]] + Long(tree, n, t) + IF n = NULL /\ t = "left" THEN 0 ELSE 0
    <3>1. r[n] = 0 /\ r[tree.kid[n][t]] = -1 /\ Long(tree, n, t) = 1
      BY <1>1, <1>4 DEF Long
    <3>2. QED
      BY <3>1
  <2>2. QED
    BY <2>1 DEF Balanced
<1>10. LeafRule(tree, NULL)
  BY <1>1 DEF LeafRule
<1>11. TreeInv(d, r)
  BY <1>1, <1>5, <1>6, <1>7, <1>8, <1>9, <1>10 DEF TreeInv, Links, Progress, Idle
<1>12. QED
  BY <1>1, <1>3, <1>11

(* A rebalancing step changes neither the keys nor the answer.             *)
LEMMA RebalanceKeeps ==
    ASSUME NEW d, NEW r, TreeInv(d, r), Rebalance
    PROVE  Kept(d) /\ ret' = ret /\ pc # "idle"
<1>1. CASE InsertColor
  BY <1>1, InsertColorKeeps DEF InsertColor
<1>2. CASE RemoveLeaf
  BY <1>2, RemoveLeafKeeps DEF RemoveLeaf
<1>3. CASE RemoveColor
  BY <1>3, RemoveColorKeeps DEF RemoveColor
<1>4. QED
  BY <1>1, <1>2, <1>3 DEF Rebalance

(* Every step keeps the invariant.                                         *)
LEMMA StepKeeps ==
    ASSUME IInv, [Next]_vars
    PROVE  IInv'
<1>1. PICK d, r : TreeInv(d, r)
  BY DEF IInv
<1>2. ret \in Pointers
  BY DEF IInv
<1>3. CASE Rebalance
  <2>1. Kept(d) /\ ret' = ret
    BY <1>1, <1>3, RebalanceKeeps
  <2>2. QED
    BY <1>2, <2>1 DEF Kept, IInv
<1>4. ASSUME NEW k \in Keys, Insert(k)
      PROVE  IInv'
  <2>1. /\ \E e, q : TreeInv(e, q)'
        /\ ret' = IF k \in d[tree.root] THEN k ELSE NULL
    BY <1>1, <1>4, InsertKeeps
  <2>2. QED
    BY <2>1 DEF IInv, Pointers
<1>5. ASSUME NEW k \in Keys, Remove(k)
      PROVE  IInv'
  <2>1. (\E e, q : TreeInv(e, q)') /\ ret' = k
    BY <1>1, <1>5, RemoveKeeps
  <2>2. QED
    BY <2>1 DEF IInv, Pointers
<1>6. CASE UNCHANGED vars
  <2>1. TreeInv(d, r)'
    BY <1>1, <1>6 DEF vars, TreeInv, Links, Progress, Idle, Inserting, Removing
  <2>2. QED
    BY <1>2, <1>6, <2>1 DEF vars, IInv
<1>7. QED
  BY <1>3, <1>4, <1>5, <1>6 DEF Next

(* At every step, in the middle of a rebalancing too, the pointers make a  *)
(* search tree whose edges are as long as their bits say, but for one that *)
(* the call under way is about to settle.                                  *)
THEOREM TreeInductive == Spec => []IInv
<1>1. Init => IInv
  <2> SUFFICES ASSUME Init
               PROVE  IInv
    OBVIOUS
  <2>1. \E d, r : TreeInv(d, r)
    BY InitTree
  <2>2. ret \in Pointers
    BY DEF Init, Pointers
  <2>3. QED
    BY <2>1, <2>2 DEF IInv
<1>2. IInv /\ [Next]_vars => IInv'
  BY StepKeeps
<1>3. QED
  BY <1>1, <1>2, PTL DEF Spec

(* What the invariant says of the linked nodes.                            *)
LEMMA LinkedIs ==
    ASSUME NEW d, NEW r, TreeInv(d, r)
    PROVE  /\ Linked = d[tree.root] /\ Below(tree) = d
           /\ Linked \subseteq Keys /\ tree.root \in Pointers
           /\ tree.root # NULL => tree.root \in Linked
           /\ \A n \in Linked : d[n] \subseteq Linked
<1>1. Links(tree, d)
  BY DEF TreeInv
<1>2. Below(tree) = d
  BY <1>1, BelowIs DEF Links
<1>3. tree.root \in Pointers /\ d[tree.root] \subseteq Keys
  BY <1>1 DEF Links, Typed, Grown
<1>4. tree.root # NULL => /\ tree.root \in d[tree.root]
                          /\ \A n \in d[tree.root] : d[n] \subseteq d[tree.root]
  BY <1>1, <1>3, Hanging, Nested DEF Pointers, Links
<1>5. tree.root = NULL => d[tree.root] = {}
  BY <1>1 DEF Links, Grown
<1>6. QED
  BY <1>2, <1>3, <1>4, <1>5 DEF Linked

(* TypeOK of the runs, for any keys.                                       *)
THEOREM TreeTypes == Spec => []TypeOK
<1>1. IInv => TypeOK
  <2> SUFFICES ASSUME IInv
               PROVE  TypeOK
    OBVIOUS
  <2>1. PICK d, r : TreeInv(d, r)
    BY DEF IInv
  <2>2. ret \in Keys \cup {NULL}
    BY DEF IInv, Pointers
  <2>3. tree \in [root : Keys \cup {NULL}, kid : [Keys -> [Sides -> Keys \cup {NULL}]],
                  up : [Keys -> Keys \cup {NULL}], red : [Keys -> SUBSET Sides]]
    BY <2>1 DEF TreeInv, Links, Typed, Pointers
  <2>4. d[tree.root] \subseteq Keys
    BY <2>1, LinkedIs
  <2>5. \/ pc = "idle" /\ elm = NULL /\ parent = NULL
        \/ pc = "insert_color" /\ elm \in Keys /\ parent = NULL
        \/ pc \in {"remove_leaf", "remove_color"} /\ elm \in Keys \cup {NULL} /\ parent \in Keys
    BY <2>1, <2>4 DEF TreeInv, Progress, Idle, Inserting, Removing, Pointers
  <2>6. QED
    BY <2>2, <2>3, <2>5 DEF TypeOK
<1>2. QED
  BY <1>1, TreeInductive, PTL

(* LinksMatch of the runs: no pointer leads to a node that was taken out.  *)
THEOREM PointersAgree == Spec => []LinksMatch
<1>1. IInv => LinksMatch
  <2> SUFFICES ASSUME IInv
               PROVE  LinksMatch
    OBVIOUS
  <2>1. PICK d, r : TreeInv(d, r)
    BY DEF IInv
  <2>2. /\ Linked = d[tree.root] /\ Linked \subseteq Keys /\ tree.root \in Pointers
        /\ tree.root # NULL => tree.root \in Linked
    BY <2>1, LinkedIs
  <2>3. Links(tree, d) /\ Paired(tree, d)
    BY <2>1 DEF TreeInv, Links
  <2>4. ASSUME NEW n \in Linked, tree.up[n] # NULL
        PROVE  tree.up[n] \in Linked /\ \E s \in Sides : tree.kid[tree.up[n]][s] = n
    <3>1. n \in Keys /\ tree.root \in Keys
      BY <2>2, <2>3 DEF Pointers, Links, Grown
    <3>2. n # tree.root
      BY <2>3, <2>4, <3>1 DEF Paired
    <3>3. tree.up[n] \in Linked
      BY <2>2, <2>3, <3>1, <3>2, Nested
    <3>4. QED
      BY <2>3, <2>4, <3>1, <3>3 DEF Paired
  <2>5. \A n \in Linked : tree.up[n] = NULL => n = tree.root
    BY <2>2, <2>3 DEF Paired
  <2>6. tree.root # NULL => tree.up[tree.root] = NULL
    BY <2>2, <2>3 DEF Paired
  <2>7. \A n \in Linked, s \in Sides : tree.kid[n][s] # NULL => tree.up[tree.kid[n][s]] = n
    BY <2>2, <2>3 DEF Paired
  <2>8. QED
    BY <2>4, <2>5, <2>6, <2>7 DEF LinksMatch
<1>2. QED
  BY <1>1, TreeInductive, PTL

(* SearchOrder of the runs: a rotation never puts a key on the wrong side. *)
THEOREM KeysInOrder == Spec => []SearchOrder
<1>1. IInv => SearchOrder
  <2> SUFFICES ASSUME IInv
               PROVE  SearchOrder
    OBVIOUS
  <2>1. PICK d, r : TreeInv(d, r)
    BY DEF IInv
  <2>2. Linked \subseteq Keys /\ Below(tree) = d
    BY <2>1, LinkedIs
  <2>3. Links(tree, d)
    BY <2>1 DEF TreeInv
  <2>4. ASSUME NEW n \in Linked, NEW s \in Sides, NEW m \in Below(tree)[tree.kid[n][s]]
        PROVE  m \in Int /\ n \in Int /\ m # n /\ Toward(m, n) = s
    <3>1. n \in Keys /\ tree.kid[n][s] \in Pointers
      BY <2>2, <2>3 DEF Links, Typed
    <3>2. m \in Keys
      BY <2>2, <2>3, <3>1 DEF Links, Grown
    <3>3. QED
      BY <2>2, <2>3, <3>1, <3>2, ConstantsAssumption DEF Links, Ordered
  <2>5. ASSUME NEW n \in Linked
        PROVE  /\ \A m \in Below(tree)[tree.kid[n]["left"]] : m < n
               /\ \A m \in Below(tree)[tree.kid[n]["right"]] : n < m
    <3>1. ASSUME NEW m \in Below(tree)[tree.kid[n]["left"]]
          PROVE  m < n
      <4>1. m \in Int /\ n \in Int /\ Toward(m, n) = "left"
        BY <2>4 DEF Sides
      <4>2. QED
        BY <4>1 DEF Toward
    <3>2. ASSUME NEW m \in Below(tree)[tree.kid[n]["right"]]
          PROVE  n < m
      <4>1. m \in Int /\ n \in Int /\ m # n /\ Toward(m, n) = "right"
        BY <2>4 DEF Sides
      <4>2. QED
        BY <4>1 DEF Toward
    <3>3. QED
      BY <3>1, <3>2
  <2>6. QED
    BY <2>5 DEF SearchOrder
<1>2. QED
  BY <1>1, TreeInductive, PTL

(* Between calls an edge is just as long as its bit says.                  *)
LEMMA RankRead ==
    ASSUME NEW T, Typed(T), NEW r, Ranked(r), Balanced(T, r, NULL, "left", 0)
    PROVE  \A n \in Keys, s \in Sides :
              r[n] = r[T.kid[n][s]] + IF s \in T.red[n] THEN 2 ELSE 1
BY Edge, ConstantsAssumption

(* The rank of a node as RankRule reads it.                                *)
ReadDown(f) ==
    f = [n \in Keys \cup {NULL} |->
           IF n = NULL THEN -1
           ELSE f[tree.kid[n]["left"]] + IF "left" \in tree.red[n] THEN 2 ELSE 1]

(* Reading ranks down the left sides gives the ranks.                      *)
LEMMA RanksAre ==
    ASSUME NEW d, NEW r, TreeInv(d, r), pc = "idle", NEW f, ReadDown(f)
    PROVE  \A n \in Pointers : f[n] = r[n]
<1> DEFINE Bad == {n \in Keys : f[n] # r[n]}
<1>1. Links(tree, d) /\ Typed(tree) /\ Ranked(r) /\ Balanced(tree, r, NULL, "left", 0)
  BY DEF TreeInv, Progress, Idle, Inserting, Removing, Links
<1>2. f[NULL] = r[NULL] /\ NULL \notin Keys
  BY <1>1, ConstantsAssumption DEF Ranked, ReadDown
<1>3. Bad = {}
  <2> SUFFICES ASSUME Bad # {}
               PROVE  FALSE
    OBVIOUS
  <2>1. PICK n \in Bad : \A s \in Sides : tree.kid[n][s] \notin Bad
    BY <1>1, Lowest DEF Links
  <2>2. n \in Keys /\ f[n] # r[n] /\ "left" \in Sides
    BY <2>1 DEF Sides
  <2>3. tree.kid[n]["left"] \in Pointers
    BY <1>1, <2>2 DEF Typed
  <2>4. f[tree.kid[n]["left"]] = r[tree.kid[n]["left"]]
    BY <1>2, <2>1, <2>2, <2>3 DEF Pointers
  <2>5. f[n] = f[tree.kid[n]["left"]] + IF "left" \in tree.red[n] THEN 2 ELSE 1
    BY <1>2, <2>2, Zenon DEF ReadDown
  <2>6. r[n] = r[tree.kid[n]["left"]] + IF "left" \in tree.red[n] THEN 2 ELSE 1
    <3>1. \A m \in Keys, s \in Sides :
             r[m] = r[tree.kid[m][s]] + IF s \in tree.red[m] THEN 2 ELSE 1
      BY <1>1, RankRead
    <3>2. QED
      BY <2>2, <3>1
  <2>7. QED
    BY <2>2, <2>4, <2>5, <2>6
<1>4. QED
  BY <1>2, <1>3 DEF Pointers

(* RankRule of the runs: between calls one number for each node, read down *)
(* its left side, fits both its edges.                                     *)
THEOREM TreeBalanced == Spec => []RankRule
<1>1. IInv => RankRule
  <2> SUFFICES ASSUME IInv, pc = "idle"
               PROVE  RankRule
    BY Zenon DEF RankRule
  <2> DEFINE F(f) == f = [n \in Keys \cup {NULL} |->
                            IF n = NULL THEN -1
                            ELSE f[tree.kid[n]["left"]] + IF "left" \in tree.red[n] THEN 2 ELSE 1]
             w == CHOOSE f : F(f)
  <2>1. PICK d, r : TreeInv(d, r)
    BY DEF IInv
  <2>2. /\ Links(tree, d) /\ Typed(tree) /\ Ranked(r) /\ Balanced(tree, r, NULL, "left", 0)
        /\ LeafRule(tree, NULL) /\ NULL \notin Keys
    BY <2>1, ConstantsAssumption DEF TreeInv, Progress, Idle, Inserting, Removing, Links
  <2>3. F(r)
    <3>1. \A n \in Keys : r[n] = r[tree.kid[n]["left"]] + IF "left" \in tree.red[n] THEN 2 ELSE 1
      BY <2>2, Edge DEF Sides
    <3>2. r = [n \in Keys \cup {NULL} |-> r[n]] /\ r[NULL] = -1
      BY <2>2 DEF Ranked, Pointers
    <3>3. [n \in Keys \cup {NULL} |-> r[n]] =
          [n \in Keys \cup {NULL} |->
             IF n = NULL THEN -1
             ELSE r[tree.kid[n]["left"]] + IF "left" \in tree.red[n] THEN 2 ELSE 1]
      BY <2>2, <3>1, <3>2, Zenon
    <3>4. QED
      BY <3>2, <3>3, Zenon
  <2>4. ReadDown(w)
    BY <2>3, Zenon DEF ReadDown
  <2> HIDE DEF w
  <2>5. \A n \in Pointers : w[n] = r[n]
    BY <2>1, <2>4, RanksAre
  <2>6. Linked \subseteq Keys
    BY <2>1, LinkedIs
  <2>7. ASSUME NEW n \in Linked
        PROVE  /\ w[n] = w[tree.kid[n]["right"]] + IF "right" \in tree.red[n] THEN 2 ELSE 1
               /\ tree.kid[n] = Nil => tree.red[n] = {}
    <3>1. n \in Keys /\ "right" \in Sides /\ n # NULL
      BY <2>2, <2>6 DEF Sides
    <3>2. r[n] = r[tree.kid[n]["right"]] + IF "right" \in tree.red[n] THEN 2 ELSE 1
      BY <2>2, <3>1, Edge
    <3>3. w[n] = r[n] /\ w[tree.kid[n]["right"]] = r[tree.kid[n]["right"]]
      BY <2>2, <2>5, <3>1 DEF Typed, Pointers
    <3>4. tree.kid[n] = Nil => tree.red[n] = {}
      BY <2>2, <3>1 DEF LeafRule, Nil
    <3>5. QED
      BY <3>2, <3>3, <3>4
  <2>8. QED
    BY <2>7, Zenon DEF RankRule, w
<1>2. QED
  BY <1>1, TreeInductive, PTL

-----------------------------------------------------------------------------
(* Each step of the tree is a step of the set of keys, or none.            *)
LEMMA SetStep ==
    ASSUME IInv, IInv', [Next]_vars
    PROVE  [Set!Next]_(Set!vars)
<1>1. PICK d, r : TreeInv(d, r)
  BY DEF IInv
<1>2. Linked = d[tree.root]
  BY <1>1, LinkedIs
<1>3. \A e, q : TreeInv(e, q)' => Linked' = e[tree'.root]
  <2>1. ASSUME NEW e, NEW q, TreeInv(e, q)'
        PROVE  Linked' = e[tree'.root]
    <3>1. Links(tree', e)
      BY <2>1 DEF TreeInv
    <3>2. Below(tree') = e
      BY <3>1, BelowIs DEF Links
    <3>3. QED
      BY <3>2 DEF Linked
  <2>2. QED
    BY <2>1
<1>4. (pc # "idle")' \in BOOLEAN
  OBVIOUS
<1>5. CASE Rebalance
  <2>1. Kept(d) /\ ret' = ret /\ pc # "idle"
    BY <1>1, <1>5, RebalanceKeeps
  <2>2. Linked' = Linked
    BY <1>2, <1>3, <2>1 DEF Kept
  <2>3. CASE pc' = "idle"
    BY <2>1, <2>2, <2>3 DEF Set!Next, Set!Return
  <2>4. CASE pc' # "idle"
    BY <2>1, <2>2, <2>4 DEF Set!vars
  <2>5. QED
    BY <2>3, <2>4
<1>6. ASSUME NEW k \in Keys, Insert(k)
      PROVE  Set!Insert(k)
  <2>1. /\ \E e, q : TreeInv(e, q)' /\ e[tree'.root] = d[tree.root] \cup {k}
        /\ ret' = IF k \in d[tree.root] THEN k ELSE NULL
        /\ pc = "idle"
    BY <1>1, <1>6, InsertKeeps
  <2>2. Linked' = Linked \cup {k}
    BY <1>2, <1>3, <2>1
  <2>3. QED
    BY <1>2, <2>1, <2>2 DEF Set!Insert
<1>7. ASSUME NEW k \in Keys, Remove(k)
      PROVE  Set!Remove(k)
  <2>1. /\ \E e, q : TreeInv(e, q)' /\ e[tree'.root] = d[tree.root] \ {k}
        /\ k \in d[tree.root] /\ ret' = k /\ pc = "idle"
    BY <1>1, <1>7, RemoveKeeps
  <2>2. Linked' = Linked \ {k}
    BY <1>2, <1>3, <2>1
  <2>3. QED
    BY <1>2, <2>1, <2>2 DEF Set!Remove
<1>8. CASE UNCHANGED vars
  BY <1>8 DEF vars, Set!vars, Linked
<1>9. QED
  BY <1>5, <1>6, <1>7, <1>8 DEF Next, Set!Next

(* To its user the tree is a set of keys (the safety part of RefinesSet):  *)
(* RB_INSERT and RB_REMOVE each act in one step, on no other key, and the  *)
(* rebalancing that follows changes nothing.                               *)
THEOREM TreeIsSet == Spec => Set!Init /\ [][Set!Next]_(Set!vars)
<1>1. Init => Set!Init
  <2> SUFFICES ASSUME Init
               PROVE  Set!Init
    OBVIOUS
  <2>1. PICK d, r : TreeInv(d, r) /\ d[tree.root] = {}
    BY InitTree
  <2>2. Linked = {}
    BY <2>1, LinkedIs
  <2>3. QED
    BY <2>2 DEF Init, Set!Init
<1>2. IInv /\ IInv' /\ [Next]_vars => [Set!Next]_(Set!vars)
  BY SetStep
<1>3. QED
  BY <1>1, <1>2, TreeInductive, PTL DEF Spec

-----------------------------------------------------------------------------
(* The lookups.  v is the member of S that is on side t of all others, or  *)
(* NULL if S is empty: the least for the left, the greatest for the right. *)
First(v, S, t) ==
    IF S = {} THEN v = NULL ELSE v \in S /\ \A m \in S : m # v => Toward(v, m) = t

FirstOf(S, t) == CHOOSE v : First(v, S, t)

Least(S) == IF S = {} THEN NULL ELSE CHOOSE k \in S : \A m \in S : k <= m

Greatest(S) == IF S = {} THEN NULL ELSE CHOOSE k \in S : \A m \in S : m <= k

(* That is the least or the greatest of S, as the model writes them.       *)
LEMMA FirstIs ==
    ASSUME NEW S \in SUBSET Keys, NEW v
    PROVE  /\ First(v, S, "left") => v = Least(S)
           /\ First(v, S, "right") => v = Greatest(S)
<1>1. \A m \in S : m \in Int
  BY ConstantsAssumption
<1>2. CASE S = {}
  BY <1>2 DEF First, Least, Greatest
<1>3. ASSUME S # {}, First(v, S, "left")
      PROVE  v = Least(S)
  <2>1. v \in S /\ \A m \in S : v <= m
    <3>1. v \in S /\ \A m \in S : m # v => Toward(v, m) = "left"
      BY <1>3 DEF First
    <3>2. QED
      BY <1>1, <3>1 DEF Toward
  <2>2. \A k \in S : (\A m \in S : k <= m) => k = v
    BY <1>1, <2>1
  <2>3. QED
    BY <1>3, <2>1, <2>2 DEF Least
<1>4. ASSUME S # {}, First(v, S, "right")
      PROVE  v = Greatest(S)
  <2>1. v \in S /\ \A m \in S : m <= v
    <3>1. v \in S /\ \A m \in S : m # v => Toward(v, m) = "right"
      BY <1>4 DEF First
    <3>2. QED
      BY <1>1, <3>1 DEF Toward
  <2>2. \A k \in S : (\A m \in S : m <= k) => k = v
    BY <1>1, <2>1
  <2>3. QED
    BY <1>4, <2>1, <2>2 DEF Greatest
<1>5. QED
  BY <1>2, <1>3, <1>4

(* There is only one.                                                      *)
LEMMA FirstOnce ==
    ASSUME NEW S \in SUBSET Keys, NEW u, NEW v, NEW t \in Sides, First(u, S, t), First(v, S, t)
    PROVE  u = v
<1> SUFFICES ASSUME u # v
             PROVE  FALSE
  OBVIOUS
<1>1. u \in S /\ v \in S /\ Toward(u, v) = t /\ Toward(v, u) = t
  BY DEF First
<1>2. u \in Int /\ v \in Int
  BY <1>1, ConstantsAssumption
<1>3. QED
  BY <1>1, <1>2, TowardFacts, SideFacts

(* RB_FIND finds a key if it is there.                                     *)
LEMMA FindIs ==
    ASSUME NEW T, NEW d, Links(T, d), NEW k \in Keys
    PROVE  RB_FIND(T, k) = IF k \in d[T.root] THEN k ELSE NULL
<1>1. CASE T.root = NULL
  <2>1. Descend(T, k) = NULL /\ d[T.root] = {} /\ k # NULL
    BY <1>1, DescendFinds, ConstantsAssumption DEF Links, Grown
  <2>2. QED
    BY <2>1 DEF RB_FIND
<1>2. CASE T.root # NULL
  BY <1>2, DescendFinds DEF Found, RB_FIND
<1>3. QED
  BY <1>1, <1>2

(* RB_NFIND finds the least of the keys that are not below k.              *)
AtLeast(d, n, k) == {m \in d[n] : m >= k}

NFinds(T, k, f) ==
    f = [n \in Keys \cup {NULL} |->
           IF n \in {NULL, k} THEN n
           ELSE LET below == f[T.kid[n][Toward(k, n)]]
                IN  IF below = NULL /\ k < n THEN n ELSE below]

(* At a node that is not k the answer comes from the child on k's side.    *)
LEMMA NFindStep ==
    ASSUME NEW T, NEW d, Links(T, d), NEW k \in Keys, NEW n \in Keys, n # k,
           NEW v, First(v, AtLeast(d, T.kid[n][Toward(k, n)], k), "left")
    PROVE  First(IF v = NULL /\ k < n THEN n ELSE v, AtLeast(d, n, k), "left")
<1> DEFINE s == Toward(k, n)
           c == T.kid[n][s]
           o == T.kid[n][Other(s)]
<1>1. s \in Sides /\ Other(s) \in Sides /\ n \in Int /\ k \in Int
  BY ConstantsAssumption, SideFacts DEF Toward, Sides
<1>2. d[n] = {n} \cup d[c] \cup d[o] /\ d[n] \subseteq Keys
  BY <1>1, Hanging DEF Links
<1>3. /\ \A m \in d[c] : m \in Int /\ m # n /\ Toward(m, n) = s
      /\ \A m \in d[o] : m \in Int /\ m # n /\ Toward(m, n) = Other(s)
  BY <1>1, <1>2, ConstantsAssumption DEF Links, Ordered
<1>4. First(v, AtLeast(d, c, k), "left")
  OBVIOUS
<1> HIDE DEF c, o
<1>5. v = NULL <=> AtLeast(d, c, k) = {}
  <2>1. AtLeast(d, c, k) # {} => v \in d[c]
    BY <1>4 DEF First, AtLeast
  <2>2. NULL \notin d[c]
    BY <1>2, ConstantsAssumption
  <2>3. QED
    BY <1>4, <2>1, <2>2 DEF First
<1>6. CASE k < n
  <2>1. s = "left" /\ Other(s) = "right"
    BY <1>6 DEF Toward, Other
  <2>2. (\A m \in d[c] : m < n) /\ (\A m \in d[o] : n < m)
    BY <1>1, <1>3, <2>1 DEF Toward
  <2>3. /\ n \in AtLeast(d, n, k)
        /\ \A m \in AtLeast(d, n, k) : m = n \/ m \in AtLeast(d, c, k) \/ n < m
    BY <1>1, <1>2, <1>6, <2>2 DEF AtLeast
  <2>4. CASE v = NULL
    <3>1. \A m \in AtLeast(d, n, k) : m # n => n < m
      BY <1>5, <2>3, <2>4
    <3>2. First(n, AtLeast(d, n, k), "left")
      BY <2>3, <3>1 DEF First, Toward
    <3>3. QED
      BY <1>6, <2>4, <3>2
  <2>5. CASE v # NULL
    <3>1. v \in AtLeast(d, c, k) /\ \A m \in AtLeast(d, c, k) : m # v => Toward(v, m) = "left"
      BY <1>4, <1>5, <2>5 DEF First
    <3>2. v \in AtLeast(d, n, k) /\ v < n /\ v \in Int
      BY <1>2, <1>3, <2>2, <3>1 DEF AtLeast
    <3>3. ASSUME NEW m \in AtLeast(d, n, k), m # v
          PROVE  Toward(v, m) = "left"
      <4>1. CASE m \in AtLeast(d, c, k)
        BY <3>1, <3>3, <4>1
      <4>2. CASE m = n \/ n < m
        <5>1. m \in Int
          BY <1>2, ConstantsAssumption DEF AtLeast
        <5>2. v < m
          BY <1>1, <3>2, <4>2, <5>1
        <5>3. QED
          BY <5>2 DEF Toward
      <4>3. QED
        BY <2>3, <4>1, <4>2
    <3>4. First(v, AtLeast(d, n, k), "left")
      BY <3>2, <3>3 DEF First
    <3>5. QED
      BY <2>5, <3>4
  <2>6. QED
    BY <2>4, <2>5
<1>7. CASE ~(k < n)
  <2>1. s = "right" /\ Other(s) = "left" /\ n < k
    BY <1>1, <1>7 DEF Toward, Other
  <2>2. \A m \in d[o] : m < n
    BY <1>1, <1>3, <2>1 DEF Toward
  <2>3. AtLeast(d, n, k) = AtLeast(d, c, k)
    BY <1>1, <1>2, <1>3, <2>1, <2>2 DEF AtLeast
  <2>4. QED
    BY <1>4, <1>7, <2>3
<1>8. QED
  BY <1>6, <1>7

(* At k it is k, and past a missing child there is none.                   *)
LEMMA NFindHere ==
    ASSUME NEW T, NEW d, Links(T, d), NEW k \in Keys
    PROVE  First(k, AtLeast(d, k, k), "left") /\ First(NULL, AtLeast(d, NULL, k), "left")
<1>1. k \in d[k] /\ d[k] \subseteq Keys /\ d[NULL] = {} /\ k \in Int
  BY Hanging, ConstantsAssumption DEF Links, Grown
<1>2. k \in AtLeast(d, k, k) /\ \A m \in AtLeast(d, k, k) : m # k => k < m
  <2>1. \A m \in d[k] : m \in Int
    BY <1>1, ConstantsAssumption
  <2>2. QED
    BY <1>1, <2>1 DEF AtLeast
<1>3. QED
  BY <1>1, <1>2 DEF First, AtLeast, Toward

(* So the search gives the least of the whole tree's keys from k on.       *)
LEMMA NFindIs ==
    ASSUME NEW T, NEW d, Links(T, d), NEW k \in Keys
    PROVE  First(RB_NFIND(T, k), AtLeast(d, T.root, k), "left")
<1> DEFINE A(n) == AtLeast(d, n, k)
           next(n) == T.kid[n][Toward(k, n)]
           h == [n \in Keys \cup {NULL} |-> FirstOf(A(n), "left")]
           w == CHOOSE f : NFinds(T, k, f)
           Lost == {n \in Keys : ~\E v : First(v, A(n), "left")}
           Bad == {n \in Keys : ~First(w[n], A(n), "left")}
<1>1. /\ \A n \in Keys : Toward(k, n) \in Sides /\ next(n) \in Pointers
      /\ "left" \in Sides /\ T.root \in Pointers
  BY DEF Links, Typed, Toward, Sides
<1>2. \A n \in Pointers : A(n) \in SUBSET Keys
  BY Zenon DEF AtLeast, Links, Grown
<1>3. First(k, A(k), "left") /\ First(NULL, A(NULL), "left")
  BY NFindHere
<1>4. \A n \in Keys : \A v : n # k /\ First(v, A(next(n)), "left") =>
          First(IF v = NULL /\ k < n THEN n ELSE v, A(n), "left")
  BY NFindStep
<1> HIDE DEF A, next
<1>5. \A n \in Pointers : \E v : First(v, A(n), "left")
  <2>1. Lost = {}
    <3> SUFFICES ASSUME Lost # {}
                 PROVE  FALSE
      OBVIOUS
    <3>1. PICK n \in Lost : \A s \in Sides : T.kid[n][s] \notin Lost
      BY Lowest DEF Links
    <3>2. n # k /\ next(n) \notin Lost
      BY <1>1, <1>3, <3>1 DEF next
    <3>3. \E v : First(v, A(next(n)), "left")
      BY <1>1, <1>3, <3>2 DEF Pointers
    <3>4. QED
      BY <1>4, <3>1, <3>2, <3>3
  <2>2. QED
    BY <1>3, <2>1 DEF Pointers
<1>6. /\ \A n \in Pointers : First(h[n], A(n), "left")
      /\ h = [n \in Keys \cup {NULL} |-> h[n]]
  <2>1. /\ \A n \in Keys \cup {NULL} : h[n] = FirstOf(A(n), "left")
        /\ h = [n \in Keys \cup {NULL} |-> h[n]]
    BY Zenon
  <2> HIDE DEF h
  <2>2. \A n \in Pointers : First(FirstOf(A(n), "left"), A(n), "left")
    <3>1. ASSUME NEW n \in Pointers
          PROVE  First(CHOOSE v : First(v, A(n), "left"), A(n), "left")
      BY <1>5
    <3>2. QED
      BY <3>1 DEF FirstOf
  <2>3. QED
    BY <2>1, <2>2, Zenon DEF Pointers
<1> HIDE DEF h
<1>7. ASSUME NEW n \in Pointers
      PROVE  h[n] = IF n \in {NULL, k} THEN n
                    ELSE IF h[next(n)] = NULL /\ k < n THEN n ELSE h[next(n)]
  <2>1. CASE n \in {NULL, k}
    BY <1>1, <1>2, <1>3, <1>6, <2>1, FirstOnce, Zenon
  <2>2. CASE n \notin {NULL, k}
    <3>1. n \in Keys /\ next(n) \in Pointers
      BY <1>1, <2>2 DEF Pointers
    <3>2. First(IF h[next(n)] = NULL /\ k < n THEN n ELSE h[next(n)], A(n), "left")
      BY <1>4, <1>6, <2>2, <3>1, Zenon
    <3>3. QED
      BY <1>1, <1>2, <1>6, <2>2, <3>2, FirstOnce, Zenon
  <2>3. QED
    BY <2>1, <2>2
<1>8. NFinds(T, k, h)
  <2>1. h = [n \in Keys \cup {NULL} |-> h[n]]
    BY <1>6, Zenon
  <2>2. QED
    BY <1>7, <2>1, Zenon DEF NFinds, next, Pointers
<1>9. NFinds(T, k, w)
  BY <1>8
<1>10. RB_NFIND(T, k) = w[T.root]
  BY DEF RB_NFIND, NFinds
<1> HIDE DEF w
<1>11. \A n \in Pointers : w[n] = IF n \in {NULL, k} THEN n
                                  ELSE IF w[next(n)] = NULL /\ k < n THEN n ELSE w[next(n)]
  BY <1>9 DEF NFinds, next, Pointers
<1>12. Bad = {}
  <2> SUFFICES ASSUME Bad # {}
               PROVE  FALSE
    OBVIOUS
  <2>1. PICK n \in Bad : \A s \in Sides : T.kid[n][s] \notin Bad
    BY Lowest DEF Links
  <2>2. n \in Pointers /\ n \in Keys /\ n # NULL
    BY <2>1, ConstantsAssumption DEF Pointers
  <2>3. n # k
    BY <1>3, <1>11, <2>1, <2>2
  <2>4. next(n) \notin Bad
    BY <1>1, <2>1, <2>2 DEF next
  <2>5. First(w[next(n)], A(next(n)), "left")
    <3>1. w[NULL] = NULL
      BY <1>11 DEF Pointers
    <3>2. next(n) \in Pointers
      BY <1>1, <2>2
    <3>3. QED
      BY <1>3, <2>4, <3>1, <3>2 DEF Pointers
  <2>6. w[n] = IF w[next(n)] = NULL /\ k < n THEN n ELSE w[next(n)]
    BY <1>11, <2>2, <2>3
  <2>7. First(w[n], A(n), "left")
    BY <1>4, <2>2, <2>3, <2>5, <2>6
  <2>8. QED
    BY <2>1, <2>7
<1>13. First(w[T.root], A(T.root), "left")
  <2>1. w[NULL] = NULL
    BY <1>11 DEF Pointers
  <2>2. QED
    BY <1>1, <1>3, <1>12, <2>1 DEF Pointers
<1>14. QED
  BY <1>10, <1>13 DEF A

(* A node that does not hang from p is on the same side of all that do.    *)
LEMMA Beyond ==
    ASSUME NEW T, NEW d, Links(T, d), NEW p \in d[T.root], NEW m \in d[p],
           NEW x \in d[T.root], x \notin d[p]
    PROVE  x # p /\ x # m /\ Toward(x, m) = Toward(x, p)
<1>1. T.root \in Keys /\ p \in Keys /\ m \in Keys /\ x \in Keys /\ d[p] \subseteq d[T.root]
  <2>1. T.root \in Keys
    BY DEF Links, Typed, Grown, Pointers
  <2>2. p \in Keys /\ x \in Keys /\ d[p] \subseteq d[T.root]
    BY <2>1, Nested
  <2>3. QED
    BY <2>1, <2>2, Nested
<1>2. x \in Int /\ m \in Int /\ p \in Int
  BY <1>1, ConstantsAssumption
<1>3. x # m /\ x # p
  BY <1>1, Hanging DEF Links
<1>4. PICK a \in d[T.root] : /\ a \in Keys /\ x \in d[a] /\ p \in d[a]
                             /\ \A s \in Sides : ~(x \in d[T.kid[a][s]] /\ p \in d[T.kid[a][s]])
  <2>1. T.root \in Keys
    BY <1>1
  <2>2. \E a \in d[T.root] : /\ a \in Keys /\ x \in d[a] /\ p \in d[a]
                             /\ \A s \in Sides : ~(x \in d[T.kid[a][s]] /\ p \in d[T.kid[a][s]])
    BY <2>1, Meeting, ZenonT(60)
  <2>3. QED
    BY <2>2, Zenon
<1>5. a # p
  BY <1>4
<1>6. PICK t \in Sides : p \in d[T.kid[a][t]]
  BY <1>4, <1>5, Hanging DEF Links
<1>7. m \in d[T.kid[a][t]]
  <2>1. T.kid[a][t] \in Keys
    BY <1>4, <1>6 DEF Links, Typed, Grown, Pointers
  <2>2. QED
    BY <1>6, <2>1, Nested
<1>8. Toward(p, a) = t /\ p # a /\ Toward(m, a) = t /\ m # a /\ a \in Int
  BY <1>4, <1>6, <1>7, ConstantsAssumption DEF Links, Ordered
<1>9. CASE x = a
  BY <1>2, <1>8, <1>9, TowardFacts
<1>10. CASE x # a
  <2>1. PICK v \in Sides : x \in d[T.kid[a][v]]
    BY <1>4, <1>10, Hanging DEF Links
  <2>2. v = Other(t)
    BY <1>4, <1>6, <2>1, SideFacts
  <2>3. Toward(x, a) = Other(t)
    BY <1>4, <2>1, <2>2 DEF Links, Ordered
  <2>4. Toward(p, x) = t /\ Toward(m, x) = t
    BY <1>2, <1>8, <1>10, <2>3, TowardFacts
  <2>5. QED
    BY <1>2, <1>3, <2>4, TowardFacts
<1>11. QED
  BY <1>9, <1>10

(* Of any nodes in the tree one is highest: its parent is not one of them. *)
LEMMA Highest ==
    ASSUME NEW T, NEW d, Links(T, d), NEW S \in SUBSET d[T.root], S # {}
    PROVE  \E n \in S : T.up[n] \notin S
<1> DEFINE Rest(n) == d[T.root] \ d[n]
           Sizes == {Cardinality(Rest(n)) : n \in S}
<1>1. T.root \in Keys /\ d[T.root] \subseteq Keys
  BY DEF Links, Typed, Grown, Pointers
<1>2. \A n \in Keys : IsFiniteSet(Rest(n)) /\ Cardinality(Rest(n)) \in Nat
  <2>1. IsFiniteSet(d[T.root])
    BY <1>1 DEF Links, Grown
  <2>2. \A n \in Keys : IsFiniteSet(Rest(n))
    BY <2>1, FS_Subset
  <2>3. QED
    BY <2>2, FS_CardinalityType, Zenon
<1>3. Sizes \subseteq Nat /\ Sizes # {}
  BY <1>1, <1>2
<1> HIDE DEF Sizes
<1>4. PICK x \in Sizes : \A y \in Sizes : x <= y
  BY <1>3, LeastOf
<1>5. PICK n \in S : x = Cardinality(Rest(n))
  BY <1>4 DEF Sizes
<1>6. ASSUME T.up[n] \in S
      PROVE  FALSE
  <2> DEFINE p == T.up[n]
  <2>1. n \in Keys /\ p \in Keys /\ p # NULL /\ n # NULL
    BY <1>1, <1>6, ConstantsAssumption
  <2>2. n \in d[p] /\ SideOf(T, p, n) \in Sides /\ T.kid[p][SideOf(T, p, n)] = n
    BY <2>1, OneParent
  <2>3. p \notin d[n] /\ d[n] \subseteq d[p]
    BY <2>1, <2>2, KidFacts, Nested DEF Links
  <2>4. p \in d[p]
    BY <2>1, Hanging DEF Links
  <2>5. Rest(p) \subseteq Rest(n) /\ p \in Rest(n) /\ p \notin Rest(p)
    BY <1>6, <2>3, <2>4
  <2>6. Cardinality(Rest(n)) <= Cardinality(Rest(p))
    BY <1>4, <1>5, <1>6, Zenon DEF Sizes
  <2> HIDE DEF Rest
  <2>7. Cardinality(Rest(p)) <= Cardinality(Rest(n)) /\ Cardinality(Rest(p)) # Cardinality(Rest(n))
    BY <1>2, <2>1, <2>5, FS_Subset
  <2>8. QED
    BY <1>2, <2>1, <2>6, <2>7
<1>7. QED
  BY <1>6

(* The nodes beyond all that hang from m, on side s.                       *)
Past(T, d, m, s) == {x \in d[T.root] \ d[m] : Toward(x, m) = s}

(* They are the same for m and its parent, unless its parent is one.       *)
LEMMA PastStep ==
    ASSUME NEW T, NEW d, Links(T, d), NEW m \in d[T.root], NEW s \in Sides
    PROVE  /\ T.up[m] = NULL => First(NULL, Past(T, d, m, s), Other(s))
           /\ T.up[m] # NULL => T.up[m] \in d[T.root] /\ SideOf(T, T.up[m], m) \in Sides
           /\ T.up[m] # NULL /\ SideOf(T, T.up[m], m) = Other(s) =>
                 First(T.up[m], Past(T, d, m, s), Other(s))
           /\ T.up[m] # NULL /\ SideOf(T, T.up[m], m) = s =>
                 Past(T, d, m, s) = Past(T, d, T.up[m], s)
<1> DEFINE p == T.up[m]
           t == SideOf(T, p, m)
           o == Other(s)
<1>1. m \in Keys /\ T.root \in Keys /\ d[T.root] \subseteq Keys /\ m # NULL
  BY ConstantsAssumption DEF Links, Grown, Typed, Pointers
<1>2. o \in Sides /\ o # s /\ \A u \in Sides : u = s \/ u = o
  BY SideFacts
<1>3. ASSUME p = NULL
      PROVE  First(NULL, Past(T, d, m, s), o)
  <2>1. m = T.root
    BY <1>1, <1>3 DEF Links, Paired
  <2>2. QED
    BY <2>1 DEF First, Past
<1>4. ASSUME p # NULL
      PROVE  /\ p \in Keys /\ p \in d[T.root] /\ t \in Sides /\ T.kid[p][t] = m
             /\ Toward(m, p) = t /\ p # m /\ Toward(p, m) = Other(t) /\ p \notin d[m]
             /\ d[m] \subseteq d[p] /\ d[p] = {p} \cup d[m] \cup d[T.kid[p][Other(t)]]
  <2>1. p \in Keys /\ t \in Sides /\ T.kid[p][t] = m /\ p # m /\ m \in d[p]
    BY <1>1, <1>4, OneParent
  <2>2. m # T.root
    BY <1>1, <1>4 DEF Links, Paired
  <2>3. p \in d[T.root] /\ d[m] \subseteq d[p]
    BY <1>1, <2>1, <2>2, Nested
  <2>4. Toward(m, p) = t /\ p \notin d[m]
    BY <1>1, <2>1, KidFacts DEF Links
  <2>5. Toward(p, m) = Other(t)
    BY <1>1, <2>1, <2>4, TowardFacts, ConstantsAssumption
  <2>6. d[p] = {p} \cup d[m] \cup d[T.kid[p][Other(t)]]
    BY <2>1, Hanging DEF Links
  <2>7. QED
    BY <2>1, <2>3, <2>4, <2>5, <2>6
<1>5. ASSUME p # NULL, t = o
      PROVE  First(p, Past(T, d, m, s), o)
  <2>1. Other(t) = s
    BY <1>5, SideFacts
  <2>2. p \in Past(T, d, m, s)
    BY <1>4, <1>5, <2>1 DEF Past
  <2>3. ASSUME NEW x \in Past(T, d, m, s), x # p
        PROVE  Toward(p, x) = o
    <3>1. x \in d[T.root] /\ x \notin d[m] /\ Toward(x, m) = s /\ x \in Keys
      BY <1>1 DEF Past
    <3>2. x \in Int /\ p \in Int
      BY <1>4, <1>5, <3>1, ConstantsAssumption
    <3>3. Toward(x, p) = s
      <4>1. CASE x \in d[p]
        <5>1. x \in d[T.kid[p][s]]
          BY <1>4, <1>5, <2>1, <2>3, <3>1, <4>1
        <5>2. QED
          BY <1>4, <1>5, <5>1 DEF Links, Ordered
      <4>2. CASE x \notin d[p]
        <5>1. m \in d[p]
          BY <1>1, <1>4, <1>5, Hanging DEF Links
        <5>2. QED
          BY <1>4, <1>5, <3>1, <4>2, <5>1, Beyond
      <4>3. QED
        BY <4>1, <4>2
    <3>4. QED
      BY <2>3, <3>2, <3>3, TowardFacts
  <2>4. QED
    BY <2>2, <2>3 DEF First
<1>6. ASSUME p # NULL, t = s
      PROVE  Past(T, d, m, s) = Past(T, d, p, s)
  <2>1. m \in d[p]
    BY <1>1, <1>4, <1>6, Hanging DEF Links
  <2>2. ASSUME NEW x \in d[T.root], x \notin d[p]
        PROVE  x \notin d[m] /\ Toward(x, m) = Toward(x, p)
    BY <1>4, <1>6, <2>1, <2>2, Beyond
  <2>3. ASSUME NEW x \in d[p], x \notin d[m], x \in Keys
        PROVE  Toward(x, m) # s
    <3>1. x \in Int /\ p \in Int /\ m \in Int
      BY <1>1, <1>4, <1>6, <2>3, ConstantsAssumption
    <3>2. CASE x = p
      BY <1>2, <1>4, <1>6, <3>2
    <3>3. CASE x # p
      <4>1. x \in d[T.kid[p][o]]
        BY <1>4, <1>6, <2>3, <3>3
      <4>2. Toward(x, p) = o
        BY <1>2, <1>4, <1>6, <4>1 DEF Links, Ordered
      <4>3. m # x /\ Toward(m, x) = s
        BY <1>4, <1>6, <3>1, <3>3, <4>2, TowardFacts
      <4>4. QED
        BY <1>2, <3>1, <4>3, TowardFacts
    <3>4. QED
      BY <3>2, <3>3
  <2>4. \A x \in d[T.root] : x \notin d[m] /\ Toward(x, m) = s <=> x \notin d[p] /\ Toward(x, p) = s
    BY <1>1, <2>2, <2>3, Zenon
  <2>5. QED
    BY <2>4 DEF Past
<1>7. QED
  BY <1>3, <1>4, <1>5, <1>6

(* Going up from m, the first node that m is not on side s of comes next.  *)
Climbs(T, s, f) ==
    f = [m \in Keys |-> LET p == T.up[m]
                        IN  IF p = NULL \/ SideOf(T, p, m) = Other(s) THEN p ELSE f[p]]

(* A climb ends at the nearest of the nodes past the one it starts from.   *)
LEMMA ClimbsOn ==
    ASSUME NEW T, NEW d, Links(T, d), NEW s \in Sides, NEW f, Climbs(T, s, f),
           NEW n \in d[T.root]
    PROVE  First(f[n], Past(T, d, n, s), Other(s))
<1> DEFINE Bad == {m \in d[T.root] : ~First(f[m], Past(T, d, m, s), Other(s))}
<1>1. \A m \in Keys : f[m] = IF T.up[m] = NULL \/ SideOf(T, T.up[m], m) = Other(s) THEN T.up[m]
                             ELSE f[T.up[m]]
  BY Zenon DEF Climbs
<1>2. d[T.root] \subseteq Keys
  BY DEF Links, Grown, Typed
<1>3. Bad = {}
  <2> SUFFICES ASSUME Bad # {}
               PROVE  FALSE
    OBVIOUS
  <2>1. PICK m \in Bad : T.up[m] \notin Bad
    BY Highest
  <2>2. m \in d[T.root] /\ m \in Keys
    BY <1>2, <2>1
  <2>3. CASE T.up[m] = NULL
    BY <1>1, <2>1, <2>2, <2>3, PastStep
  <2>4. CASE T.up[m] # NULL /\ SideOf(T, T.up[m], m) = Other(s)
    BY <1>1, <2>1, <2>2, <2>4, PastStep
  <2>5. CASE T.up[m] # NULL /\ SideOf(T, T.up[m], m) # Other(s)
    <3>1. /\ T.up[m] \in d[T.root] /\ SideOf(T, T.up[m], m) = s
          /\ Past(T, d, m, s) = Past(T, d, T.up[m], s)
      BY <2>2, <2>5, PastStep, SideFacts
    <3>2. f[m] = f[T.up[m]]
      BY <1>1, <2>2, <2>5
    <3>3. First(f[T.up[m]], Past(T, d, T.up[m], s), Other(s))
      BY <2>1, <3>1
    <3>4. QED
      BY <2>1, <3>1, <3>2, <3>3
  <2>6. QED
    BY <2>3, <2>4, <2>5
<1>4. QED
  BY <1>3

(* The recursive function of the model exists.                             *)
LEMMA ClimbExists ==
    ASSUME NEW T, NEW d, Links(T, d), NEW s \in Sides
    PROVE  \E f : Climbs(T, s, f)
<1> DEFINE P(m) == Past(T, d, m, s)
           o == Other(s)
           Lost == {m \in d[T.root] : ~\E v : First(v, P(m), o)}
           h == [m \in Keys |-> IF m \in d[T.root] THEN FirstOf(P(m), o) ELSE NULL]
<1>1. d[T.root] \subseteq Keys /\ o \in Sides
  BY SideFacts DEF Links, Grown, Typed
<1>2. \A m : P(m) \in SUBSET Keys
  BY <1>1 DEF Past
<1>3. \A m \in d[T.root] :
         /\ T.up[m] = NULL => First(NULL, P(m), o)
         /\ T.up[m] # NULL => T.up[m] \in d[T.root] /\ SideOf(T, T.up[m], m) \in Sides
         /\ T.up[m] # NULL /\ SideOf(T, T.up[m], m) = o => First(T.up[m], P(m), o)
         /\ T.up[m] # NULL /\ SideOf(T, T.up[m], m) = s => P(m) = P(T.up[m])
  BY PastStep
<1> HIDE DEF P
<1>4. \A m \in d[T.root] : \E v : First(v, P(m), o)
  <2>1. Lost = {}
    <3> SUFFICES ASSUME Lost # {}
                 PROVE  FALSE
      OBVIOUS
    <3>1. PICK m \in Lost : T.up[m] \notin Lost
      BY Highest
    <3>2. T.up[m] # NULL /\ SideOf(T, T.up[m], m) # o
      BY <1>3, <3>1
    <3>3. T.up[m] \in d[T.root] /\ P(m) = P(T.up[m])
      BY <1>3, <3>1, <3>2, SideFacts
    <3>4. QED
      BY <3>1, <3>3
  <2>2. QED
    BY <2>1
<1>5. /\ \A m \in Keys : m \in d[T.root] => First(h[m], P(m), o)
      /\ \A m \in Keys : m \notin d[T.root] => h[m] = NULL
      /\ h = [m \in Keys |-> h[m]]
  <2>1. /\ \A m \in Keys : h[m] = IF m \in d[T.root] THEN FirstOf(P(m), o) ELSE NULL
        /\ h = [m \in Keys |-> h[m]]
    OBVIOUS
  <2> HIDE DEF h
  <2>2. \A m \in d[T.root] : First(FirstOf(P(m), o), P(m), o)
    <3>1. ASSUME NEW m \in d[T.root]
          PROVE  First(CHOOSE v : First(v, P(m), o), P(m), o)
      BY <1>4
    <3>2. QED
      BY <3>1 DEF FirstOf
  <2>3. QED
    BY <2>1, <2>2
<1> HIDE DEF h
<1>6. ASSUME NEW m \in Keys
      PROVE  h[m] = IF T.up[m] = NULL \/ SideOf(T, T.up[m], m) = o THEN T.up[m] ELSE h[T.up[m]]
  <2>1. CASE m \notin d[T.root]
    <3>1. T.up[m] = NULL
      BY <2>1 DEF Links, Paired
    <3>2. QED
      BY <1>5, <2>1, <3>1
  <2>2. CASE m \in d[T.root] /\ (T.up[m] = NULL \/ SideOf(T, T.up[m], m) = o)
    <3>1. First(T.up[m], P(m), o) /\ First(h[m], P(m), o)
      BY <1>3, <1>5, <2>2
    <3>2. QED
      BY <1>1, <1>2, <2>2, <3>1, FirstOnce
  <2>3. CASE m \in d[T.root] /\ ~(T.up[m] = NULL \/ SideOf(T, T.up[m], m) = o)
    <3>1. T.up[m] \in d[T.root] /\ P(m) = P(T.up[m])
      BY <1>3, <2>3, SideFacts
    <3>2. First(h[m], P(m), o) /\ First(h[T.up[m]], P(m), o)
      BY <1>1, <1>5, <2>3, <3>1
    <3>3. QED
      BY <1>1, <1>2, <2>3, <3>2, FirstOnce
  <2>4. QED
    BY <2>1, <2>2, <2>3
<1>7. Climbs(T, s, h)
  BY <1>5, <1>6, Zenon DEF Climbs
<1>8. QED
  BY <1>7

(* RB_NEXT and RB_PREV: the next node on side s.                           *)
Beside(T, d, n, s) == {x \in d[T.root] : x # n /\ Toward(x, n) = s}

(* It is the nearest of the nodes on that side.                            *)
LEMMA NeighbourIs ==
    ASSUME NEW T, NEW d, Links(T, d), NEW n \in d[T.root], NEW s \in Sides
    PROVE  First(Neighbour(T, n, s), Beside(T, d, n, s), Other(s))
<1> DEFINE o == Other(s)
           c == T.kid[n][s]
           w == CHOOSE f : Climbs(T, s, f)
<1>1. n \in Keys /\ T.root \in Keys /\ d[T.root] \subseteq Keys
  BY DEF Links, Grown, Typed, Pointers
<1>2. o \in Sides /\ o # s /\ Other(o) = s
  BY SideFacts
<1>3. /\ n \in d[n] /\ d[n] = {n} \cup d[c] \cup d[T.kid[n][o]] /\ d[n] \subseteq d[T.root]
      /\ \A x \in d[c] : x # n /\ Toward(x, n) = s
      /\ \A x \in d[T.kid[n][o]] : Toward(x, n) = o
  <2>1. d[n] \subseteq d[T.root]
    BY <1>1, Nested
  <2>2. QED
    BY <1>1, <1>2, <2>1, Hanging DEF Links, Ordered
<1>4. Neighbour(T, n, s) = IF c # NULL THEN Extreme(T, c, o) ELSE w[n]
  BY DEF Neighbour, Climbs
<1>5. \E f : Climbs(T, s, f)
  BY ClimbExists
<1>6. Climbs(T, s, w)
  BY <1>5
<1> HIDE DEF w, c
<1>7. CASE c = NULL
  <2>1. First(w[n], Past(T, d, n, s), o)
    BY <1>6, ClimbsOn
  <2>2. d[c] = {}
    BY <1>7 DEF Links, Grown
  <2>3. Past(T, d, n, s) = Beside(T, d, n, s)
    BY <1>2, <1>3, <2>2 DEF Past, Beside
  <2>4. QED
    BY <1>4, <1>7, <2>1, <2>3
<1>8. CASE c # NULL
  <2> DEFINE e == Extreme(T, c, o)
  <2>1. c \in Keys
    BY <1>1, <1>8 DEF c, Links, Typed, Pointers
  <2>2. e \in d[c] /\ \A x \in d[c] : x # e => Toward(e, x) = o
    BY <1>2, <2>1, ExtremeIs
  <2> HIDE DEF e
  <2>3. e \in d[n] /\ e \in Beside(T, d, n, s)
    BY <1>3, <2>2 DEF Beside
  <2>4. ASSUME NEW x \in Beside(T, d, n, s), x # e
        PROVE  Toward(e, x) = o
    <3>1. x \in d[T.root] /\ x # n /\ Toward(x, n) = s /\ x \in Keys
      BY <1>1 DEF Beside
    <3>2. CASE x \in d[n]
      BY <1>2, <1>3, <2>2, <2>4, <3>1, <3>2
    <3>3. CASE x \notin d[n]
      <4>1. Toward(x, e) = s
        BY <2>3, <3>1, <3>3, Beyond
      <4>2. x \in Int /\ e \in Int
        BY <1>1, <1>3, <2>3, <3>1, ConstantsAssumption
      <4>3. QED
        BY <2>4, <4>1, <4>2, TowardFacts
    <3>4. QED
      BY <3>2, <3>3
  <2>5. First(e, Beside(T, d, n, s), o)
    BY <2>3, <2>4 DEF First
  <2>6. QED
    BY <1>4, <1>8, <2>5 DEF e
<1>9. QED
  BY <1>7, <1>8

(* LookupsRight of the runs: between calls every lookup, which goes down   *)
(* and up the pointers, finds what the set of the linked keys says.        *)
THEOREM LookupsFind == Spec => []LookupsRight
<1>1. IInv => LookupsRight
  <2> SUFFICES ASSUME IInv
               PROVE  LookupsRight
    OBVIOUS
  <2>1. PICK d, r : TreeInv(d, r)
    BY DEF IInv
  <2>2. Links(tree, d) /\ Linked = d[tree.root] /\ Linked \subseteq Keys /\ tree.root \in Pointers
    BY <2>1, LinkedIs DEF TreeInv
  <2>3. ASSUME NEW s \in Sides
        PROVE  First(RB_MINMAX(tree, s), Linked, s)
    <3>1. CASE tree.root = NULL
      BY <2>2, <3>1 DEF RB_MINMAX, First, Links, Grown
    <3>2. CASE tree.root # NULL
      <4>1. tree.root \in Keys
        BY <2>2, <3>2 DEF Pointers
      <4>2. QED
        BY <2>2, <3>2, <4>1, ExtremeIs DEF RB_MINMAX, First
    <3>3. QED
      BY <3>1, <3>2
  <2>4. RB_MINMAX(tree, "left") = Least(Linked) /\ RB_MINMAX(tree, "right") = Greatest(Linked)
    BY <2>2, <2>3, FirstIs DEF Sides
  <2>5. ASSUME NEW k \in Keys
        PROVE  /\ RB_FIND(tree, k) = IF k \in Linked THEN k ELSE NULL
               /\ RB_NFIND(tree, k) = Least({m \in Linked : m >= k})
    <3>1. First(RB_NFIND(tree, k), {m \in Linked : m >= k}, "left")
      BY <2>2, NFindIs DEF AtLeast
    <3>2. {m \in Linked : m >= k} \in SUBSET Keys
      BY <2>2
    <3>3. QED
      BY <2>2, <3>1, <3>2, FindIs, FirstIs
  <2>6. ASSUME NEW n \in Linked
        PROVE  /\ Neighbour(tree, n, "right") = Least({m \in Linked : m > n})
               /\ Neighbour(tree, n, "left") = Greatest({m \in Linked : m < n})
    <3>1. /\ First(Neighbour(tree, n, "right"), Beside(tree, d, n, "right"), "left")
          /\ First(Neighbour(tree, n, "left"), Beside(tree, d, n, "left"), "right")
      <4>1. "left" \in Sides /\ "right" \in Sides /\ Other("left") = "right" /\ Other("right") = "left"
        BY DEF Sides, Other
      <4>2. QED
        BY <2>2, <4>1, NeighbourIs
    <3>2. \A m \in Linked : m \in Int /\ n \in Int
      BY <2>2, ConstantsAssumption
    <3>3. /\ Beside(tree, d, n, "right") = {m \in Linked : m > n}
          /\ Beside(tree, d, n, "left") = {m \in Linked : m < n}
      BY <2>2, <3>2 DEF Beside, Toward
    <3>4. {m \in Linked : m > n} \in SUBSET Keys /\ {m \in Linked : m < n} \in SUBSET Keys
      BY <2>2
    <3>5. QED
      BY <3>1, <3>3, <3>4, FirstIs
  <2>7. QED
    BY <2>4, <2>5, <2>6 DEF LookupsRight, Least, Greatest
<1>2. QED
  BY <1>1, TreeInductive, PTL

=============================================================================
