------------------------------ MODULE RankTree ------------------------------
(***************************************************************************)
(* The rank-balanced tree of sys/tree.h, as RB_GENERATE expands it for the *)
(* tag tree: insertion, removal and the lookups, down to the child and     *)
(* parent pointers and the two "red" bits kept in each parent pointer.     *)
(*                                                                         *)
(* The code writes each rebalancing step twice, for the left and for the   *)
(* right; here a side is a parameter.  One action is one pass of a         *)
(* rebalancing loop.  A node is named by its key: the caller frees what it *)
(* removes, and two nodes with one key are never in the tree.  Calls do    *)
(* not overlap, since the tree is changed under tag_tree_mtx (TagTree).    *)
(***************************************************************************)
EXTENDS Integers

CONSTANTS
    Keys,       \* the tag ids
    NULL        \* the null pointer

ASSUME ConstantsAssumption == Keys \subseteq Int /\ NULL \notin Keys

VARIABLES
    tree,           \* root, and each node's children, parent and red bits
    pc,             \* where the current call is
    elm, parent,    \* locals of the rebalancing loops
    ret             \* what the last RB_INSERT or RB_REMOVE returns

vars == <<tree, pc, elm, parent, ret>>

Sides == {"left", "right"}
Other(s) == IF s = "left" THEN "right" ELSE "left"

-----------------------------------------------------------------------------
(* The macros that write one field.  T is a tree, n a node, s a side.      *)

Flip(T, n, s) ==
    [T EXCEPT !.red[n] = IF s \in @ THEN @ \ {s} ELSE @ \cup {s}]

SetRed(T, n, S) == [T EXCEPT !.red[n] = S]

(* RB_SET_PARENT; src's address replaces dst's parent, not its red bits.   *)
SetParent(T, dst, src) == IF dst = NULL THEN T ELSE [T EXCEPT !.up[dst] = src]

SideOf(T, p, n) == IF T.kid[p]["left"] = n THEN "left" ELSE "right"

SwapChild(T, out, in) ==
    LET p == T.up[out]
    IN  IF p = NULL THEN [T EXCEPT !.root = in]
        ELSE [T EXCEPT !.kid[p][SideOf(T, p, out)] = in]

(* n sinks to side s: its child c on the other side rises in its place,    *)
(* and c's subtree on side s becomes n's.                                  *)
Rotate(T, n, s) ==
    LET c == T.kid[n][Other(s)]
        m == T.kid[c][s]
        T1 == SetParent([T EXCEPT !.kid[n][Other(s)] = m], m, n)
        T2 == SwapChild(SetParent(T1, c, T.up[n]), n, c)
    IN  SetParent([T2 EXCEPT !.kid[c][s] = n], n, c)

Nil == [s \in Sides |-> NULL]

-----------------------------------------------------------------------------
(* Searching.                                                              *)

(* Mutant: the arguments of tagcmp the wrong way round.                    *)
TowardSwapped(k, n) == IF n < k THEN "left" ELSE "right"

Toward(k, n) == IF k < n THEN "left" ELSE "right"

(* The last node on the way from the root to where k is or would be.       *)
Descend(T, k) ==
    LET last[n \in Keys] ==
            LET c == T.kid[n][Toward(k, n)]
            IN  IF n = k \/ c = NULL THEN n ELSE last[c]
    IN  IF T.root = NULL THEN NULL ELSE last[T.root]

RB_FIND(T, k) == IF Descend(T, k) = k THEN k ELSE NULL

RB_NFIND(T, k) ==
    LET least[n \in Keys \cup {NULL}] ==
            IF n \in {NULL, k} THEN n
            ELSE LET below == least[T.kid[n][Toward(k, n)]]
                 IN  IF below = NULL /\ k < n THEN n ELSE below
    IN  least[T.root]

(* The node farthest to side s below n.                                    *)
Extreme(T, n, s) ==
    LET last[m \in Keys] ==
            IF T.kid[m][s] = NULL THEN m ELSE last[T.kid[m][s]]
    IN  last[n]

RB_MINMAX(T, s) == IF T.root = NULL THEN NULL ELSE Extreme(T, T.root, s)

(* Mutant: the loop up the tree is left out.                               *)
NeighbourBelow(T, n, s) ==
    IF T.kid[n][s] # NULL THEN Extreme(T, T.kid[n][s], Other(s)) ELSE T.up[n]

(* RB_NEXT when s is "right", RB_PREV when it is "left": down from the     *)
(* child on that side, or up to the first ancestor n is not on side s of.  *)
Neighbour(T, n, s) ==
    LET above[m \in Keys] ==
            LET p == T.up[m]
            IN  IF p = NULL \/ SideOf(T, p, m) = Other(s) THEN p ELSE above[p]
    IN  IF T.kid[n][s] # NULL THEN Extreme(T, T.kid[n][s], Other(s))
        ELSE above[n]

-----------------------------------------------------------------------------
Return == pc' = "idle" /\ elm' = NULL /\ parent' = NULL

(* RB_INSERT, up to the rebalancing.                                       *)
Insert(k) ==
    LET p == Descend(tree, k)
        new == [tree EXCEPT !.kid[k] = Nil, !.up[k] = p, !.red[k] = {}]
    IN  /\ pc = "idle"
        /\ \/ /\ p = k
              /\ ret' = k
              /\ UNCHANGED <<tree, pc, elm, parent>>
           \/ /\ p # k
              /\ tree' = IF p = NULL THEN [new EXCEPT !.root = k]
                         ELSE [new EXCEPT !.kid[p][Toward(k, p)] = k]
              /\ pc' = "insert_color" /\ elm' = k
              /\ ret' = NULL
              /\ UNCHANGED parent

(* Mutant: the bits of the node that goes down on the far side stay.       *)
SettleHalf(T, p, n, c, s) == IF s \in T.red[c] THEN Flip(T, n, Other(s)) ELSE T

(* After the first of two rotations of an insertion.                       *)
Settle(T, p, n, c, s) ==
    IF s \in T.red[c] THEN Flip(T, n, Other(s))
    ELSE IF Other(s) \in T.red[c] THEN Flip(T, p, s)
    ELSE T

(* The subtree at p has become as tall as its other side allows: a single  *)
(* rotation, or a double one when elm's inner subtree is the tall one.     *)
InsertRotate(T, p, s) ==
    LET o == Other(s)
        c == T.kid[elm][o]
        double == o \notin T.red[elm]
        T1 == IF double
              THEN Settle(Rotate(Flip(T, elm, s), elm, s), p, elm, c, s)
              ELSE T
        top == IF double THEN c ELSE elm
    IN  SetRed(Rotate(T1, p, o), top, {})

(* One pass of RB_INSERT_COLOR: elm's rank has grown by one.               *)
InsertColor ==
    LET p == tree.up[elm]
        s == SideOf(tree, p, elm)
        flipped == Flip(tree, p, Other(s))
    IN  /\ pc = "insert_color"
        /\ \/ /\ p = NULL
              /\ Return /\ UNCHANGED tree
           \/ /\ p # NULL /\ s \in tree.red[p]
              /\ tree' = Flip(tree, p, s)
              /\ Return
           \/ /\ p # NULL /\ s \notin tree.red[p] /\ Other(s) \in flipped.red[p]
              /\ tree' = flipped
              /\ elm' = p /\ UNCHANGED <<pc, parent>>
           \/ /\ p # NULL /\ s \notin tree.red[p] /\ Other(s) \notin flipped.red[p]
              /\ tree' = InsertRotate(flipped, p, s)
              /\ Return
        /\ UNCHANGED ret

-----------------------------------------------------------------------------
(* RB_REMOVE, up to the rebalancing.                                       *)

(* The caller frees the node: its fields are gone.                         *)
Forget(T, n) ==
    [T EXCEPT !.kid[n] = Nil, !.up[n] = NULL, !.red[n] = {}]

(* Mutant: the test for a missing left child is left out.                  *)
LeftChild(n) == tree.kid[n]["left"]

OnlyChild(n) == tree.kid[n][IF tree.kid[n]["left"] = NULL THEN "right" ELSE "left"]

(* Mutant: the child keeps its old parent.                                 *)
BypassOrphan(n) ==
    [tree |-> SwapChild(tree, n, OnlyChild(n)), parent |-> tree.up[n], child |-> OnlyChild(n)]

(* n has at most one child, which takes its place.                         *)
Bypass(n) ==
    LET child == OnlyChild(n)
    IN  [tree |-> SetParent(SwapChild(tree, n, child), child, tree.up[n]),
         parent |-> tree.up[n], child |-> child]

(* n has two: the next node leaves its place and takes over n's fields.    *)
Replace(n) ==
    LET right == tree.kid[n]["right"]
        next == Extreme(tree, right, "left")
        child == tree.kid[next]["right"]
        p == IF next = right THEN next ELSE tree.up[next]
        T1 == IF next = right THEN [tree EXCEPT !.kid[n]["right"] = child]
              ELSE SetParent([tree EXCEPT !.kid[p]["left"] = child], right, next)
        T2 == SetParent(T1, tree.kid[n]["left"], next)
        T3 == [T2 EXCEPT !.kid[next] = T2.kid[n], !.up[next] = T2.up[n],
                         !.red[next] = T2.red[n]]
    IN  [tree |-> SetParent(SwapChild(T3, n, next), child, p),
         parent |-> p, child |-> child]

Remove(n) ==
    LET cut == IF NULL \in {tree.kid[n][s] : s \in Sides} THEN Bypass(n) ELSE Replace(n)
    IN  /\ pc = "idle"
        /\ RB_FIND(tree, n) = n
        /\ tree' = Forget(cut.tree, n)
        /\ ret' = n
        /\ IF cut.parent = NULL THEN Return
           ELSE pc' = "remove_leaf" /\ elm' = cut.child /\ parent' = cut.parent

(* Mutant: the loop's condition is left out.                               *)
RemoveGoOn(n) ==
    /\ elm' = n /\ parent' = tree.up[n]
    /\ pc' = "remove_color"

(* The rank of n has shrunk by one: go on above it, if there is anything.  *)
RemoveClimb(n) ==
    IF tree.up[n] = NULL THEN Return
    ELSE elm' = n /\ parent' = tree.up[n] /\ pc' = "remove_color"

(* A parent left without children is a leaf: both its bits go.             *)
RemoveLeaf ==
    /\ pc = "remove_leaf"
    /\ \/ /\ \A s \in Sides : tree.kid[parent][s] = elm
          /\ tree' = SetRed(tree, parent, {})
          /\ RemoveClimb(parent)
       \/ /\ \E s \in Sides : tree.kid[parent][s] # elm
          /\ pc' = "remove_color"
          /\ UNCHANGED <<tree, elm, parent>>
    /\ UNCHANGED ret

(* Side s of parent has become too short: one or two rotations.            *)
RemoveRotate(s) ==
    LET o == Other(s)
        sib == tree.kid[parent][o]
        c == tree.kid[sib][s]
        T == Flip(tree, sib, o)
        U == Rotate(Flip(T, parent, s), sib, o)
        U1 == IF o \in U.red[c] THEN Flip(U, sib, s) ELSE U
        U2 == IF s \in U.red[c] THEN Flip(U1, parent, o) ELSE U1
        before == IF s \in T.red[sib] THEN Flip(T, parent, s)
                  ELSE IF o \in T.red[sib] THEN T
                  ELSE SetRed(U2, c, Sides)
    IN  Rotate(before, parent, s)

(* One pass of RB_REMOVE_COLOR.                                            *)
RemoveColor ==
    LET s == SideOf(tree, parent, elm)
        o == Other(s)
        sib == tree.kid[parent][o]
    IN  /\ pc = "remove_color"
        /\ \/ /\ s \notin tree.red[parent]
              /\ tree' = Flip(tree, parent, s)
              /\ Return
           \/ /\ tree.red[parent] = Sides
              /\ tree' = Flip(tree, parent, o)
              /\ RemoveClimb(parent)
           \/ /\ tree.red[parent] = {s} /\ tree.red[sib] = Sides
              /\ tree' = SetRed(tree, sib, {})
              /\ RemoveClimb(parent)
           \/ /\ tree.red[parent] = {s} /\ tree.red[sib] # Sides
              /\ tree' = RemoveRotate(s)
              /\ Return
        /\ UNCHANGED ret

-----------------------------------------------------------------------------
Init ==
    /\ tree = [root |-> NULL, kid |-> [n \in Keys |-> Nil],
               up |-> [n \in Keys |-> NULL], red |-> [n \in Keys |-> {}]]
    /\ pc = "idle" /\ elm = NULL /\ parent = NULL /\ ret = NULL

Rebalance == InsertColor \/ RemoveLeaf \/ RemoveColor

Next == Rebalance \/ \E k \in Keys : Insert(k) \/ Remove(k)

Spec == Init /\ [][Next]_vars /\ WF_vars(Rebalance)

-----------------------------------------------------------------------------
(* The nodes linked below n.                                               *)
Below(T) ==
    LET all[n \in Keys \cup {NULL}] ==
            IF n = NULL THEN {}
            ELSE {n} \cup all[T.kid[n]["left"]] \cup all[T.kid[n]["right"]]
    IN  all

Linked == Below(tree)[tree.root]

(* Types; in particular a rebalancing loop always has a node to work on.   *)
TypeOK ==
    /\ tree \in [root : Keys \cup {NULL}, kid : [Keys -> [Sides -> Keys \cup {NULL}]],
                 up : [Keys -> Keys \cup {NULL}], red : [Keys -> SUBSET Sides]]
    /\ ret \in Keys \cup {NULL}
    /\ \/ pc = "idle" /\ elm = NULL /\ parent = NULL
       \/ pc = "insert_color" /\ elm \in Keys /\ parent = NULL
       \/ pc \in {"remove_leaf", "remove_color"} /\ elm \in Keys \cup {NULL} /\ parent \in Keys

(* At every step, the pointers down and up agree, and nothing but the      *)
(* nodes in the tree points into it.                                       *)
LinksMatch ==
    /\ tree.root # NULL => tree.up[tree.root] = NULL
    /\ \A n \in Linked : LET p == tree.up[n] IN
          IF p = NULL THEN n = tree.root
          ELSE p \in Linked /\ \E s \in Sides : tree.kid[p][s] = n
    /\ \A n \in Linked, s \in Sides :
          tree.kid[n][s] # NULL => tree.up[tree.kid[n][s]] = n

(* At every step, in the middle of a rebalancing too, the keys left of a   *)
(* node are smaller and those right of it larger.                          *)
SearchOrder ==
    \A n \in Linked :
        /\ \A m \in Below(tree)[tree.kid[n]["left"]] : m < n
        /\ \A m \in Below(tree)[tree.kid[n]["right"]] : n < m

(* Between calls the tree is balanced: every node has a rank, one above    *)
(* its child's along a plain edge and two above along a red one, where a   *)
(* missing child has rank -1; and no leaf has a red edge.  A path from the *)
(* root is thus at most twice as long as another.                          *)
RankRule ==
    LET rank[n \in Keys \cup {NULL}] ==
            IF n = NULL THEN -1
            ELSE rank[tree.kid[n]["left"]] + IF "left" \in tree.red[n] THEN 2 ELSE 1
    IN  pc = "idle" => \A n \in Linked :
            /\ rank[n] = rank[tree.kid[n]["right"]] + IF "right" \in tree.red[n] THEN 2 ELSE 1
            /\ tree.kid[n] = Nil => tree.red[n] = {}

(* Between calls every lookup finds what the set of keys says it must:     *)
(* RB_FIND, RB_NFIND, RB_MIN, RB_MAX, RB_NEXT and RB_PREV.                 *)
LookupsRight ==
    LET Least(S) == IF S = {} THEN NULL ELSE CHOOSE k \in S : \A m \in S : k <= m
        Greatest(S) == IF S = {} THEN NULL ELSE CHOOSE k \in S : \A m \in S : m <= k
    IN  pc = "idle" =>
        /\ RB_MINMAX(tree, "left") = Least(Linked)
        /\ RB_MINMAX(tree, "right") = Greatest(Linked)
        /\ \A k \in Keys :
              /\ RB_FIND(tree, k) = IF k \in Linked THEN k ELSE NULL
              /\ RB_NFIND(tree, k) = Least({m \in Linked : m >= k})
        /\ \A n \in Linked :
              /\ Neighbour(tree, n, "right") = Least({m \in Linked : m > n})
              /\ Neighbour(tree, n, "left") = Greatest({m \in Linked : m < n})

Set == INSTANCE KeySet WITH keys <- Linked, busy <- pc # "idle"

(* To its user the tree is a set: a call adds or takes out its key in one  *)
(* step, the rebalancing that follows changes nothing and ends.            *)
RefinesSet == Set!Spec

=============================================================================
