---------------------------- MODULE TagTreeProofs ----------------------------
(***************************************************************************)
(* Proofs about TagTree, for every number of threads, addresses, ids and   *)
(* calls.                                                                  *)
(***************************************************************************)
EXTENDS TagTree, NumberLemmas, TLAPS

(* The ids of the nodes in the tree have an upper bound.                   *)
IdsBounded == \E k \in Nat : \A n \in tree : tag_id[n] <= k

(* RB_MAX returns the node with the largest id.                            *)
LEMMA MaxOfTree ==
    ASSUME TypeOK, IdsBounded, tree # {}
    PROVE  /\ RB_MAX(tree, tag_id) \in tree
           /\ \A m \in tree : tag_id[m] <= tag_id[RB_MAX(tree, tag_id)]
<1> DEFINE Bounds == {k \in Nat : \A n \in tree : tag_id[n] <= k}
<1>1. PICK b \in Bounds : \A c \in Bounds : b <= c
  BY LeastOf DEF IdsBounded
<1>2. \A n \in tree : tag_id[n] \in Nat
  BY DEF TypeOK
<1>3. \E n \in tree : tag_id[n] = b
  <2> SUFFICES ASSUME \A n \in tree : tag_id[n] # b
               PROVE  FALSE
    OBVIOUS
  <2>1. b - 1 \in Bounds
    BY <1>1, <1>2
  <2>2. QED BY <1>1, <2>1
<1>4. \E n \in tree : \A m \in tree : tag_id[m] <= tag_id[n]
  BY <1>1, <1>3
<1>5. QED BY <1>4 DEF RB_MAX

(* In an empty tree the ids tag_tree_init hands out begin with the first   *)
(* after the metatag's.                                                    *)
LEMMA FirstAre == tree = {} => FirstIds = PredefinedIds
<1>1. ASSUME tree = {}
      PROVE  NextId = METATAG_ID + 1 /\ NextId + NInit - 1 = METATAG_ID + NInit
  BY <1>1, ConstantsAssumption DEF NextId, METATAG_ID
<1>2. QED BY <1>1 DEF FirstIds, PredefinedIds

(* tag_tree_node_create picks an id above every id in use.                 *)
LEMMA NextIdFresh ==
    ASSUME TypeOK, IdsBounded
    PROVE  /\ NextId \in Nat
           /\ NextId > METATAG_ID \/ tree # {}
           /\ \A m \in tree : tag_id[m] < NextId
<1>1. CASE tree = {}
  BY <1>1 DEF NextId, METATAG_ID
<1>2. CASE tree # {}
  <2>1. tag_id[RB_MAX(tree, tag_id)] \in Nat
    BY <1>2, MaxOfTree DEF TypeOK
  <2>2. \A m \in tree : tag_id[m] \in Nat
    BY DEF TypeOK
  <2>3. QED BY <1>2, <2>1, <2>2, MaxOfTree DEF NextId
<1>3. QED BY <1>1, <1>2

(* RB_FIND returns a node with the key, or NULL when there is none.        *)
LEMMA FindCorrect ==
    ASSUME NEW S \in SUBSET Nodes, NEW id, NEW i
    PROVE  \/ RB_FIND(S, id, i) \in S /\ id[RB_FIND(S, id, i)] = i
           \/ RB_FIND(S, id, i) = NULL /\ \A n \in S : id[n] # i
BY DEF RB_FIND

(* The steps whose types need no reasoning about the tree or its ids.     *)
PlainStep(t) == Step(t) /\ ~ \/ InitBody(t) \/ NodeCreate(t) \/ MetaCreate(t) \/ MetaFill(t)
                             \/ RemoveFind(t) \/ LookupFind(t) \/ MtxLock(t) \/ Access(t)

(* These steps keep every type.                                            *)
LEMMA PlainTypes ==
    ASSUME TypeOK, NEW t \in Threads, PlainStep(t)
    PROVE  TypeOK'
<1> USE DEF PlainStep, Step, InitRdlock, InitCheck, InitWrlock, InsertLock, MetaDrop,
        TagLock, TagUnlock, Finish, EarlyReturn, RemoveLock, RemoveMtx, RemoveUnlink,
        RemoveUnlock, RemoveDestroy, LookupLock, LookupUnlock, Started, SetCb, GetSize,
        MtxUnlock
<1>1. rw_writer' \in Threads \cup {NULL} /\ rw_readers' \subseteq Threads
  BY SMTT(60) DEF TypeOK, rwVars, RW_RDLOCK, RW_WRLOCK, RW_UNLOCK
<1>2. pc' \in [Threads -> PcLabels]
  <2>1. \E l \in PcLabels : pc' = [pc EXCEPT ![t] = l]
    BY SMTT(60) DEF TypeOK, PcLabels, Goto, Return, AfterInit
  <2>2. QED BY ONLY <2>1, TypeOK, t \in Threads DEF TypeOK
<1>3. /\ inited' \in BOOLEAN /\ tree' \subseteq Nodes /\ alloc' \subseteq Nodes
      /\ tag_id' = tag_id /\ listing' = listing /\ cb' \in [Nodes -> BOOLEAN]
  <2>1. tree' \subseteq tree /\ alloc' \subseteq alloc
    BY SMTT(60) DEF treeVars, nodeVars, NodeDestroy, RB_REMOVE
  <2>2. UNCHANGED <<inited, tag_id, listing>>
    BY SMTT(60) DEF treeVars, nodeVars, NodeDestroy
  <2>3. cb' = cb \/ cb' = [cb EXCEPT ![ptr[t]] = (op[t] = "register")]
    BY SMTT(60) DEF nodeVars, NodeDestroy
  <2>4. cb' \in [Nodes -> BOOLEAN]
    BY ONLY <2>3, TypeOK, Zenon DEF TypeOK
  <2>5. QED BY <2>1, <2>2, <2>4 DEF TypeOK
<1>4. tree_size' \in 0 .. SizeMod - 1
  BY SMTT(60), ConstantsAssumption DEF TypeOK, treeVars, Resize
<1>5. mtx' \in [Nodes -> Threads \cup {NULL}]
  BY SMTT(60) DEF TypeOK, NodeDestroy, MTX_LOCK, MTX_UNLOCK
<1>6. /\ op' = op /\ arg' = arg /\ ptr' \in [Threads -> Nodes \cup {NULL}]
      /\ old' \in [Threads -> Nodes \cup {NULL}]
  BY SMTT(60) DEF TypeOK, callVars, Return
<1>7. /\ seen' \in [Threads -> SUBSET {"started", "ended"}]
      /\ held' \in [Threads -> SUBSET Nat] /\ budget' = budget
  BY SMTT(60) DEF TypeOK, clientVars
<1>8. ret' \in [Threads -> Nat \cup Codes \cup Nodes \cup {NULL}]
  BY SMTT(60) DEF TypeOK
<1>9. QED BY <1>1, <1>2, <1>3, <1>4, <1>5, <1>6, <1>7, <1>8 DEF TypeOK

(* Every step keeps every type; the ids a creation hands out are numbers.  *)
LEMMA TypeStep ==
    ASSUME TypeOK, IdsBounded, NEW t \in Threads, Step(t)
    PROVE  TypeOK'
<1>1. CASE InitBody(t)
  <2>1. CASE inited /\ UNCHANGED <<treeVars, nodeVars, mtx>>
    BY <1>1, <2>1, ConstantsAssumption DEF TypeOK, PcLabels, InitBody, RW_UNLOCK, Goto,
      AfterInit, rwVars, treeVars, nodeVars, callVars, clientVars
  <2>2. CASE CreatePredefined
    <3>1. PICK f \in [FirstIds -> Nodes \ alloc] :
             LET made == {f[i] : i \in FirstIds}
             IN  /\ alloc' = alloc \cup made
                 /\ tree' = tree \cup made
                 /\ Resize(NInit)
                 /\ inited' = TRUE
                 /\ tag_id' = [n \in Nodes |-> IF n \in made
                                               THEN CHOOSE i \in FirstIds : f[i] = n
                                               ELSE tag_id[n]]
                 /\ mtx' = [n \in Nodes |-> IF n \in made THEN NULL ELSE mtx[n]]
                 /\ cb' = [n \in Nodes |-> IF n \in made THEN FALSE ELSE cb[n]]
                 /\ listing' = [n \in Nodes |-> IF n \in made THEN {} ELSE listing[n]]
      BY <2>2 DEF CreatePredefined
    <3> DEFINE made == {f[i] : i \in FirstIds}
    <3>2. made \subseteq Nodes
      BY <3>1
    <3>3. \A n \in made : (CHOOSE i \in FirstIds : f[i] = n) \in Nat
      BY NextIdFresh, ConstantsAssumption DEF FirstIds
    <3>4. tree_size' \in 0 .. SizeMod - 1
      BY <3>1, ConstantsAssumption DEF Resize, TypeOK
    <3>5. tag_id' \in [Nodes -> Nat]
      <4>1. tag_id' = [n \in Nodes |-> IF n \in made THEN CHOOSE i \in FirstIds : f[i] = n
                                       ELSE tag_id[n]]
        BY <3>1, Zenon
      <4>2. \A n \in Nodes : tag_id[n] \in Nat
        BY DEF TypeOK
      <4> HIDE DEF made
      <4>3. QED
        BY <3>3, <4>1, <4>2, Zenon
    <3>6. listing' \in [Nodes -> SUBSET Nat]
      BY <3>1 DEF TypeOK
    <3> HIDE DEF made
    <3>7. QED BY <1>1, <3>1, <3>2, <3>4, <3>5, <3>6, ConstantsAssumption
      DEF TypeOK, PcLabels, InitBody, RW_UNLOCK, Goto, AfterInit, callVars, clientVars, made
  <2>3. QED BY <1>1, <2>1, <2>2 DEF InitBody
<1>2. CASE NodeCreate(t)
  <2>1. PICK n \in Nodes \ alloc :
           /\ Malloc(n, NextId, {})
           /\ Invalidate(t, RB_INSERT(tree, tag_id', n), tag_id')
           /\ ptr' = [ptr EXCEPT ![t] = n]
    BY <1>2 DEF NodeCreate
  <2> DEFINE S == RB_INSERT(tree, tag_id', n)
             meta == RB_FIND(S, tag_id', METATAG_ID)
  <2>2. S \subseteq Nodes
    BY DEF TypeOK, RB_INSERT
  <2>3. meta \in Nodes \cup {NULL}
    BY <2>2, FindCorrect
  <2> HIDE DEF S
  <2>4. /\ tree' \subseteq Nodes
        /\ old' \in [Threads -> Nodes \cup {NULL}]
        /\ pc' \in [Threads -> PcLabels]
        /\ tree_size' \in 0 .. SizeMod - 1
    BY <2>1, <2>2, <2>3, ConstantsAssumption
       DEF TypeOK, Invalidate, Resize, RB_REMOVE, Goto, PcLabels, S
  <2>5. QED BY <1>2, <2>1, <2>4, NextIdFresh
        DEF TypeOK, NodeCreate, Malloc, rwVars, callVars, clientVars
<1>3. CASE MetaCreate(t)
  <2> DEFINE meta == RB_FIND(tree, tag_id, METATAG_ID)
  <2>1. meta \in Nodes \cup {NULL}
    BY FindCorrect DEF TypeOK
  <2> HIDE DEF meta
  <2>2. QED BY <1>3, <2>1, ConstantsAssumption DEF TypeOK, PcLabels, MetaCreate, RB_REMOVE,
      Resize, Goto, rwVars, nodeVars, callVars, clientVars, meta
<1>4. CASE MetaFill(t)
  BY <1>4 DEF TypeOK, PcLabels, MetaFill, LinkMetanode,
      Malloc, RB_INSERT, Goto, rwVars, callVars, clientVars, METATAG_ID
<1>5. CASE RemoveFind(t)
  <2>1. RB_FIND(tree, tag_id, arg[t]) \in Nodes \cup {NULL}
    BY FindCorrect DEF TypeOK
  <2>2. QED BY <1>5, <2>1 DEF TypeOK, PcLabels, RemoveFind, Goto, Codes,
      rwVars, treeVars, nodeVars, callVars, clientVars
<1>6. CASE LookupFind(t)
  <2>1. RB_FIND(tree, tag_id, arg[t]) \in Nodes \cup {NULL}
    BY FindCorrect DEF TypeOK
  <2>2. CASE UNCHANGED <<treeVars, nodeVars, mtx>>
    BY <1>6, <2>1, <2>2 DEF TypeOK, PcLabels, LookupFind, Goto, Codes,
      rwVars, treeVars, nodeVars, callVars, clientVars
  <2>3. CASE \E m \in Nodes \ alloc : LinkMetanode(m) /\ ptr' = [ptr EXCEPT ![t] = m]
                                      /\ UNCHANGED ret
    BY <1>6, <2>3 DEF TypeOK, PcLabels, LookupFind, LinkMetanode,
      Malloc, RB_INSERT, Goto, rwVars, callVars, clientVars, METATAG_ID
  <2>4. QED BY <1>6, <2>2, <2>3 DEF LookupFind
<1>7. CASE MtxLock(t)
  <2>1. mtx' \in [Nodes -> Threads \cup {NULL}]
    BY <1>7 DEF TypeOK, MtxLock, MTX_LOCK
  <2>2. CASE op[t] = "lock"
    BY <1>7, <2>1, <2>2 DEF TypeOK, PcLabels, MtxLock, Return, Goto,
      rwVars, treeVars, nodeVars, callVars
  <2>3. CASE op[t] # "lock"
    BY <1>7, <2>1, <2>3 DEF TypeOK, PcLabels, MtxLock, Goto,
      rwVars, treeVars, nodeVars, callVars
  <2>4. QED BY <2>2, <2>3
<1>8. CASE Access(t)
  BY <1>8 DEF TypeOK, PcLabels, Access, Goto, Codes, rwVars, treeVars, nodeVars, callVars,
      clientVars
<1>9. CASE PlainStep(t)
  BY <1>9, PlainTypes
<1>10. QED BY <1>1, <1>2, <1>3, <1>4, <1>5, <1>6, <1>7, <1>8, <1>9 DEF PlainStep

(* A step of one call moves no other call.                                 *)
LEMMA OthersStay ==
    ASSUME TypeOK, NEW t \in Threads, Step(t), NEW u \in Threads, u # t
    PROVE  /\ pc'[u] = pc[u] /\ op'[u] = op[u] /\ arg'[u] = arg[u]
           /\ ptr'[u] = ptr[u] /\ old'[u] = old[u]
           /\ seen'[u] = seen[u] /\ ret'[u] = ret[u] /\ held'[u] = held[u]
BY SMTT(60) DEF TypeOK, Step, InitRdlock, InitCheck, InitWrlock, InitBody, InsertLock,
  NodeCreate, MetaDrop, TagLock, TagUnlock, MetaCreate, MetaFill, Finish, EarlyReturn, RemoveLock,
  RemoveFind, RemoveMtx, RemoveUnlink, RemoveUnlock, RemoveDestroy, LookupLock,
  LookupFind, LookupUnlock, MtxLock, Started, Access, SetCb, GetSize, MtxUnlock, Invalidate,
  Goto, Return, callVars, clientVars

TreeSteps(t) ==
    \/ InitBody(t) \/ NodeCreate(t) \/ MetaDrop(t) \/ MetaCreate(t) \/ MetaFill(t)
    \/ RemoveUnlink(t) \/ RemoveDestroy(t) \/ LookupFind(t)

(* No other step touches the tree, its ids or the allocated nodes.         *)
LEMMA TreeUntouched ==
    ASSUME TypeOK, NEW t \in Threads, Step(t), ~ TreeSteps(t)
    PROVE  UNCHANGED <<inited, tree, alloc, tag_id, listing>>
BY SMTT(60) DEF Step, TreeSteps, InitRdlock, InitCheck, InitWrlock, InsertLock, 
  TagLock, TagUnlock, Finish, EarlyReturn, RemoveLock,
  RemoveFind, RemoveMtx, RemoveUnlock, LookupLock,
  LookupUnlock, MtxLock, Started, Access, SetCb, GetSize, MtxUnlock,
  treeVars, nodeVars

(* A step of a call leaves tag_tree_mtx alone, takes it or releases it,    *)
(* and what the call then holds is what its new position says.             *)
LEMMA LockSteps ==
    ASSUME TypeOK, NEW t \in Threads, Step(t)
    PROVE  \/ /\ UNCHANGED rwVars
              /\ HoldsWrite(t)' <=> HoldsWrite(t)
              /\ HoldsRead(t)' <=> HoldsRead(t)
           \/ /\ RW_RDLOCK(t)
              /\ ~ HoldsWrite(t) /\ ~ HoldsRead(t) /\ ~ HoldsWrite(t)' /\ HoldsRead(t)'
           \/ /\ RW_WRLOCK(t)
              /\ ~ HoldsWrite(t) /\ ~ HoldsRead(t) /\ HoldsWrite(t)' /\ ~ HoldsRead(t)'
           \/ /\ RW_UNLOCK(t)
              /\ HoldsWrite(t) \/ HoldsRead(t)
              /\ ~ HoldsWrite(t)' /\ ~ HoldsRead(t)'
BY SMTT(120) DEF TypeOK, Step, InitRdlock, InitCheck, InitWrlock, InitBody, InsertLock,
  NodeCreate, MetaDrop, TagLock, TagUnlock, MetaCreate, MetaFill, Finish, EarlyReturn, RemoveLock,
  RemoveFind, RemoveMtx, RemoveUnlink, RemoveUnlock, RemoveDestroy, LookupLock,
  LookupFind, LookupUnlock, MtxLock, Started, Access, SetCb, GetSize, MtxUnlock, Invalidate,
  Goto, Return, callVars, AfterInit, HoldsWrite, HoldsRead

(* The rwlock is never held for writing and for reading at once.           *)
RwExclusive == rw_writer # NULL => rw_readers = {}

RwInv == RwBalanced /\ RwExclusive

(* So what a position says of the lock stays true.                         *)
LEMMA RwStep ==
    ASSUME TypeOK, RwInv, NEW t \in Threads, Step(t)
    PROVE  RwInv'
<1>1. ASSUME NEW u \in Threads, u # t
      PROVE  (HoldsWrite(u)' <=> HoldsWrite(u)) /\ (HoldsRead(u)' <=> HoldsRead(u))
  BY <1>1, OthersStay DEF HoldsWrite, HoldsRead
<1>2. NULL \notin Threads
  BY ConstantsAssumption
<1>3. CASE /\ UNCHANGED rwVars
           /\ HoldsWrite(t)' <=> HoldsWrite(t)
           /\ HoldsRead(t)' <=> HoldsRead(t)
  BY <1>1, <1>3 DEF RwInv, RwBalanced, RwExclusive, rwVars
<1>4. CASE RW_RDLOCK(t) /\ ~ HoldsWrite(t)' /\ HoldsRead(t)'
  BY <1>1, <1>2, <1>4 DEF RwInv, RwBalanced, RwExclusive, RW_RDLOCK
<1>5. CASE RW_WRLOCK(t) /\ HoldsWrite(t)' /\ ~ HoldsRead(t)'
  BY <1>1, <1>2, <1>5 DEF RwInv, RwBalanced, RwExclusive, RW_WRLOCK
<1>6. CASE RW_UNLOCK(t) /\ (HoldsWrite(t) \/ HoldsRead(t))
           /\ ~ HoldsWrite(t)' /\ ~ HoldsRead(t)'
  BY <1>1, <1>2, <1>6 DEF RwInv, RwBalanced, RwExclusive, RW_UNLOCK
<1>7. QED BY <1>3, <1>4, <1>5, <1>6, LockSteps

(* Under the write lock a thread is alone: no other is under the lock.     *)
LEMMA WriterAlone ==
    ASSUME RwInv, NEW t \in Threads, HoldsWrite(t), NEW u \in Threads, u # t
    PROVE  ~ HoldsWrite(u) /\ ~ HoldsRead(u)
BY ConstantsAssumption DEF RwInv, RwBalanced, RwExclusive

(* What the tree's steps rely on besides the properties themselves.        *)
Early == {"idle", "init_rdlock", "init_check", "init_wrlock", "init_body", "early_return"}

Ready == ~ inited => tree = {} /\ \A t \in Threads : pc[t] \in Early

Pending == \A t \in Threads :
    /\ pc[t] = "node_create" => op[t] = "create"
    /\ pc[t] \in {"remove_mtx", "remove_unlink"} => ptr[t] \in tree
    /\ pc[t] = "meta_fill" \/ (pc[t] = "meta_drop" /\ op[t] # "create")
       => \A n \in tree : tag_id[n] # METATAG_ID

(* No two tags of the tree have one id, as a search tree needs.            *)
IdsUnique == \A m, n \in tree : tag_id[m] = tag_id[n] => m = n

TreeInv == Ready /\ Pending /\ IdsUnique /\ NodesAccounted /\ MetaListsAll

(* NodesAccounted, address by address.                                     *)
LEMMA Accounted ==
    NodesAccounted <=>
      /\ \A n : (n \in alloc) <=> (n \in tree \/ \E t \in Threads : n \in Dying(t))
      /\ \A t \in Threads, n \in tree : n \notin Dying(t)
      /\ \A t, u \in Threads : t # u => \A n \in Dying(t) : n \notin Dying(u)
BY SMTT(30) DEF NodesAccounted

(* The same of the next state.                                             *)
LEMMA AccountedNext ==
    NodesAccounted' <=>
      /\ \A n : (n \in alloc') <=> (n \in tree' \/ \E t \in Threads : n \in Dying(t)')
      /\ \A t \in Threads, n \in tree' : n \notin Dying(t)'
      /\ \A t, u \in Threads : t # u => \A n \in Dying(t)' : n \notin Dying(u)'
BY SMTT(30) DEF NodesAccounted

(* A step changes no other thread's dying node.                            *)
LEMMA DyingOthers ==
    ASSUME TypeOK, NEW t \in Threads, Step(t), NEW u \in Threads, u # t
    PROVE  Dying(u)' = Dying(u)
BY OthersStay DEF Dying

(* A step that leaves the tree alone leaves the dying nodes alone too.     *)
LEMMA DyingUntouched ==
    ASSUME TypeOK, NEW t \in Threads, Step(t), ~ TreeSteps(t)
    PROVE  Dying(t)' = Dying(t)
<1> DEFINE D == {"remove_unlock", "remove_destroy", "meta_drop"}
<1>1. CASE RemoveUnlock(t)
  BY <1>1 DEF TypeOK, RemoveUnlock, Goto, Dying
<1>2. CASE ~ RemoveUnlock(t)
  <2>1. pc[t] \notin D /\ pc'[t] \notin D
    BY <1>2, SMTT(60) DEF TypeOK, Step, TreeSteps, InitRdlock, InitCheck, InitWrlock,
      InsertLock, TagLock, TagUnlock, Finish, EarlyReturn, RemoveLock,
      RemoveFind, RemoveMtx, LookupLock, LookupUnlock, MtxLock, Started, Access, SetCb,
      GetSize, MtxUnlock, Goto, Return, callVars, AfterInit
  <2>2. QED BY <2>1 DEF Dying
<1>3. QED BY <1>1, <1>2

(* Once the tree is initialised it stays so; before, no call is past it.   *)
LEMMA ReadyStep ==
    ASSUME TypeOK, TreeInv, NEW t \in Threads, Step(t)
    PROVE  Ready'
<1>1. CASE inited
  <2>1. inited'
    <3>1. CASE TreeSteps(t)
      BY <1>1, <3>1 DEF TreeSteps, InitBody, NodeCreate, MetaDrop, MetaCreate, MetaFill,
        LinkMetanode, RemoveUnlink, RemoveDestroy, LookupFind, treeVars
    <3>2. CASE ~ TreeSteps(t)
      BY <1>1, <3>2, TreeUntouched
    <3>3. QED BY <3>1, <3>2
  <2>2. QED BY <2>1 DEF Ready
<1>2. CASE ~ inited
  <2>1. pc[t] \in Early
    BY <1>2 DEF TreeInv, Ready
  <2>2. CASE InitBody(t)
    BY <1>2, <2>2 DEF InitBody, CreatePredefined, Ready
  <2>3. CASE ~ InitBody(t)
    <3>1. pc'[t] \in Early /\ UNCHANGED <<tree, inited>>
      BY <1>2, <2>1, <2>3, SMTT(60) DEF TypeOK, Step, InitRdlock, InitCheck, InitWrlock,
      InsertLock, NodeCreate, MetaDrop, TagLock, TagUnlock, MetaCreate, MetaFill, Finish,
      EarlyReturn, RemoveLock, RemoveFind, RemoveMtx, RemoveUnlink, RemoveUnlock, RemoveDestroy,
      LookupLock, LookupFind, LookupUnlock, MtxLock, Started, Access, SetCb, GetSize, MtxUnlock,
      treeVars, Early, Goto, Return
    <3>2. QED BY <1>2, <3>1, OthersStay DEF TreeInv, Ready
  <2>4. QED BY <2>2, <2>3
<1>3. QED BY <1>1, <1>2

(* A step that only removes nodes from the tree keeps ids unique and the   *)
(* metatag complete.                                                       *)
LEMMA ShrinkKeeps ==
    ASSUME TreeInv, tree' \subseteq tree,
           \A n \in tree : tag_id'[n] = tag_id[n] /\ listing'[n] = listing[n]
    PROVE  IdsUnique' /\ MetaListsAll'
BY DEF TreeInv, IdsUnique, MetaListsAll

(* Unlinking a node of the tree makes it its thread's to free.             *)
LEMMA UnlinkKeeps ==
    ASSUME TypeOK, TreeInv, NEW t \in Threads, Step(t), NEW n \in tree,
           tree' = tree \ {n}, UNCHANGED alloc, Dying(t) = {}, Dying(t)' = {n}
    PROVE  NodesAccounted'
BY Accounted, AccountedNext, DyingOthers, SMTT(30) DEF TreeInv

(* Freeing it ends that.                                                   *)
LEMMA FreeKeeps ==
    ASSUME TypeOK, TreeInv, NEW t \in Threads, Step(t), NEW n,
           UNCHANGED tree, alloc' = alloc \ {n}, Dying(t) = {n}, Dying(t)' = {}
    PROVE  NodesAccounted'
BY Accounted, AccountedNext, DyingOthers, SMTT(30) DEF TreeInv

(* A node fresh from malloc enters the tree.                               *)
LEMMA LinkKeeps ==
    ASSUME TypeOK, TreeInv, NEW t \in Threads, Step(t), NEW n \in Nodes \ alloc,
           tree' = tree \cup {n}, alloc' = alloc \cup {n}, Dying(t) = {}, Dying(t)' = {}
    PROVE  NodesAccounted'
BY Accounted, AccountedNext, DyingOthers, SMTT(30) DEF TreeInv

(* A step that leaves the nodes alone keeps everything about them.         *)
LEMMA UntouchedKeeps ==
    ASSUME TypeOK, TreeInv, NEW t \in Threads, Step(t),
           UNCHANGED <<tree, alloc, tag_id, listing>>, Dying(t)' = Dying(t)
    PROVE  IdsUnique' /\ NodesAccounted' /\ MetaListsAll'
<1>1. NodesAccounted'
  BY Accounted, AccountedNext, DyingOthers, SMTT(30) DEF TreeInv
<1>2. QED BY <1>1, ShrinkKeeps

(* InitBody: the tree is empty when the predefined tags are made.          *)
LEMMA InitBodyKeeps ==
    ASSUME TypeOK, TreeInv, NEW t \in Threads, InitBody(t)
    PROVE  IdsUnique' /\ NodesAccounted' /\ MetaListsAll'
<1>1. Step(t)
  BY DEF Step
<1>2. Dying(t) = {} /\ Dying(t)' = {}
  BY SMTT(30) DEF TypeOK, InitBody, Goto, AfterInit, Dying
<1>3. CASE inited /\ UNCHANGED <<treeVars, nodeVars, mtx>>
  BY <1>1, <1>2, <1>3, UntouchedKeeps DEF treeVars, nodeVars
<1>4. CASE ~ inited /\ CreatePredefined
  <2>1. PICK f \in [FirstIds -> Nodes \ alloc] :
           LET made == {f[i] : i \in FirstIds}
           IN  /\ \A i, j \in FirstIds : f[i] = f[j] => i = j
               /\ alloc' = alloc \cup made
               /\ tree' = tree \cup made
               /\ tag_id' = [n \in Nodes |-> IF n \in made
                                             THEN CHOOSE i \in FirstIds : f[i] = n
                                             ELSE tag_id[n]]
    BY <1>4, Zenon DEF CreatePredefined
  <2> DEFINE made == {f[i] : i \in FirstIds}
  <2>2. tree = {} /\ \A u \in Threads : Dying(u) = {}
    BY <1>4, SMTT(30) DEF TreeInv, Ready, Early, Dying
  <2>3. tree' = made /\ alloc' = made
    BY <2>1, <2>2 DEF TreeInv, NodesAccounted
  <2>4. \A u \in Threads : Dying(u)' = {}
    BY <1>1, <1>2, <2>2, DyingOthers
  <2>5. \A i \in FirstIds : tag_id'[f[i]] = i
    BY <2>1
  <2>6. IdsUnique'
    BY <2>3, <2>5 DEF IdsUnique
  <2>7. MetaListsAll'
    <3>1. METATAG_ID \notin FirstIds
      BY <2>2, FirstAre, ConstantsAssumption DEF METATAG_ID, PredefinedIds
    <3>2. \A n \in tree' : tag_id'[n] # METATAG_ID
      BY <2>3, <2>5, <3>1
    <3>3. QED BY <3>2 DEF MetaListsAll
  <2>8. NodesAccounted'
    BY <2>3, <2>4 DEF NodesAccounted
  <2>9. QED BY <2>6, <2>7, <2>8
<1>5. QED BY <1>3, <1>4 DEF InitBody

(* NodeCreate: the new tag has a fresh id, and it leaves no metatag.       *)
LEMMA NodeCreateKeeps ==
    ASSUME TypeOK, IdsBounded, TreeInv, NEW t \in Threads, NodeCreate(t)
    PROVE  IdsUnique' /\ NodesAccounted' /\ MetaListsAll'
<1>1. Step(t)
  BY DEF Step
<1>2. PICK n \in Nodes \ alloc :
         /\ Malloc(n, NextId, {})
         /\ Invalidate(t, RB_INSERT(tree, tag_id', n), tag_id')
         /\ ptr' = [ptr EXCEPT ![t] = n]
  BY DEF NodeCreate
<1> DEFINE S == tree \cup {n}
           meta == RB_FIND(S, tag_id', METATAG_ID)
<1>3. tree \subseteq alloc /\ n \notin tree /\ S \subseteq Nodes
  BY Accounted DEF TreeInv, TypeOK
<1>4. tag_id'[n] = NextId /\ \A m \in tree : tag_id'[m] = tag_id[m]
  BY <1>2, <1>3 DEF Malloc, TypeOK
<1>5. \A m \in tree : tag_id[m] \in Nat /\ tag_id[m] < NextId
  BY NextIdFresh DEF TypeOK
<1>6. RB_INSERT(tree, tag_id', n) = S
  BY <1>4, <1>5, NextIdFresh DEF RB_INSERT
<1>7. \A k, m \in S : tag_id'[k] = tag_id'[m] => k = m
  BY <1>4, <1>5, NextIdFresh DEF TreeInv, IdsUnique
<1>8. pc[t] = "node_create" /\ op[t] = "create"
  BY DEF NodeCreate, TreeInv, Pending
<1>9. /\ tree' = S \ {meta}
      /\ alloc' = alloc \cup {n}
      /\ Dying(t) = {}
      /\ Dying(t)' = IF meta = NULL THEN {} ELSE {meta}
  <2>1. Invalidate(t, S, tag_id') /\ alloc' = alloc \cup {n}
    BY <1>2, <1>6 DEF Malloc
  <2>2. /\ tree' = S \ {meta}
        /\ pc'[t] = IF meta = NULL THEN "tag_lock" ELSE "meta_drop"
        /\ old'[t] = meta
    <3> HIDE DEF S
    <3>1. QED BY <2>1 DEF Invalidate, RB_REMOVE, Goto, TypeOK
  <2> HIDE DEF meta
  <2>3. QED BY <1>8, <2>1, <2>2 DEF Dying
<1>10. \/ meta \in S /\ tag_id'[meta] = METATAG_ID
       \/ meta = NULL /\ \A m \in S : tag_id'[m] # METATAG_ID
  BY <1>3, FindCorrect
<1> HIDE DEF meta
<1>11. IdsUnique'
  BY <1>7, <1>9 DEF IdsUnique
<1>12. \A m \in tree' : tag_id'[m] # METATAG_ID
  BY <1>7, <1>9, <1>10
<1>13. MetaListsAll'
  BY <1>12 DEF MetaListsAll
<1>14. NodesAccounted'
  <2>1. CASE meta = NULL
    <3>1. tree' = S
      BY <1>3, <1>9, <2>1, ConstantsAssumption
    <3>2. QED BY <1>1, <1>9, <2>1, <3>1, LinkKeeps
  <2>2. CASE meta # NULL
    <3>1. meta \in S /\ Dying(t)' = {meta}
      BY <1>9, <1>10, <2>2
    <3>2. QED BY <1>1, <1>3, <1>9, <3>1, Accounted, AccountedNext, DyingOthers, SMTT(30)
          DEF TreeInv
  <2>3. QED BY <2>1, <2>2
<1>15. QED BY <1>11, <1>13, <1>14

(* MetaCreate: the old metatag, if any, leaves the tree.                   *)
LEMMA MetaCreateKeeps ==
    ASSUME TypeOK, TreeInv, NEW t \in Threads, MetaCreate(t)
    PROVE  IdsUnique' /\ NodesAccounted' /\ MetaListsAll'
<1> DEFINE meta == RB_FIND(tree, tag_id, METATAG_ID)
<1>1. Step(t)
  BY DEF Step
<1>2. meta \in tree \/ meta = NULL
  BY FindCorrect DEF TypeOK
<1>3. CASE meta = NULL
  <2>1. Dying(t) = {} /\ Dying(t)' = {} /\ UNCHANGED <<tree, alloc, tag_id, listing>>
    BY <1>3, SMTT(30) DEF TypeOK, MetaCreate, Goto, Dying, nodeVars
  <2>2. QED BY <1>1, <2>1, UntouchedKeeps
<1>4. CASE meta # NULL
  <2> HIDE DEF meta
  <2>1. /\ Dying(t) = {} /\ Dying(t)' = {meta}
        /\ tree' = tree \ {meta} /\ UNCHANGED <<alloc, tag_id, listing>>
    BY <1>4, SMTT(30) DEF TypeOK, MetaCreate, RB_REMOVE, Goto, Dying, nodeVars, meta
  <2>2. QED BY <1>1, <1>2, <1>4, <2>1, UnlinkKeeps, ShrinkKeeps
<1>5. QED BY <1>3, <1>4

(* LinkMetanode: the new metatag is the only one and lists what is there.  *)
LEMMA LinkMetanodeKeeps ==
    ASSUME TypeOK, TreeInv, NEW t \in Threads, Step(t), NEW n \in Nodes \ alloc,
           LinkMetanode(n), \A m \in tree : tag_id[m] # METATAG_ID,
           Dying(t) = {}, Dying(t)' = {}
    PROVE  IdsUnique' /\ NodesAccounted' /\ MetaListsAll'
<1>1. tree \subseteq alloc /\ n \notin tree
  BY Accounted DEF TreeInv
<1>2. /\ tag_id'[n] = METATAG_ID /\ \A m \in tree : tag_id'[m] = tag_id[m]
      /\ listing'[n] = {tag_id[m] : m \in tree}
  BY <1>1 DEF LinkMetanode, Malloc, TypeOK
<1>3. tree' = tree \cup {n} /\ alloc' = alloc \cup {n}
  BY <1>2 DEF LinkMetanode, Malloc, RB_INSERT
<1>4. IdsUnique'
  BY <1>2, <1>3 DEF TreeInv, IdsUnique
<1>5. MetaListsAll'
  BY <1>2, <1>3 DEF TreeInv, MetaListsAll
<1>6. NodesAccounted'
  BY <1>3, LinkKeeps
<1>7. QED BY <1>4, <1>5, <1>6

(* MetaFill: its call has unlinked the old metatag under the same lock.    *)
LEMMA MetaFillKeeps ==
    ASSUME TypeOK, TreeInv, NEW t \in Threads, MetaFill(t)
    PROVE  IdsUnique' /\ NodesAccounted' /\ MetaListsAll'
<1>1. PICK n \in Nodes \ alloc : LinkMetanode(n)
  BY DEF MetaFill
<1>2. \A m \in tree : tag_id[m] # METATAG_ID
  BY DEF MetaFill, TreeInv, Pending
<1>3. Dying(t) = {} /\ Dying(t)' = {}
  BY SMTT(30) DEF TypeOK, MetaFill, Goto, Dying
<1>4. QED BY <1>1, <1>2, <1>3, LinkMetanodeKeeps DEF Step

(* LookupFind: a metatag is made only when there is none.                  *)
LEMMA LookupFindKeeps ==
    ASSUME TypeOK, TreeInv, NEW t \in Threads, LookupFind(t)
    PROVE  IdsUnique' /\ NodesAccounted' /\ MetaListsAll'
<1> DEFINE n == RB_FIND(tree, tag_id, arg[t])
<1>1. Step(t)
  BY DEF Step
<1>2. Dying(t) = {} /\ Dying(t)' = {}
  BY SMTT(30) DEF TypeOK, LookupFind, Goto, Dying
<1>3. CASE UNCHANGED <<treeVars, nodeVars, mtx>>
  BY <1>1, <1>2, <1>3, UntouchedKeeps DEF treeVars, nodeVars
<1>4. CASE n = NULL /\ arg[t] = METATAG_ID /\ \E m \in Nodes \ alloc : LinkMetanode(m)
  <2>1. \A m \in tree : tag_id[m] # METATAG_ID
    BY <1>4, FindCorrect, ConstantsAssumption DEF TypeOK
  <2>2. QED BY <1>1, <1>2, <1>4, <2>1, LinkMetanodeKeeps
<1>5. QED BY <1>3, <1>4 DEF LookupFind

(* The steps that free a node, and the one that unlinks a destroyed tag.   *)
LEMMA MetaDropKeeps ==
    ASSUME TypeOK, TreeInv, NEW t \in Threads, MetaDrop(t)
    PROVE  IdsUnique' /\ NodesAccounted' /\ MetaListsAll'
<1>1. /\ UNCHANGED <<tree, tag_id, listing>> /\ alloc' = alloc \ {old[t]}
      /\ Dying(t) = {old[t]} /\ Dying(t)' = {}
  BY SMTT(30) DEF TypeOK, MetaDrop, NodeDestroy, Goto, Dying, treeVars
<1>2. QED BY <1>1, FreeKeeps, ShrinkKeeps DEF Step

(* RemoveUnlink: the node the call found is still in the tree.             *)
LEMMA RemoveUnlinkKeeps ==
    ASSUME TypeOK, TreeInv, NEW t \in Threads, RemoveUnlink(t)
    PROVE  IdsUnique' /\ NodesAccounted' /\ MetaListsAll'
<1>1. ptr[t] \in tree
  BY DEF RemoveUnlink, TreeInv, Pending
<1>2. /\ UNCHANGED <<alloc, tag_id, listing>> /\ tree' = tree \ {ptr[t]}
      /\ Dying(t) = {} /\ Dying(t)' = {ptr[t]}
  BY SMTT(30) DEF TypeOK, RemoveUnlink, RB_REMOVE, Goto, Dying, nodeVars
<1>3. QED BY <1>1, <1>2, UnlinkKeeps, ShrinkKeeps DEF Step

(* RemoveDestroy: the call frees the node it unlinked.                     *)
LEMMA RemoveDestroyKeeps ==
    ASSUME TypeOK, TreeInv, NEW t \in Threads, RemoveDestroy(t)
    PROVE  IdsUnique' /\ NodesAccounted' /\ MetaListsAll'
<1>1. /\ UNCHANGED <<tree, tag_id, listing>> /\ alloc' = alloc \ {ptr[t]}
      /\ Dying(t) = {ptr[t]} /\ Dying(t)' = {}
  BY SMTT(30) DEF TypeOK, RemoveDestroy, NodeDestroy, Return, Goto, Dying, treeVars
<1>2. QED BY <1>1, FreeKeeps, ShrinkKeeps DEF Step

(* Only a thread that holds the write lock changes the tree's nodes.       *)
LEMMA OnlyWriters ==
    ASSUME TypeOK, NEW t \in Threads, Step(t)
    PROVE  HoldsWrite(t) \/ UNCHANGED <<inited, tree, tag_id>>
<1>1. CASE TreeSteps(t)
  BY <1>1, SMTT(30) DEF TreeSteps, InitBody, NodeCreate, MetaDrop, MetaCreate, MetaFill,
     RemoveUnlink, RemoveDestroy, LookupFind, NodeDestroy, HoldsWrite, treeVars, nodeVars
<1>2. CASE ~ TreeSteps(t)
  BY <1>2, TreeUntouched
<1>3. QED BY <1>1, <1>2

(* What a call holding the write lock has found stays true until it acts.  *)
LEMMA PendingStep ==
    ASSUME TypeOK, IdsBounded, RwInv, TreeInv, NEW t \in Threads, Step(t)
    PROVE  Pending'
<1> DEFINE P(u) == /\ pc[u] = "node_create" => op[u] = "create"
                   /\ pc[u] \in {"remove_mtx", "remove_unlink"} => ptr[u] \in tree
                   /\ pc[u] = "meta_fill" \/ (pc[u] = "meta_drop" /\ op[u] # "create")
                      => \A n \in tree : tag_id[n] # METATAG_ID
<1>1. ASSUME NEW u \in Threads, u # t
      PROVE  P(u)'
  <2>1. P(u)
    BY DEF TreeInv, Pending
  <2>2. pc'[u] = pc[u] /\ op'[u] = op[u] /\ ptr'[u] = ptr[u]
    BY <1>1, OthersStay
  <2>3. CASE HoldsWrite(u)
    <3>1. UNCHANGED <<tree, tag_id>>
      BY <1>1, <2>3, WriterAlone, OnlyWriters
    <3>2. QED BY <2>1, <2>2, <3>1
  <2>4. CASE ~ HoldsWrite(u)
    BY <2>1, <2>2, <2>4 DEF HoldsWrite
  <2>5. QED BY <2>3, <2>4
<1>2. P(t)'
  <2>1. P(t)
    BY DEF TreeInv, Pending
  <2>2. CASE InsertLock(t)
    BY <2>2, SMTT(30) DEF InsertLock, Goto, TypeOK, callVars
  <2>3. CASE NodeCreate(t)
    <3>1. op'[t] = "create" /\ pc'[t] \in {"tag_lock", "meta_drop"}
      BY <2>1, <2>3, SMTT(30) DEF NodeCreate, Invalidate, Goto, TypeOK, callVars
    <3>2. QED BY <3>1
  <2>4. CASE MetaCreate(t)
    <3> DEFINE meta == RB_FIND(tree, tag_id, METATAG_ID)
    <3>1. \/ meta \in tree /\ tag_id[meta] = METATAG_ID
          \/ meta = NULL /\ \A n \in tree : tag_id[n] # METATAG_ID
      BY FindCorrect DEF TypeOK
    <3> HIDE DEF meta
    <3>2. tree' = (IF meta = NULL THEN tree ELSE tree \ {meta}) /\ tag_id' = tag_id
      BY <2>4 DEF MetaCreate, RB_REMOVE, nodeVars, meta
    <3>3. \A n \in tree' : tag_id'[n] # METATAG_ID
      BY <3>1, <3>2, ConstantsAssumption DEF TreeInv, IdsUnique, TypeOK
    <3>4. pc'[t] \in {"meta_fill", "meta_drop"}
      BY <2>4, SMTT(30) DEF MetaCreate, Goto, TypeOK
    <3>5. QED BY <3>3, <3>4
  <2>5. CASE MetaDrop(t)
    BY <2>1, <2>5, SMTT(30) DEF MetaDrop, NodeDestroy, Goto, TypeOK, treeVars, callVars
  <2>6. CASE RemoveFind(t)
    <3>1. RB_FIND(tree, tag_id, arg[t]) \in tree \cup {NULL}
      BY FindCorrect DEF TypeOK
    <3>2. QED BY <2>6, <3>1, SMTT(30) DEF RemoveFind, Goto, TypeOK, treeVars
  <2>7. CASE RemoveMtx(t)
    BY <2>1, <2>7, SMTT(30) DEF RemoveMtx, Goto, TypeOK, treeVars
  <2>8. CASE ~ \/ InsertLock(t) \/ NodeCreate(t) \/ MetaCreate(t) \/ MetaDrop(t)
               \/ RemoveFind(t) \/ RemoveMtx(t)
    <3>1. pc'[t] \notin {"node_create", "remove_mtx", "remove_unlink", "meta_fill", "meta_drop"}
      BY <2>8, SMTT(60) DEF TypeOK, Step, InitRdlock, InitCheck, InitWrlock, InitBody,
        TagLock, TagUnlock, MetaFill, Finish, EarlyReturn, RemoveLock, RemoveUnlink,
        RemoveUnlock, RemoveDestroy, LookupLock, LookupFind, LookupUnlock, MtxLock, Started,
        Access, SetCb, GetSize, MtxUnlock, Goto, Return, AfterInit
    <3>2. QED BY <3>1
  <2>9. QED BY <2>2, <2>3, <2>4, <2>5, <2>6, <2>7, <2>8
<1>3. QED BY <1>1, <1>2 DEF Pending

(* Every step keeps the invariants of the tree.                            *)
LEMMA TreeStep ==
    ASSUME TypeOK, IdsBounded, RwInv, TreeInv, NEW t \in Threads, Step(t)
    PROVE  TreeInv'
<1>1. IdsUnique' /\ NodesAccounted' /\ MetaListsAll'
  <2>1. CASE TreeSteps(t)
    BY <2>1, InitBodyKeeps, NodeCreateKeeps, MetaDropKeeps, MetaCreateKeeps, MetaFillKeeps,
       RemoveUnlinkKeeps, RemoveDestroyKeeps, LookupFindKeeps DEF TreeSteps
  <2>2. CASE ~ TreeSteps(t)
    BY <2>2, TreeUntouched, DyingUntouched, UntouchedKeeps
  <2>3. QED BY <2>1, <2>2
<1>2. QED BY <1>1, ReadyStep, PendingStep DEF TreeInv

(* A step makes no id that is not a number above a known bound.            *)
LEMMA BoundedStep ==
    ASSUME TypeOK, IdsBounded, NEW t \in Threads, Step(t)
    PROVE  IdsBounded'
<1>1. PICK k \in Nat : \A n \in tree : tag_id[n] <= k
  BY DEF IdsBounded
<1>2. CASE tree' \subseteq tree /\ UNCHANGED tag_id
  BY <1>1, <1>2 DEF IdsBounded
<1>3. ASSUME NEW n \in Nodes, NEW i \in Nat, tree' \subseteq tree \cup {n},
             tag_id' = [tag_id EXCEPT ![n] = i]
      PROVE  IdsBounded'
  <2> DEFINE b == IF i <= k THEN k ELSE i
  <2>1. b \in Nat /\ \A m \in tree' : tag_id'[m] <= b
    BY <1>1, <1>3 DEF TypeOK
  <2>2. QED BY <2>1 DEF IdsBounded
<1>4. CASE CreatePredefined
  <2>1. PICK f \in [FirstIds -> Nodes \ alloc] :
           LET made == {f[i] : i \in FirstIds}
           IN  /\ tree' = tree \cup made
               /\ tag_id' = [n \in Nodes |-> IF n \in made
                                             THEN CHOOSE i \in FirstIds : f[i] = n
                                             ELSE tag_id[n]]
    BY <1>4, Zenon DEF CreatePredefined
  <2> DEFINE made == {f[i] : i \in FirstIds}
             b == k + NextId + NInit
  <2>2. b \in Nat /\ k <= b /\ NextId \in Nat /\ NextId + NInit <= b
    BY <1>1, NextIdFresh, ConstantsAssumption
  <2>3. \A m \in made : tag_id'[m] \in FirstIds
    BY <2>1
  <2>4. \A m \in tree \ made : tag_id'[m] = tag_id[m]
    BY <2>1 DEF TypeOK
  <2>5. \A m \in tree' : tag_id'[m] <= b
    <3>1. \A m \in made : tag_id'[m] <= b
      BY <2>2, <2>3, ConstantsAssumption DEF FirstIds
    <3>2. \A m \in tree \ made : tag_id'[m] <= b
      BY <1>1, <2>2, <2>4 DEF TypeOK
    <3>3. QED BY <2>1, <3>1, <3>2
  <2>6. QED BY <2>2, <2>5 DEF IdsBounded
<1>5. CASE TreeSteps(t)
  <2>1. CASE NodeCreate(t)
    <3>1. PICK n \in Nodes \ alloc : Malloc(n, NextId, {})
                                     /\ Invalidate(t, RB_INSERT(tree, tag_id', n), tag_id')
      BY <2>1 DEF NodeCreate
    <3>2. tree' \subseteq tree \cup {n}
      BY <3>1 DEF Invalidate, RB_INSERT, RB_REMOVE
    <3>3. QED BY <1>3, <3>1, <3>2, NextIdFresh DEF Malloc
  <2>2. CASE \E n \in Nodes \ alloc : LinkMetanode(n)
    <3>1. PICK n \in Nodes \ alloc : LinkMetanode(n)
      BY <2>2
    <3>2. METATAG_ID \in Nat
      BY DEF METATAG_ID
    <3>3. QED BY <1>3, <3>1, <3>2 DEF LinkMetanode, Malloc, RB_INSERT
  <2>3. CASE ~ CreatePredefined /\ ~ NodeCreate(t) /\ ~ \E n \in Nodes \ alloc : LinkMetanode(n)
    BY <1>2, <1>5, <2>3, SMTT(30) DEF TreeSteps, InitBody, MetaDrop, MetaCreate, MetaFill,
       RemoveUnlink, RemoveDestroy, LookupFind, NodeDestroy, RB_REMOVE, treeVars, nodeVars
  <2>4. QED BY <1>4, <2>1, <2>2, <2>3
<1>6. CASE ~ TreeSteps(t)
  BY <1>2, <1>6, TreeUntouched
<1>7. QED BY <1>5, <1>6

(* The inductive invariant.                                                *)
IInv == TypeOK /\ IdsBounded /\ RwInv /\ TreeInv

(* The invariant holds of the unused library.                              *)
LEMMA InitIInv == Init => IInv
<1> SUFFICES ASSUME Init PROVE IInv
  OBVIOUS
<1>1. TypeOK
  <2>1. [t \in Threads |-> "status"] \in [Threads -> AllOps]
    BY DEF AllOps, LookupOps
  <2>2. 0 \in 0 .. SizeMod - 1
    BY ConstantsAssumption
  <2>3. QED BY <2>1, <2>2, ConstantsAssumption DEF Init, TypeOK, PcLabels, Codes
<1>2. IdsBounded
  BY DEF Init, IdsBounded
<1>3. RwInv
  BY ConstantsAssumption DEF Init, RwInv, RwBalanced, RwExclusive, HoldsWrite, HoldsRead
<1>4. NodesAccounted
  <2>1. \A t \in Threads : Dying(t) = {}
    BY DEF Init, Dying
  <2>2. QED BY <2>1 DEF Init, NodesAccounted
<1>5. Ready /\ Pending /\ IdsUnique /\ MetaListsAll
  BY DEF Init, Ready, Early, Pending, IdsUnique, MetaListsAll
<1>6. QED BY <1>1, <1>2, <1>3, <1>4, <1>5 DEF IInv, TreeInv

(* A client's call changes nothing the library has.                        *)
LEMMA StartKeeps ==
    ASSUME IInv, NEW t \in Threads, NEW r \in Requests, Start(t, r[1], r[2])
    PROVE  IInv'
<1>1. r[1] \in AllOps /\ r[2] \in Nat
  <2>1. r[1] \in Ops /\ r[2] \in Ids \cup {0}
    BY DEF Requests
  <2>2. Ops \subseteq AllOps /\ Ids \subseteq Nat
    BY ConstantsAssumption
  <2>3. Ids \cup {0} \subseteq Nat
    BY <2>2
  <2>4. QED BY <2>1, <2>2, <2>3, Zenon
<1>2. UNCHANGED <<rwVars, treeVars, nodeVars, mtx, ptr, old, held>>
  BY DEF Start
<1>3. pc[t] = "idle" /\ pc'[t] \in {"early_return", "init_rdlock"}
      /\ \A u \in Threads : u # t => pc'[u] = pc[u] /\ op'[u] = op[u] /\ arg'[u] = arg[u]
  BY DEF IInv, TypeOK, Start, Goto
<1>4. TypeOK'
  <2>1. /\ pc' \in [Threads -> PcLabels]
        /\ ret' \in [Threads -> Nat \cup Codes \cup Nodes \cup {NULL}]
    BY DEF IInv, TypeOK, Start, Goto, PcLabels, Codes
  <2>2. budget' \in [Threads -> Nat]
    BY DEF IInv, TypeOK, Start
  <2>3. op' \in [Threads -> AllOps] /\ arg' \in [Threads -> Nat]
        /\ seen' \in [Threads -> SUBSET {"started", "ended"}]
    BY <1>1 DEF IInv, TypeOK, Start
  <2>4. QED BY <1>2, <2>1, <2>2, <2>3 DEF IInv, TypeOK, rwVars, treeVars, nodeVars
<1>5. IdsBounded'
  BY <1>2 DEF IInv, IdsBounded, treeVars, nodeVars
<1>6. RwInv'
  BY <1>2, <1>3 DEF IInv, RwInv, RwBalanced, RwExclusive, HoldsWrite, HoldsRead, rwVars
<1>7. NodesAccounted'
  <2>1. \A u \in Threads : Dying(u)' = Dying(u)
    BY <1>2, <1>3 DEF Dying
  <2>2. QED BY <1>2, <2>1 DEF IInv, TreeInv, NodesAccounted, treeVars, nodeVars
<1>8. Ready' /\ Pending'
  BY <1>2, <1>3 DEF IInv, TreeInv, Ready, Pending, Early, treeVars, nodeVars
<1>9. IdsUnique' /\ MetaListsAll'
  BY <1>2 DEF IInv, TreeInv, IdsUnique, MetaListsAll, treeVars, nodeVars
<1>10. QED BY <1>4, <1>5, <1>6, <1>7, <1>8, <1>9 DEF IInv, TreeInv

(* Every step preserves the invariant, ...                                 *)
LEMMA IStep ==
    ASSUME IInv, [Next]_vars
    PROVE  IInv'
<1>1. ASSUME NEW t \in Threads, Step(t)
      PROVE  IInv'
  BY <1>1, TypeStep, BoundedStep, RwStep, TreeStep DEF IInv
<1>2. ASSUME NEW t \in Threads, NEW r \in Requests, Start(t, r[1], r[2])
      PROVE  IInv'
  BY <1>2, StartKeeps
<1>3. CASE UNCHANGED vars
  <2> USE <1>3 DEF IInv, vars, rwVars, treeVars, nodeVars, callVars, clientVars
  <2>1. TypeOK' /\ IdsBounded'
    BY DEF TypeOK, IdsBounded
  <2>2. RwInv'
    BY DEF RwInv, RwBalanced, RwExclusive, HoldsWrite, HoldsRead
  <2>3. NodesAccounted'
    BY DEF TreeInv, NodesAccounted, Dying
  <2>4. Ready' /\ Pending' /\ IdsUnique' /\ MetaListsAll'
    BY DEF TreeInv, Ready, Pending, IdsUnique, MetaListsAll
  <2>5. QED BY <2>1, <2>2, <2>3, <2>4 DEF TreeInv
<1>4. QED BY <1>1, <1>2, <1>3 DEF Next

(* ... so it is inductive.                                                 *)
THEOREM Inductive == Spec => []IInv
BY InitIInv, IStep, PTL DEF Spec

(* Every variable keeps its type, whatever the clients call.               *)
THEOREM TypeCorrect == Spec => []TypeOK
<1>1. IInv => TypeOK
  BY DEF IInv
<1>2. QED BY <1>1, Inductive, PTL

(* The lock discipline of tag_tree_mtx.                                    *)
THEOREM LockDiscipline == Spec => []RwBalanced
<1>1. IInv => RwBalanced
  BY DEF IInv, RwInv
<1>2. QED BY <1>1, Inductive, PTL

(* No node leaks, dangles in the tree, or is freed twice.                  *)
THEOREM NoLeakNoDoubleFree == Spec => []NodesAccounted
<1>1. IInv => NodesAccounted
  BY DEF IInv, TreeInv
<1>2. QED BY <1>1, Inductive, PTL

(* A metatag in the tree lists every other tag.                            *)
THEOREM MetatagComplete == Spec => []MetaListsAll
<1>1. IInv => MetaListsAll
  BY DEF IInv, TreeInv
<1>2. QED BY <1>1, Inductive, PTL

(* A careful client's behaviours are behaviours of Spec, so all of the     *)
(* above holds for it too.                                                 *)
THEOREM CarefulIsSpec == CarefulSpec => Spec
<1>1. [CarefulNext]_vars => [Next]_vars
  BY DEF CarefulNext, CarefulStart, Next
<1>2. QED BY <1>1, PTL DEF CarefulSpec, Spec

(* Every step of a call changes the call's position.                       *)
LEMMA StepMoves ==
    ASSUME TypeOK, NEW t \in Threads, Step(t)
    PROVE  pc'[t] # pc[t]
BY SMTT(60) DEF TypeOK, Step, InitRdlock, InitCheck, InitWrlock, InitBody, InsertLock,
  NodeCreate, MetaDrop, TagLock, TagUnlock, MetaCreate, MetaFill, Finish, EarlyReturn,
  RemoveLock, RemoveFind, RemoveMtx, RemoveUnlink, RemoveUnlock, RemoveDestroy, LookupLock,
  LookupFind, LookupUnlock, MtxLock, Started, Access, SetCb, GetSize, MtxUnlock, Invalidate,
  Goto, Return, AfterInit

(* The tree stands still under every thread that holds tag_tree_mtx and is *)
(* not itself moving: only the lock's writer changes it, and a writer is   *)
(* alone.                                                                  *)
THEOREM TreeStable == Spec => TreeStableUnderLock
<1>1. ASSUME IInv, [Next]_vars
      PROVE  [\A t \in Threads : (HoldsRead(t) \/ HoldsWrite(t)) /\ pc'[t] = pc[t]
                                 => UNCHANGED <<tree, inited>>]_vars
  <2> SUFFICES ASSUME Next, NEW t \in Threads, HoldsRead(t) \/ HoldsWrite(t), pc'[t] = pc[t]
               PROVE  UNCHANGED <<tree, inited>>
    BY <1>1
  <2>1. ASSUME NEW u \in Threads, Step(u)
        PROVE  UNCHANGED <<tree, inited>>
    <3>1. u # t
      BY <1>1, <2>1, StepMoves DEF IInv
    <3>2. ~ HoldsWrite(u)
      BY <1>1, <3>1, WriterAlone DEF IInv
    <3>3. QED BY <1>1, <2>1, <3>2, OnlyWriters DEF IInv
  <2>2. ASSUME NEW u \in Threads, NEW r \in Requests, Start(u, r[1], r[2])
        PROVE  UNCHANGED <<tree, inited>>
    BY <2>2 DEF Start, treeVars
  <2>3. QED BY <2>1, <2>2 DEF Next
<1>2. QED BY <1>1, Inductive, PTL DEF Spec, TreeStableUnderLock

-----------------------------------------------------------------------------
(* The second part: TagTree implements TagRegistry, for every number of    *)
(* threads, addresses, ids and calls.                                      *)

(* The stretches of code that only one kind of call reaches.               *)
CreateLabels == {"insert_lock", "node_create", "meta_drop", "tag_lock", "tag_unlock",
                 "meta_create", "meta_fill"}
RemoveLabels == {"remove_lock", "remove_find", "remove_mtx", "remove_unlink",
                 "remove_unlock", "remove_destroy"}
UseLabels    == {"mtx_lock", "started", "access", "set_cb", "size", "mtx_unlock"}
LookupLabels == {"lookup_lock", "lookup_find", "lookup_unlock"} \cup UseLabels

(* What a call that has come this far is ...                               *)
OpInv(t) ==
    /\ pc[t] \in CreateLabels => op[t] \in CreateOps
    /\ pc[t] = "node_create" => op[t] = "create"
    /\ pc[t] \in {"meta_create", "meta_fill"} => op[t] = "create_meta"
    /\ pc[t] \in RemoveLabels => op[t] = "destroy"
    /\ pc[t] \in LookupLabels => op[t] \in LookupOps
    /\ pc[t] = "mtx_lock" => op[t] \in MtxOps
    /\ pc[t] = "mtx_unlock" => op[t] \in MtxOps \cup {"unlock"}
    /\ pc[t] \in {"started", "access"} => op[t] \in EventOps
    /\ pc[t] = "set_cb" => op[t] \in CbOps
    /\ pc[t] = "size" => op[t] = "get_size"
    /\ op[t] = "destroy" /\ pc[t] \notin {"idle", "early_return"} => arg[t] # METATAG_ID

(* ... and the result and the node it has found.                           *)
ResultInv(t) ==
    /\ pc[t] = "early_return" =>
          \/ op[t] = "destroy" /\ arg[t] = METATAG_ID /\ ret[t] = PLCTAG_STATUS_OK
          \/ op[t] \in {"read", "write", "create"} /\ ret[t] = PLCTAG_ERR_BAD_PARAM
    /\ Phase(t) = "called" /\ pc[t] # "early_return" => ret[t] = PLCTAG_STATUS_OK
    /\ pc[t] \in UseLabels => ptr[t] # NULL
    /\ pc[t] \in UseLabels \ {"mtx_unlock"} => ret[t] = PLCTAG_STATUS_OK
    /\ pc[t] = "lookup_unlock" =>
          ret[t] = IF ptr[t] = NULL THEN PLCTAG_ERR_NOT_FOUND ELSE PLCTAG_STATUS_OK
    /\ pc[t] \in {"remove_mtx", "remove_unlink"} => tag_id[ptr[t]] = arg[t]

CallInv == \A t \in Threads : OpInv(t) /\ ResultInv(t)

(* No tag has an id below the metatag's.                                   *)
IdsAbove == \A n \in tree : tag_id[n] >= METATAG_ID

RInv == IInv /\ CallInv /\ IdsAbove

-----------------------------------------------------------------------------
(* Each step takes a call to the next stretch of its own kind of call.     *)
LEMMA OpStep ==
    ASSUME TypeOK, NEW t \in Threads, OpInv(t), Step(t)
    PROVE  OpInv(t)'
<1> USE DEF TypeOK, OpInv, CreateLabels, RemoveLabels, LookupLabels, UseLabels, AllOps,
        LookupOps, MtxOps, EventOps, DataOps, CbOps, CreateOps, Goto, Return, callVars
<1>1. op'[t] = op[t] /\ arg'[t] = arg[t]
  BY SMTT(60) DEF Step, InitRdlock, InitCheck, InitWrlock, InitBody, InsertLock,
  NodeCreate, MetaDrop, TagLock, TagUnlock, MetaCreate, MetaFill, Finish, EarlyReturn, RemoveLock,
  RemoveFind, RemoveMtx, RemoveUnlink, RemoveUnlock, RemoveDestroy, LookupLock,
  LookupFind, LookupUnlock, MtxLock, Started, Access, SetCb, GetSize, MtxUnlock
<1>2. CASE InitRdlock(t) \/ InitCheck(t) \/ InitWrlock(t) \/ InitBody(t)
  BY <1>1, <1>2, SMTT(60) DEF InitRdlock, InitCheck, InitWrlock, InitBody, AfterInit
<1>3. CASE InsertLock(t) \/ NodeCreate(t) \/ MetaDrop(t) \/ TagLock(t) \/ TagUnlock(t)
           \/ MetaCreate(t) \/ MetaFill(t) \/ Finish(t) \/ EarlyReturn(t)
  BY <1>1, <1>3, SMTT(60) DEF InsertLock, NodeCreate, Invalidate, MetaDrop, TagLock, TagUnlock,
     MetaCreate, MetaFill, Finish, EarlyReturn
<1>4. CASE RemoveLock(t) \/ RemoveFind(t) \/ RemoveMtx(t) \/ RemoveUnlink(t)
           \/ RemoveUnlock(t) \/ RemoveDestroy(t)
  BY <1>1, <1>4, SMTT(60) DEF RemoveLock, RemoveFind, RemoveMtx, RemoveUnlink, RemoveUnlock,
     RemoveDestroy
<1>5. CASE LookupLock(t) \/ LookupFind(t) \/ LookupUnlock(t)
  BY <1>1, <1>5, SMTT(60) DEF LookupLock, LookupFind, LookupUnlock
<1>6. CASE MtxLock(t) \/ Started(t) \/ Access(t) \/ SetCb(t) \/ GetSize(t) \/ MtxUnlock(t)
  BY <1>1, <1>6, SMTT(60) DEF MtxLock, Started, Access, SetCb, GetSize, MtxUnlock
<1>7. QED BY <1>2, <1>3, <1>4, <1>5, <1>6 DEF Step

(* Each step keeps what the call knows of its result.                      *)
LEMMA ResultStep ==
    ASSUME TypeOK, NEW t \in Threads, OpInv(t), ResultInv(t), Step(t)
    PROVE  ResultInv(t)'
<1> USE DEF TypeOK, OpInv, ResultInv, UseLabels, Phase, Acted, Goto, Return, callVars
<1>1. CASE InitRdlock(t) \/ InitCheck(t) \/ InitWrlock(t) \/ InitBody(t)
  BY <1>1, SMTT(60) DEF InitRdlock, InitCheck, InitWrlock, InitBody, AfterInit
<1>2. CASE InsertLock(t) \/ NodeCreate(t) \/ MetaDrop(t) \/ TagLock(t) \/ TagUnlock(t)
           \/ MetaCreate(t) \/ MetaFill(t) \/ Finish(t) \/ EarlyReturn(t)
  BY <1>2, SMTT(60) DEF InsertLock, NodeCreate, Invalidate, MetaDrop, TagLock, TagUnlock,
     MetaCreate, MetaFill, Finish, EarlyReturn
<1>3. CASE RemoveFind(t)
  <2> DEFINE n == RB_FIND(tree, tag_id, arg[t])
  <2>1. n = NULL \/ (n \in Nodes /\ tag_id[n] = arg[t])
    BY FindCorrect
  <2> HIDE DEF n
  <2>2. /\ ptr' = [ptr EXCEPT ![t] = n]
        /\ pc' = [pc EXCEPT ![t] = IF n = NULL THEN "finish" ELSE "remove_mtx"]
        /\ ret' = [ret EXCEPT ![t] = IF n = NULL THEN PLCTAG_ERR_NOT_FOUND ELSE @]
        /\ tag_id' = tag_id /\ op' = op /\ arg' = arg
    BY <1>3 DEF RemoveFind, nodeVars, n
  <2>3. QED BY <1>3, <2>1, <2>2, SMTT(60) DEF RemoveFind
<1>4. CASE RemoveLock(t) \/ RemoveMtx(t) \/ RemoveUnlink(t) \/ RemoveUnlock(t) \/ RemoveDestroy(t)
  BY <1>4, SMTT(60) DEF RemoveLock, RemoveMtx, RemoveUnlink, RemoveUnlock, RemoveDestroy,
     nodeVars
<1>5. CASE LookupFind(t)
  <2>1. pc'[t] = "lookup_unlock"
    BY <1>5 DEF LookupFind
  <2>2. ret'[t] = IF ptr'[t] = NULL THEN PLCTAG_ERR_NOT_FOUND ELSE PLCTAG_STATUS_OK
    BY <1>5, ConstantsAssumption, SMTT(60) DEF LookupFind
  <2>3. QED BY <2>1, <2>2
<1>6. CASE LookupLock(t) \/ LookupUnlock(t)
  BY <1>6, SMTT(60) DEF LookupLock, LookupUnlock
<1>7. CASE MtxLock(t) \/ Started(t) \/ Access(t) \/ SetCb(t) \/ GetSize(t) \/ MtxUnlock(t)
  BY <1>7, SMTT(60) DEF MtxLock, Started, Access, SetCb, GetSize, MtxUnlock
<1>8. QED BY <1>1, <1>2, <1>3, <1>4, <1>5, <1>6, <1>7 DEF Step

(* A step keeps what every call knows, the call it moves and the others.   *)
LEMMA CallStep ==
    ASSUME TypeOK, RwInv, CallInv, NEW t \in Threads, Step(t)
    PROVE  CallInv'
<1>1. OpInv(t)' /\ ResultInv(t)'
  BY OpStep, ResultStep DEF CallInv
<1>2. ASSUME NEW u \in Threads, u # t
      PROVE  OpInv(u)' /\ ResultInv(u)'
  <2>1. OpInv(u) /\ ResultInv(u)
    BY DEF CallInv
  <2>2. /\ pc'[u] = pc[u] /\ op'[u] = op[u] /\ arg'[u] = arg[u]
        /\ ptr'[u] = ptr[u] /\ ret'[u] = ret[u]
    BY <1>2, OthersStay
  <2>3. pc[u] \in {"remove_mtx", "remove_unlink"} => tag_id' = tag_id
    BY <1>2, WriterAlone, OnlyWriters DEF HoldsWrite
  <2>4. OpInv(u)'
    BY <2>1, <2>2 DEF OpInv
  <2>5. ResultInv(u)'
    BY <2>1, <2>2, <2>3 DEF ResultInv, Phase, Acted
  <2>6. QED BY <2>4, <2>5
<1>3. QED BY <1>1, <1>2 DEF CallInv

-----------------------------------------------------------------------------
(* What each step that changes the tree does to the nodes and their ids.   *)

(* tag_tree_init's second half: nothing, or all of the predefined tags.    *)
LEMMA InitBodyEffect ==
    ASSUME TypeOK, TreeInv, NEW t \in Threads, InitBody(t)
    PROVE  \/ inited /\ UNCHANGED <<inited, tree, tag_id, alloc, mtx, cb>>
           \/ /\ ~ inited /\ inited' /\ tree = {}
              /\ {tag_id'[n] : n \in tree'} = PredefinedIds
<1>1. CASE inited /\ UNCHANGED <<treeVars, nodeVars, mtx>>
  BY <1>1 DEF treeVars, nodeVars
<1>2. CASE ~ inited /\ CreatePredefined
  <2>1. PICK f \in [FirstIds -> Nodes \ alloc] :
           LET made == {f[i] : i \in FirstIds}
           IN  /\ \A i, j \in FirstIds : f[i] = f[j] => i = j
               /\ inited' = TRUE
               /\ tree' = tree \cup made
               /\ tag_id' = [n \in Nodes |-> IF n \in made
                                             THEN CHOOSE i \in FirstIds : f[i] = n
                                             ELSE tag_id[n]]
    BY <1>2, Zenon DEF CreatePredefined
  <2>2. tree = {}
    BY <1>2 DEF TreeInv, Ready
  <2>3. \A i \in FirstIds : tag_id'[f[i]] = i
    BY <2>1
  <2>4. tree' = {f[i] : i \in FirstIds} /\ inited'
    BY <2>1, <2>2
  <2>5. {tag_id'[n] : n \in tree'} = FirstIds
    BY <2>3, <2>4
  <2>6. QED BY <1>2, <2>2, <2>4, <2>5, FirstAre
<1>3. QED BY <1>1, <1>2 DEF InitBody

(* A creation adds a tag whose id is one above the largest, and removes    *)
(* the metatag if there is one.                                            *)
LEMMA NodeCreateEffect ==
    ASSUME TypeOK, IdsBounded, TreeInv, IdsAbove, NEW t \in Threads, NodeCreate(t)
    PROVE  /\ NextId \in Nat /\ NextId > METATAG_ID
           /\ \A m \in tree : tag_id[m] < NextId
           /\ \/ NextId = METATAG_ID + 1
              \/ \E m \in tree : NextId = tag_id[m] + 1
           /\ inited' = inited
           /\ \E n \in Nodes \ alloc :
                 /\ n \notin tree /\ ptr'[t] = n
                 /\ tag_id' = [tag_id EXCEPT ![n] = NextId]
                 /\ mtx' = [mtx EXCEPT ![n] = NULL]
                 /\ cb' = [cb EXCEPT ![n] = FALSE]
                 /\ tree' = {m \in tree : tag_id[m] # METATAG_ID} \cup {n}
<1>1. PICK n \in Nodes \ alloc :
         /\ Malloc(n, NextId, {})
         /\ Invalidate(t, RB_INSERT(tree, tag_id', n), tag_id')
         /\ ptr' = [ptr EXCEPT ![t] = n]
  BY DEF NodeCreate
<1>2. \A m \in tree : tag_id[m] \in Nat /\ tag_id[m] < NextId
  BY NextIdFresh DEF TypeOK
<1>3. NextId \in Nat /\ NextId > METATAG_ID
  BY <1>2, NextIdFresh DEF IdsAbove, METATAG_ID
<1>4. NextId = METATAG_ID + 1 \/ \E m \in tree : NextId = tag_id[m] + 1
  BY MaxOfTree DEF NextId
<1>5. n \notin tree /\ tree \subseteq Nodes
  BY Accounted DEF TreeInv, TypeOK
<1> DEFINE S == tree \cup {n}
           meta == RB_FIND(S, tag_id', METATAG_ID)
<1>6. tag_id' = [tag_id EXCEPT ![n] = NextId]
  BY <1>1 DEF Malloc
<1>7. RB_INSERT(tree, tag_id', n) = S
  BY <1>2, <1>3, <1>5, <1>6 DEF RB_INSERT, TypeOK
<1>8. \/ meta \in S /\ tag_id'[meta] = METATAG_ID
      \/ meta = NULL /\ \A m \in S : tag_id'[m] # METATAG_ID
  BY <1>5, FindCorrect
<1>9. tree' = S \ {meta}
  BY <1>1, <1>7 DEF Invalidate, RB_REMOVE
<1>10. meta # n
  BY <1>3, <1>6, <1>8, ConstantsAssumption DEF TypeOK, METATAG_ID
<1> HIDE DEF meta
<1>11. tree' = {m \in tree : tag_id[m] # METATAG_ID} \cup {n}
  <2>1. \A m \in tree : tag_id'[m] = tag_id[m]
    BY <1>5, <1>6 DEF TypeOK
  <2>2. NULL \notin tree
    BY <1>5, ConstantsAssumption
  <2>3. \A m \in tree : m = meta <=> tag_id[m] = METATAG_ID
    BY <1>8, <1>10, <2>1, <2>2 DEF TreeInv, IdsUnique
  <2>4. QED BY <1>5, <1>9, <1>10, <2>3
<1>12. QED BY <1>1, <1>2, <1>3, <1>4, <1>5, <1>11 DEF Malloc, TypeOK, NodeCreate

(* A creation of "@tags" removes the old metatag.                          *)
LEMMA MetaCreateEffect ==
    ASSUME TypeOK, TreeInv, NEW t \in Threads, MetaCreate(t)
    PROVE  /\ tree' = {m \in tree : tag_id[m] # METATAG_ID}
           /\ UNCHANGED <<inited, tag_id, alloc, mtx, cb>>
<1> DEFINE meta == RB_FIND(tree, tag_id, METATAG_ID)
<1>1. \/ meta \in tree /\ tag_id[meta] = METATAG_ID
      \/ meta = NULL /\ \A n \in tree : tag_id[n] # METATAG_ID
  BY FindCorrect DEF TypeOK
<1>2. NULL \notin tree
  BY ConstantsAssumption DEF TypeOK
<1> HIDE DEF meta
<1>3. \A m \in tree : m = meta <=> tag_id[m] = METATAG_ID
  BY <1>1, <1>2 DEF TreeInv, IdsUnique
<1>4. tree' = IF meta = NULL THEN tree ELSE tree \ {meta}
  BY DEF MetaCreate, RB_REMOVE, meta
<1>5. QED BY <1>2, <1>3, <1>4 DEF MetaCreate, nodeVars

(* Linking a metatag where there is none adds just that node.              *)
LEMMA LinkMetanodeEffect ==
    ASSUME TypeOK, TreeInv, NEW n \in Nodes \ alloc, LinkMetanode(n),
           \A m \in tree : tag_id[m] # METATAG_ID
    PROVE  /\ n \notin tree
           /\ tree' = tree \cup {n}
           /\ tag_id' = [tag_id EXCEPT ![n] = METATAG_ID]
           /\ mtx' = [mtx EXCEPT ![n] = NULL]
           /\ cb' = [cb EXCEPT ![n] = FALSE]
           /\ inited' = inited
<1>1. n \notin tree
  BY Accounted DEF TreeInv
<1>2. tag_id'[n] = METATAG_ID /\ \A m \in tree : tag_id'[m] = tag_id[m]
  BY <1>1 DEF LinkMetanode, Malloc, TypeOK
<1>3. QED BY <1>1, <1>2 DEF LinkMetanode, Malloc, RB_INSERT

(* A metatag is linked by a creation of "@tags", and by a lookup of it     *)
(* that finds none; any other lookup changes nothing.                      *)
LEMMA MetaFillEffect ==
    ASSUME TypeOK, TreeInv, NEW t \in Threads, MetaFill(t)
    PROVE  \E n \in Nodes \ alloc :
              LinkMetanode(n) /\ \A m \in tree : tag_id[m] # METATAG_ID
BY DEF MetaFill, TreeInv, Pending

(* A search of the tree finds the id, fails, or builds the metatag.        *)
LEMMA LookupFindEffect ==
    ASSUME TypeOK, TreeInv, NEW t \in Threads, LookupFind(t)
    PROVE  \/ /\ UNCHANGED <<inited, tree, tag_id, alloc, mtx, cb>>
              /\ \/ ptr'[t] \in tree /\ tag_id[ptr'[t]] = arg[t] /\ ret' = ret
                 \/ /\ ptr'[t] = NULL /\ arg[t] # METATAG_ID
                    /\ \A m \in tree : tag_id[m] # arg[t]
                    /\ ret' = [ret EXCEPT ![t] = PLCTAG_ERR_NOT_FOUND]
           \/ /\ arg[t] = METATAG_ID /\ ret' = ret
              /\ \A m \in tree : tag_id[m] # METATAG_ID
              /\ ptr'[t] \in Nodes \ alloc /\ LinkMetanode(ptr'[t])
<1> DEFINE n == RB_FIND(tree, tag_id, arg[t])
<1>1. \/ n \in tree /\ tag_id[n] = arg[t]
      \/ n = NULL /\ \A m \in tree : tag_id[m] # arg[t]
  BY FindCorrect DEF TypeOK
<1>2. NULL \notin tree
  BY ConstantsAssumption DEF TypeOK
<1> HIDE DEF n
<1>3. CASE /\ n # NULL \/ arg[t] # METATAG_ID
           /\ ptr' = [ptr EXCEPT ![t] = n]
           /\ ret' = [ret EXCEPT ![t] = IF n = NULL THEN PLCTAG_ERR_NOT_FOUND ELSE @]
           /\ UNCHANGED <<treeVars, nodeVars, mtx>>
  <2>1. UNCHANGED <<inited, tree, tag_id, alloc, mtx, cb>> /\ ptr'[t] = n
    BY <1>3 DEF treeVars, nodeVars, TypeOK
  <2>2. CASE n # NULL
    <3>1. ret' = ret
      BY <1>3, <2>2 DEF TypeOK
    <3>2. QED BY <1>1, <2>1, <2>2, <3>1
  <2>3. CASE n = NULL
    BY <1>1, <1>2, <1>3, <2>1, <2>3
  <2>4. QED BY <2>2, <2>3
<1>4. CASE /\ n = NULL /\ arg[t] = METATAG_ID
           /\ \E m \in Nodes \ alloc : LinkMetanode(m) /\ ptr' = [ptr EXCEPT ![t] = m]
           /\ UNCHANGED ret
  BY <1>1, <1>2, <1>4 DEF TypeOK
<1>5. QED BY <1>3, <1>4 DEF LookupFind, n

(* The steps that only remove a node, or free one.                         *)
LEMMA DropEffect ==
    ASSUME TypeOK, NEW t \in Threads, MetaDrop(t) \/ RemoveDestroy(t)
    PROVE  UNCHANGED <<inited, tree, tag_id, cb>>
BY DEF MetaDrop, RemoveDestroy, NodeDestroy, treeVars

(* RB_REMOVE takes one node out.                                           *)
LEMMA RemoveUnlinkEffect ==
    ASSUME TypeOK, NEW t \in Threads, RemoveUnlink(t)
    PROVE  tree' = tree \ {ptr[t]} /\ UNCHANGED <<inited, tag_id, mtx, cb>>
BY DEF RemoveUnlink, RB_REMOVE, nodeVars

(* No step makes an id below the metatag's.                                *)
LEMMA AboveStep ==
    ASSUME TypeOK, IdsBounded, TreeInv, IdsAbove, NEW t \in Threads, Step(t)
    PROVE  IdsAbove'
<1>1. CASE tree' \subseteq tree /\ UNCHANGED tag_id
  BY <1>1 DEF IdsAbove
<1>2. ASSUME NEW n \in Nodes, NEW i \in Nat, i >= METATAG_ID,
             tree' \subseteq tree \cup {n}, tag_id' = [tag_id EXCEPT ![n] = i]
      PROVE  IdsAbove'
  BY <1>2 DEF IdsAbove, TypeOK
<1>3. ASSUME NEW n \in Nodes \ alloc, LinkMetanode(n), \A m \in tree : tag_id[m] # METATAG_ID
      PROVE  IdsAbove'
  BY <1>2, <1>3, LinkMetanodeEffect DEF METATAG_ID
<1>4. CASE InitBody(t)
  <2>1. \A i \in PredefinedIds : i >= METATAG_ID
    BY ConstantsAssumption DEF PredefinedIds, METATAG_ID
  <2>2. QED BY <1>1, <1>4, <2>1, InitBodyEffect DEF IdsAbove
<1>5. CASE NodeCreate(t)
  BY <1>2, <1>5, NodeCreateEffect DEF METATAG_ID
<1>6. CASE MetaFill(t) \/ LookupFind(t)
  BY <1>1, <1>3, <1>6, MetaFillEffect, LookupFindEffect
<1>7. CASE MetaCreate(t) \/ RemoveUnlink(t) \/ MetaDrop(t) \/ RemoveDestroy(t)
  BY <1>1, <1>7, MetaCreateEffect, RemoveUnlinkEffect, DropEffect
<1>8. CASE ~ TreeSteps(t)
  BY <1>1, <1>8, TreeUntouched
<1>9. QED BY <1>4, <1>5, <1>6, <1>7, <1>8 DEF TreeSteps

(* A client's call starts as what the client asked for.                    *)
LEMMA StartCall ==
    ASSUME TypeOK, CallInv, NEW t \in Threads, NEW r \in Requests, Start(t, r[1], r[2])
    PROVE  CallInv'
<1> DEFINE o == r[1]
           i == r[2]
<1>1. PICK early \in ReturnsEarly(o, i) :
         /\ pc' = [pc EXCEPT ![t] = IF early THEN "early_return" ELSE "init_rdlock"]
         /\ ret' = [ret EXCEPT ![t] = IF early /\ o # "destroy"
                                     THEN PLCTAG_ERR_BAD_PARAM ELSE PLCTAG_STATUS_OK]
  BY DEF Start, Goto
<1>2. /\ early \in BOOLEAN
      /\ o = "destroy" => early = (i = METATAG_ID)
      /\ early => o \in {"destroy", "read", "write", "create"}
  BY <1>1 DEF ReturnsEarly
<1>3. /\ op' = [op EXCEPT ![t] = o] /\ arg' = [arg EXCEPT ![t] = i]
      /\ UNCHANGED <<ptr, tag_id>>
  BY DEF Start, nodeVars
<1>4. OpInv(t)' /\ ResultInv(t)'
  <2>1. /\ op'[t] = o /\ arg'[t] = i
        /\ pc'[t] = IF early THEN "early_return" ELSE "init_rdlock"
        /\ ret'[t] = IF early /\ o # "destroy" THEN PLCTAG_ERR_BAD_PARAM ELSE PLCTAG_STATUS_OK
    BY <1>1, <1>3 DEF TypeOK
  <2> HIDE DEF o, i
  <2>2. QED BY <1>2, <2>1 DEF OpInv, ResultInv, CreateLabels, RemoveLabels, LookupLabels,
        UseLabels
<1>5. ASSUME NEW u \in Threads, u # t
      PROVE  OpInv(u)' /\ ResultInv(u)'
  <2>1. OpInv(u) /\ ResultInv(u)
    BY DEF CallInv
  <2>2. /\ pc'[u] = pc[u] /\ op'[u] = op[u] /\ arg'[u] = arg[u]
        /\ ptr'[u] = ptr[u] /\ ret'[u] = ret[u] /\ tag_id' = tag_id
    BY <1>1, <1>3, <1>5 DEF TypeOK
  <2>3. QED BY <2>1, <2>2 DEF OpInv, ResultInv, Phase, Acted
<1>6. QED BY <1>4, <1>5 DEF CallInv

(* What is known of every call outlasts every step, ...                    *)
LEMMA RStep ==
    ASSUME RInv, [Next]_vars
    PROVE  RInv'
<1> USE DEF RInv
<1>1. ASSUME NEW t \in Threads, Step(t)
      PROVE  CallInv' /\ IdsAbove'
  BY <1>1, CallStep, AboveStep DEF IInv
<1>2. ASSUME NEW t \in Threads, NEW r \in Requests, Start(t, r[1], r[2])
      PROVE  CallInv' /\ IdsAbove'
  <2>1. UNCHANGED <<tree, tag_id>>
    BY <1>2 DEF Start, treeVars, nodeVars
  <2>2. QED BY <1>2, <2>1, StartCall DEF IInv, IdsAbove
<1>3. ASSUME UNCHANGED vars
      PROVE  CallInv' /\ IdsAbove'
  BY <1>3 DEF vars, treeVars, nodeVars, callVars, CallInv, OpInv, ResultInv, Phase, Acted,
     IdsAbove
<1>4. QED BY <1>1, <1>2, <1>3, IStep DEF Next

(* ... holds at first, ...                                                 *)
LEMMA RInit == Init => RInv
<1>1. Init => CallInv /\ IdsAbove
  BY DEF Init, CallInv, OpInv, ResultInv, IdsAbove, CreateLabels, RemoveLabels, LookupLabels,
     UseLabels, Phase
<1>2. QED BY <1>1, InitIInv DEF RInv

(* ... and so is inductive.                                                *)
THEOREM RInductive == Spec => []RInv
BY RInit, RStep, PTL DEF Spec

-----------------------------------------------------------------------------
(* The refinement mapping, step by step.  Each step of a call moves only   *)
(* that call's phase and outcome.                                          *)
LEMMA MapStep ==
    ASSUME TypeOK, NEW t \in Threads, Step(t)
    PROVE  /\ Phases' = [Phases EXCEPT ![t] = Phase(t)']
           /\ Outcomes' = [Outcomes EXCEPT ![t] = Outcome(t)']
           /\ Phases[t] = Phase(t) /\ Outcomes[t] = Outcome(t)
           /\ op' = op /\ arg' = arg
<1>1. \A u \in Threads : u # t =>
         /\ pc'[u] = pc[u] /\ op'[u] = op[u] /\ ptr'[u] = ptr[u] /\ ret'[u] = ret[u]
  BY OthersStay
<1>2. \A u \in Threads : u # t => Phase(u)' = Phase(u)
  BY <1>1 DEF Phase, Acted
<1>3. \A u \in Threads : u # t => Outcome(u)' = Outcome(u)
  BY <1>1, <1>2 DEF Outcome, Undecided, Unsized
<1>4. op' = op /\ arg' = arg
  BY SMTT(60) DEF Step, InitRdlock, InitCheck, InitWrlock, InitBody, InsertLock,
  NodeCreate, MetaDrop, TagLock, TagUnlock, MetaCreate, MetaFill, Finish, EarlyReturn, RemoveLock,
  RemoveFind, RemoveMtx, RemoveUnlink, RemoveUnlock, RemoveDestroy, LookupLock,
  LookupFind, LookupUnlock, MtxLock, Started, Access, SetCb, GetSize, MtxUnlock, callVars
<1>5. QED BY <1>2, <1>3, <1>4 DEF Phases, Outcomes

(* The steps before a call has searched or changed the tree for its        *)
(* client ...                                                              *)
Waits(t) ==
    \/ InitRdlock(t) \/ InitCheck(t) \/ InitWrlock(t) \/ InitBody(t)
    \/ InsertLock(t) \/ MetaCreate(t) \/ (MetaDrop(t) /\ op[t] # "create")
    \/ RemoveLock(t) \/ (RemoveFind(t) /\ ptr'[t] # NULL) \/ RemoveMtx(t) \/ LookupLock(t)

LEMMA WaitsMap ==
    ASSUME TypeOK, NEW t \in Threads, OpInv(t), Waits(t)
    PROVE  Phase(t) = "called" /\ Phase(t)' = "called"
<1> USE DEF TypeOK, Phase, Acted, Goto, callVars
<1>1. CASE InitRdlock(t) \/ InitCheck(t) \/ InitWrlock(t) \/ InitBody(t)
  BY <1>1, SMTT(60) DEF InitRdlock, InitCheck, InitWrlock, InitBody, AfterInit
<1>2. CASE InsertLock(t) \/ MetaCreate(t) \/ (MetaDrop(t) /\ op[t] # "create")
  BY <1>2, SMTT(60) DEF InsertLock, MetaCreate, MetaDrop, OpInv
<1>3. CASE RemoveLock(t) \/ (RemoveFind(t) /\ ptr'[t] # NULL) \/ RemoveMtx(t)
           \/ LookupLock(t)
  BY <1>3, SMTT(60) DEF RemoveLock, RemoveFind, RemoveMtx, LookupLock
<1>4. QED BY <1>1, <1>2, <1>3 DEF Waits

(* ... after it has, while its outcome stays as it is ...                  *)
Continues(t) ==
    \/ (MetaDrop(t) /\ op[t] = "create") \/ TagLock(t) \/ TagUnlock(t) \/ RemoveUnlock(t)
    \/ (LookupUnlock(t) /\ pc'[t] # "idle") \/ (MtxLock(t) /\ pc'[t] # "idle")
    \/ Started(t) \/ SetCb(t)

LEMMA ContinuesMap ==
    ASSUME TypeOK, NEW t \in Threads, OpInv(t), ResultInv(t), Continues(t)
    PROVE  Phase(t) = "done" /\ Phase(t)' = "done" /\ Outcome(t)' = Outcome(t)
<1> USE DEF TypeOK, Goto, Return, callVars
<1>1. Phase(t) = "done" /\ Phase(t)' = "done"
  BY SMTT(60) DEF Phase, Acted, Continues, MetaDrop, TagLock, TagUnlock, RemoveUnlock,
     LookupUnlock, MtxLock, Started, SetCb
<1>2. op'[t] = op[t] /\ ret'[t] = ret[t]
  BY SMTT(60) DEF Continues, MetaDrop, TagLock, TagUnlock, RemoveUnlock,
     LookupUnlock, MtxLock, Started, SetCb
<1>3. (Undecided(t)' <=> Undecided(t)) /\ (Unsized(t)' <=> Unsized(t))
  <2>1. CASE (MetaDrop(t) /\ op[t] = "create") \/ TagLock(t) \/ TagUnlock(t) \/ RemoveUnlock(t)
    BY <2>1, SMTT(60) DEF MetaDrop, TagLock, TagUnlock, RemoveUnlock, Undecided, Unsized
  <2>2. CASE LookupUnlock(t) /\ pc'[t] # "idle"
    BY <2>2, SMTT(60) DEF LookupUnlock, Undecided, Unsized, DataOps
  <2>3. CASE MtxLock(t) /\ pc'[t] # "idle"
    BY <2>3, SMTT(60) DEF MtxLock, Undecided, Unsized, OpInv, DataOps, CbOps
  <2>4. CASE Started(t) \/ SetCb(t)
    BY <2>4, SMTT(60) DEF Started, SetCb, Undecided, Unsized, OpInv, DataOps, CbOps
  <2>5. QED BY <2>1, <2>2, <2>3, <2>4 DEF Continues
<1>4. QED BY <1>1, <1>2, <1>3 DEF Outcome

(* ... and when it returns the one value that is left.                     *)
Returns(t) ==
    \/ Finish(t) \/ RemoveDestroy(t) \/ (LookupUnlock(t) /\ pc'[t] = "idle")
    \/ (MtxLock(t) /\ pc'[t] = "idle") \/ MtxUnlock(t)

LEMMA ReturnsMap ==
    ASSUME TypeOK, NEW t \in Threads, OpInv(t), ResultInv(t), Returns(t)
    PROVE  /\ Phase(t) = "done" /\ Phase(t)' = "idle"
           /\ Outcome(t) = {ret[t]} /\ Outcome(t)' = {ret[t]}
<1> USE DEF TypeOK, Goto, Return
<1>1. Phase(t) = "done" /\ pc'[t] = "idle" /\ ret'[t] = ret[t]
  BY SMTT(60) DEF Phase, Acted, Returns, Finish, RemoveDestroy, LookupUnlock, MtxLock,
     MtxUnlock
<1>2. ~ Undecided(t) /\ ~ Unsized(t)
  <2>1. CASE Finish(t) \/ RemoveDestroy(t) \/ MtxUnlock(t)
    BY <2>1 DEF Finish, RemoveDestroy, MtxUnlock, Undecided, Unsized
  <2>2. CASE LookupUnlock(t) /\ pc'[t] = "idle"
    BY <2>2, SMTT(60) DEF LookupUnlock, Undecided, Unsized, DataOps, ResultInv,
       PLCTAG_STATUS_OK, PLCTAG_ERR_NOT_FOUND
  <2>3. CASE MtxLock(t) /\ pc'[t] = "idle"
    BY <2>3, SMTT(60) DEF MtxLock, Undecided, Unsized, DataOps
  <2>4. QED BY <2>1, <2>2, <2>3 DEF Returns
<1>3. QED BY <1>1, <1>2 DEF Outcome, Phase, Undecided, Unsized

-----------------------------------------------------------------------------
(* The set of tags changes only where a creation or a destroy acts.        *)
LEMMA TagsKept ==
    ASSUME TypeOK, IdsBounded, TreeInv, NEW t \in Threads, Step(t),
           ~ NodeCreate(t), ~ RemoveUnlink(t)
    PROVE  Tags' = Tags
<1>1. CASE UNCHANGED <<inited, tree, tag_id>>
  BY <1>1 DEF Tags
<1>2. ASSUME NEW n \in Nodes \ alloc, LinkMetanode(n), \A m \in tree : tag_id[m] # METATAG_ID
      PROVE  Tags' = Tags
  <2>1. /\ n \notin tree /\ tree' = tree \cup {n} /\ inited' = inited
        /\ tag_id' = [tag_id EXCEPT ![n] = METATAG_ID]
    BY <1>2, LinkMetanodeEffect
  <2>2. tag_id'[n] = METATAG_ID /\ \A m \in tree : tag_id'[m] = tag_id[m]
    BY <2>1 DEF TypeOK
  <2>3. {tag_id'[m] : m \in tree'} \ {METATAG_ID} = {tag_id[m] : m \in tree} \ {METATAG_ID}
    BY <2>1, <2>2
  <2>4. QED BY <2>1, <2>3 DEF Tags
<1>3. CASE InitBody(t)
  <2>1. METATAG_ID \notin PredefinedIds
    BY ConstantsAssumption DEF METATAG_ID, PredefinedIds
  <2>2. QED BY <1>1, <1>3, <2>1, InitBodyEffect DEF Tags
<1>4. CASE MetaCreate(t)
  <2>1. tree' = {m \in tree : tag_id[m] # METATAG_ID} /\ UNCHANGED <<inited, tag_id>>
    BY <1>4, MetaCreateEffect
  <2>2. {tag_id'[m] : m \in tree'} \ {METATAG_ID} = {tag_id[m] : m \in tree} \ {METATAG_ID}
    BY <2>1
  <2>3. QED BY <2>1, <2>2 DEF Tags
<1>5. CASE MetaFill(t) \/ LookupFind(t)
  BY <1>1, <1>2, <1>5, MetaFillEffect, LookupFindEffect
<1>6. CASE MetaDrop(t) \/ RemoveDestroy(t)
  BY <1>1, <1>6, DropEffect
<1>7. CASE ~ TreeSteps(t)
  BY <1>1, <1>7, TreeUntouched
<1>8. QED BY <1>3, <1>4, <1>5, <1>6, <1>7 DEF TreeSteps

(* A step that moves its call from called to called, or from done to done  *)
(* with the same outcome, is invisible.                                    *)
LEMMA Invisible ==
    ASSUME TypeOK, NEW t \in Threads, Step(t), Tags' = Tags,
           Phase(t)' = Phase(t), Outcome(t)' = Outcome(t)
    PROVE  UNCHANGED Registry!vars
<1>1. Phases \in [Threads -> {"idle", "called", "done"}]
  BY DEF Phases, Phase
<1>2. Phases' = Phases /\ Outcomes' = Outcomes
  <2>1. Outcomes = [Outcomes EXCEPT ![t] = Outcomes[t]]
    BY DEF Outcomes
  <2>2. QED BY <1>1, <2>1, MapStep
<1>3. QED BY <1>2, MapStep DEF Registry!vars

(* plc_tag_create acts as Create.                                          *)
LEMMA NodeCreateMaps ==
    ASSUME RInv, NEW t \in Threads, NodeCreate(t)
    PROVE  Registry!Create(t)
<1> USE DEF RInv, IInv
<1>1. PICK n \in Nodes \ alloc :
         /\ n \notin tree
         /\ tag_id' = [tag_id EXCEPT ![n] = NextId]
         /\ tree' = {m \in tree : tag_id[m] # METATAG_ID} \cup {n}
  BY NodeCreateEffect
<1>2. inited /\ inited'
  <2>1. pc[t] \notin Early
    BY DEF NodeCreate, Early
  <2>2. QED BY <2>1, NodeCreateEffect DEF TreeInv, Ready
<1>3. /\ NextId > METATAG_ID /\ NextId \in Nat
      /\ \A m \in tree : tag_id[m] < NextId
      /\ NextId = METATAG_ID + 1 \/ \E m \in tree : NextId = tag_id[m] + 1
  BY NodeCreateEffect
<1>4. tag_id'[n] = NextId /\ \A m \in tree : tag_id'[m] = tag_id[m]
  BY <1>1 DEF TypeOK
<1>5. Tags' = Tags \cup {NextId}
  <2>1. {tag_id'[m] : m \in tree'} \ {METATAG_ID}
          = ({tag_id[m] : m \in tree} \ {METATAG_ID}) \cup {NextId}
    BY <1>1, <1>3, <1>4 DEF METATAG_ID
  <2>2. QED BY <1>2, <2>1 DEF Tags
<1>6. \A k \in Tags \cup {METATAG_ID} : k < NextId
  BY <1>2, <1>3 DEF Tags
<1>7. \E k \in Tags \cup {METATAG_ID} : NextId = k + 1
  BY <1>2, <1>3 DEF Tags
<1>8. op[t] = "create" /\ pc[t] = "node_create" /\ pc'[t] \in {"tag_lock", "meta_drop"}
      /\ ret'[t] = NextId
  BY SMTT(60) DEF NodeCreate, Invalidate, Goto, TypeOK, CallInv, OpInv
<1>9. op' = op /\ Step(t)
  BY DEF NodeCreate, callVars, Step
<1>10. Phase(t) = "called" /\ Phase(t)' = "done"
  BY <1>8, <1>9 DEF Phase, Acted
<1>11. Outcome(t)' = {NextId}
  BY <1>8, <1>9, <1>10 DEF Outcome, Undecided, Unsized, DataOps
<1>12. QED BY <1>5, <1>6, <1>7, <1>8, <1>9, <1>10, <1>11, MapStep DEF Registry!Create, Registry!Act

(* plc_tag_create of "@tags" acts as CreateMeta.                           *)
LEMMA MetaFillMaps ==
    ASSUME RInv, NEW t \in Threads, MetaFill(t)
    PROVE  Registry!CreateMeta(t)
<1> USE DEF RInv, IInv
<1>1. /\ op[t] = "create_meta" /\ pc[t] = "meta_fill" /\ pc'[t] = "finish"
      /\ ret'[t] = METATAG_ID /\ op' = op /\ Step(t)
  BY DEF MetaFill, Goto, TypeOK, CallInv, OpInv, callVars, Step
<1>2. Phase(t) = "called" /\ Phase(t)' = "done" /\ Outcome(t)' = {METATAG_ID}
  BY <1>1 DEF Phase, Acted, Outcome, Undecided, Unsized
<1>3. Tags' = Tags
  BY <1>1, TagsKept DEF MetaFill, NodeCreate, RemoveUnlink
<1>4. QED BY <1>1, <1>2, <1>3, MapStep DEF Registry!CreateMeta, Registry!Act

(* plc_tag_destroy of a tag that does not exist acts when it has searched. *)
LEMMA RemoveFindMaps ==
    ASSUME RInv, NEW t \in Threads, RemoveFind(t), ptr'[t] = NULL
    PROVE  Registry!Destroy(t)
<1> USE DEF RInv, IInv
<1>1. op[t] = "destroy" /\ arg[t] # METATAG_ID /\ pc[t] = "remove_find"
  BY DEF RemoveFind, CallInv, OpInv, RemoveLabels
<1>2. RB_FIND(tree, tag_id, arg[t]) = NULL
  BY DEF RemoveFind, TypeOK
<1>3. pc'[t] = "finish" /\ ret'[t] = PLCTAG_ERR_NOT_FOUND /\ op' = op /\ Step(t)
  BY <1>2 DEF RemoveFind, Goto, TypeOK, callVars, Step
<1>4. \A n \in tree : tag_id[n] # arg[t]
  BY <1>2, FindCorrect, ConstantsAssumption DEF TypeOK
<1>5. inited
  BY <1>1 DEF TreeInv, Ready, Early
<1>6. arg[t] \notin Tags
  BY <1>4, <1>5 DEF Tags
<1>7. Tags' = Tags
  BY <1>3, TagsKept DEF RemoveFind, NodeCreate, RemoveUnlink
<1>8. Phase(t) = "called" /\ Phase(t)' = "done" /\ Outcome(t)' = {PLCTAG_ERR_NOT_FOUND}
  BY <1>1, <1>3 DEF Phase, Acted, Outcome, Undecided, Unsized
<1>9. Tags' = Tags \ {arg[t]}
  BY <1>6, <1>7
<1>10. QED BY <1>1, <1>3, <1>6, <1>8, <1>9, MapStep DEF Registry!Destroy, Registry!Act

(* plc_tag_destroy of a tag that exists acts when it unlinks it.           *)
LEMMA RemoveUnlinkMaps ==
    ASSUME RInv, NEW t \in Threads, RemoveUnlink(t)
    PROVE  Registry!Destroy(t)
<1> USE DEF RInv, IInv
<1>1. pc[t] = "remove_unlink"
  BY DEF RemoveUnlink
<1>2. op[t] = "destroy" /\ arg[t] # METATAG_ID
  BY <1>1 DEF CallInv, OpInv, RemoveLabels
<1>3. ptr[t] \in tree /\ tag_id[ptr[t]] = arg[t]
  BY <1>1 DEF TreeInv, Pending, CallInv, ResultInv
<1>4. Phase(t) = "called" /\ ret[t] = PLCTAG_STATUS_OK
  BY <1>1 DEF Phase, Acted, CallInv, ResultInv
<1>5. pc'[t] = "remove_unlock" /\ ret' = ret /\ op' = op /\ Step(t)
  BY DEF RemoveUnlink, Goto, TypeOK, callVars, Step
<1>6. Phase(t)' = "done" /\ Outcome(t)' = {PLCTAG_STATUS_OK}
  BY <1>2, <1>4, <1>5 DEF Phase, Acted, Outcome, Undecided, Unsized, DataOps
<1>7. inited
  BY <1>1 DEF TreeInv, Ready, Early
<1>8. tree' = tree \ {ptr[t]} /\ UNCHANGED <<inited, tag_id>>
  BY RemoveUnlinkEffect
<1>9. arg[t] \in Tags
  BY <1>2, <1>3, <1>7 DEF Tags
<1>10. Tags' = Tags \ {arg[t]}
  <2>1. {tag_id[m] : m \in tree'} = {tag_id[m] : m \in tree} \ {arg[t]}
    BY <1>3, <1>8 DEF TreeInv, IdsUnique
  <2>2. QED BY <1>7, <1>8, <2>1 DEF Tags
<1>11. QED BY <1>2, <1>4, <1>5, <1>6, <1>9, <1>10, MapStep DEF Registry!Destroy, Registry!Act

(* Any other call acts when it has looked its tag up.                      *)
LEMMA LookupFindMaps ==
    ASSUME RInv, NEW t \in Threads, LookupFind(t)
    PROVE  Registry!Use(t)
<1> USE DEF RInv, IInv
<1>1. pc[t] = "lookup_find" /\ pc'[t] = "lookup_unlock" /\ op' = op /\ Step(t)
  BY DEF LookupFind, Goto, TypeOK, callVars, Step
<1>2. op[t] \notin {"create", "create_meta", "destroy"}
  BY <1>1 DEF CallInv, OpInv, LookupLabels, LookupOps, MtxOps, EventOps, DataOps, CbOps
<1>3. Phase(t) = "called" /\ ret[t] = PLCTAG_STATUS_OK /\ Phase(t)' = "done"
  BY <1>1 DEF Phase, Acted, CallInv, ResultInv
<1>4. inited
  BY <1>1 DEF TreeInv, Ready, Early
<1>5. Tags' = Tags
  BY <1>1, TagsKept DEF LookupFind, NodeCreate, RemoveUnlink
<1>6. NULL \notin Nodes
  BY ConstantsAssumption
<1>7. CASE ptr'[t] = NULL
  <2>1. /\ arg[t] # METATAG_ID /\ \A m \in tree : tag_id[m] # arg[t]
        /\ ret'[t] = PLCTAG_ERR_NOT_FOUND
    BY <1>6, <1>7, LookupFindEffect DEF TypeOK
  <2>2. arg[t] \notin Tags \cup {METATAG_ID}
    BY <1>4, <2>1 DEF Tags
  <2>3. Outcome(t)' = {PLCTAG_ERR_NOT_FOUND}
    BY <1>1, <1>3, <1>7, <2>1 DEF Outcome, Undecided, Unsized, PLCTAG_ERR_NOT_FOUND,
       PLCTAG_STATUS_OK
  <2>4. QED BY <1>1, <1>2, <1>3, <1>5, <2>2, <2>3, MapStep DEF Registry!Use, Registry!Act
<1>8. CASE ptr'[t] # NULL
  <2>1. ret'[t] = PLCTAG_STATUS_OK /\ arg[t] \in {tag_id[m] : m \in tree} \cup {METATAG_ID}
    BY <1>3, <1>8, LookupFindEffect
  <2>2. arg[t] \in Tags \cup {METATAG_ID}
    BY <1>4, <2>1 DEF Tags
  <2>3. Outcome(t)' = IF op[t] \in DataOps THEN {PLCTAG_STATUS_OK, PLCTAG_ERR_BAD_PARAM}
                      ELSE IF op[t] = "get_size" THEN Nodes ELSE {PLCTAG_STATUS_OK}
    <3>1. (Undecided(t)' <=> op[t] \in DataOps) /\ (Unsized(t)' <=> op[t] = "get_size")
      BY <1>1, <1>8, <2>1 DEF Undecided, Unsized
    <3>2. "get_size" \notin DataOps
      BY DEF DataOps
    <3>3. Phase(t)' # "called"
      BY <1>3
    <3>4. QED BY <2>1, <3>1, <3>2, <3>3 DEF Outcome
  <2>4. QED BY <1>1, <1>2, <1>3, <1>5, <2>2, <2>3, MapStep DEF Registry!Use, Registry!Act
<1>9. QED BY <1>7, <1>8

(* A get or set decides its outcome when it has checked its offset, and a  *)
(* get_size when it converts the pointer; a read or write has none to      *)
(* decide.                                                                 *)
LEMMA DecideMaps ==
    ASSUME RInv, NEW t \in Threads, Access(t) \/ GetSize(t)
    PROVE  Registry!Decide(t) \/ UNCHANGED Registry!vars
<1> USE DEF RInv, IInv
<1>1. Step(t) /\ ~ NodeCreate(t) /\ ~ RemoveUnlink(t)
  BY DEF Step, Access, GetSize, NodeCreate, RemoveUnlink
<1>2. Tags' = Tags
  BY <1>1, TagsKept
<1>3. /\ pc[t] \in {"access", "size"} /\ pc'[t] = "mtx_unlock"
      /\ ret[t] = PLCTAG_STATUS_OK /\ ptr[t] \in Nodes
  BY DEF Access, GetSize, Goto, TypeOK, CallInv, ResultInv, UseLabels
<1>4. Phase(t) = "done" /\ Phase(t)' = "done" /\ Outcome(t)' = {ret'[t]}
  BY <1>3 DEF Phase, Acted, Outcome, Undecided, Unsized
<1>5. CASE Access(t) /\ op[t] \in DataOps
  <2>1. Outcome(t) = {PLCTAG_STATUS_OK, PLCTAG_ERR_BAD_PARAM}
    BY <1>3, <1>4, <1>5 DEF Outcome, Undecided, Access
  <2>2. ret'[t] \in {PLCTAG_STATUS_OK, PLCTAG_ERR_BAD_PARAM}
    BY <1>3, <1>5 DEF Access, TypeOK
  <2>3. Phases' = Phases
    BY <1>1, <1>4, MapStep DEF Phases
  <2>4. QED BY <1>1, <1>2, <1>4, <2>1, <2>2, <2>3, MapStep DEF Registry!Decide
<1>6. CASE Access(t) /\ op[t] \notin DataOps
  <2>1. Outcome(t) = {ret[t]}
    BY <1>4, <1>6 DEF Outcome, Undecided, Unsized, Access
  <2>2. ret'[t] = ret[t]
    BY <1>6 DEF Access, TypeOK
  <2>3. QED BY <1>1, <1>2, <1>4, <2>1, <2>2, Invisible
<1>7. CASE GetSize(t)
  <2>1. op[t] = "get_size" /\ pc[t] = "size"
    BY <1>7 DEF GetSize, CallInv, OpInv
  <2>2. "get_size" \notin DataOps /\ ptr[t] # NULL
    BY <1>3, ConstantsAssumption DEF DataOps
  <2>3. Outcome(t) = Nodes
    BY <1>4, <2>1, <2>2 DEF Outcome, Undecided, Unsized
  <2>4. ret'[t] \in Nodes
    BY <1>3, <1>7 DEF GetSize, TypeOK
  <2>5. Phases' = Phases
    BY <1>1, <1>4, MapStep DEF Phases
  <2>6. QED BY <1>1, <1>2, <1>4, <2>3, <2>4, <2>5, MapStep DEF Registry!Decide
<1>8. QED BY <1>5, <1>6, <1>7

(* Every step of a call is a step of the registry, or invisible.           *)
LEMMA StepMaps ==
    ASSUME RInv, NEW t \in Threads, Step(t)
    PROVE  [Registry!Next]_(Registry!vars)
<1> USE DEF RInv, IInv
<1>1. OpInv(t) /\ ResultInv(t)
  BY DEF CallInv
<1>2. CASE Waits(t)
  <2>1. Phase(t) = "called" /\ Phase(t)' = "called"
    BY <1>1, <1>2, WaitsMap
  <2>2. Outcome(t) = {} /\ Outcome(t)' = {}
    BY <2>1 DEF Outcome
  <2>3. Tags' = Tags
    BY <1>2, TagsKept DEF Waits, InitRdlock, InitCheck, InitWrlock, InitBody, InsertLock,
       MetaCreate, MetaDrop, RemoveLock, RemoveFind, RemoveMtx, LookupLock, NodeCreate,
       RemoveUnlink
  <2>4. QED BY <2>1, <2>2, <2>3, Invisible
<1>3. CASE Continues(t)
  <2>1. Tags' = Tags
    BY <1>3, TagsKept DEF Continues, MetaDrop, TagLock, TagUnlock, RemoveUnlock, LookupUnlock,
       MtxLock, Started, SetCb, NodeCreate, RemoveUnlink
  <2>2. QED BY <1>1, <1>3, <2>1, ContinuesMap, Invisible
<1>4. CASE Returns(t)
  <2>1. Tags' = Tags
    BY <1>4, TagsKept DEF Returns, Finish, RemoveDestroy, LookupUnlock, MtxLock, MtxUnlock,
       NodeCreate, RemoveUnlink
  <2>2. /\ Phase(t) = "done" /\ Phase(t)' = "idle"
        /\ Outcome(t) = {ret[t]} /\ Outcome(t)' = {ret[t]}
    BY <1>1, <1>4, ReturnsMap
  <2>3. Outcomes' = Outcomes
    <3>1. Outcomes = [Outcomes EXCEPT ![t] = Outcomes[t]]
      BY DEF Outcomes
    <3>2. QED BY <2>2, <3>1, MapStep
  <2>4. Registry!Return(t)
    <3>1. Phases[t] = "done" /\ Phases' = [Phases EXCEPT ![t] = "idle"]
          /\ Outcomes[t] = Outcome(t) /\ op' = op /\ arg' = arg
      BY <1>4, <2>2, MapStep DEF Returns, Step
    <3>2. \E x \in Outcomes[t] : Outcomes[t] = {x}
      BY <2>2, <3>1
    <3>3. QED BY <2>1, <2>3, <3>1, <3>2 DEF Registry!Return
  <2>5. QED BY <2>4 DEF Registry!Next
<1>5. CASE EarlyReturn(t)
  <2>1. pc[t] = "early_return" /\ pc'[t] = "idle" /\ ret' = ret
    BY <1>5 DEF EarlyReturn, Return, Goto, TypeOK
  <2>2. Phase(t) = "called" /\ Phase(t)' = "idle" /\ Outcome(t)' = {ret[t]}
    BY <2>1 DEF Phase, Acted, Outcome, Undecided, Unsized
  <2>3. Tags' = Tags
    BY <1>5, TagsKept DEF EarlyReturn, NodeCreate, RemoveUnlink
  <2>4. \/ op[t] = "destroy" /\ arg[t] = METATAG_ID /\ ret[t] = PLCTAG_STATUS_OK
        \/ op[t] \in {"read", "write", "create"} /\ ret[t] = PLCTAG_ERR_BAD_PARAM
    BY <1>1, <2>1 DEF ResultInv
  <2>5. Registry!EarlyReturn(t)
    BY <2>2, <2>3, <2>4, MapStep DEF Registry!EarlyReturn
  <2>6. QED BY <2>5 DEF Registry!Next
<1>6. CASE NodeCreate(t) \/ MetaFill(t) \/ (RemoveFind(t) /\ ptr'[t] = NULL)
           \/ RemoveUnlink(t) \/ LookupFind(t)
  BY <1>6, NodeCreateMaps, MetaFillMaps, RemoveFindMaps, RemoveUnlinkMaps, LookupFindMaps
     DEF Registry!Next
<1>7. CASE Access(t) \/ GetSize(t)
  BY <1>7, DecideMaps DEF Registry!Next
<1>8. QED BY <1>2, <1>3, <1>4, <1>5, <1>6, <1>7 DEF Step, Waits, Continues, Returns

(* A client's call is the registry's Call.                                 *)
LEMMA StartMaps ==
    ASSUME RInv, NEW t \in Threads, NEW r \in Requests, Start(t, r[1], r[2])
    PROVE  Registry!Call(t, r[1], r[2])
<1> USE DEF RInv, IInv
<1>1. /\ pc[t] = "idle" /\ pc'[t] \in {"early_return", "init_rdlock"}
      /\ \A u \in Threads : u # t => pc'[u] = pc[u] /\ op'[u] = op[u] /\ ret'[u] = ret[u]
      /\ op' = [op EXCEPT ![t] = r[1]] /\ arg' = [arg EXCEPT ![t] = r[2]]
      /\ UNCHANGED <<inited, tree, tag_id, ptr>>
  BY DEF Start, Goto, TypeOK, treeVars, nodeVars
<1>2. Phase(t) = "idle" /\ Phase(t)' = "called"
  BY <1>1 DEF Phase, Acted
<1>3. Outcome(t)' = {}
  BY <1>2 DEF Outcome
<1>4. \A u \in Threads : u # t => Phase(u)' = Phase(u) /\ Outcome(u)' = Outcome(u)
  BY <1>1 DEF Phase, Acted, Outcome, Undecided, Unsized
<1>5. Phases' = [Phases EXCEPT ![t] = "called"] /\ Phases[t] = "idle"
  BY <1>2, <1>4 DEF Phases
<1>6. Outcomes' = [Outcomes EXCEPT ![t] = {}]
  BY <1>3, <1>4 DEF Outcomes
<1>7. Tags' = Tags
  BY <1>1 DEF Tags
<1>8. QED BY <1>1, <1>5, <1>6, <1>7 DEF Registry!Call

(* The calls act on the set of tags as the registry promises: each once,   *)
(* atomically, between its invocation and its return, with the result that *)
(* it then returns.                                                        *)
THEOREM ImplementsRegistry == Spec => RefinesRegistry
<1>1. Init => Registry!Init
  <2> SUFFICES ASSUME Init PROVE Registry!Init
    OBVIOUS
  <2>1. \A t \in Threads : Phase(t) = "idle" /\ Outcome(t) = {PLCTAG_STATUS_OK}
    BY DEF Init, Phase, Outcome, Undecided, Unsized, DataOps
  <2>2. QED BY <2>1 DEF Init, Registry!Init, Tags, Phases, Outcomes
<1>2. ASSUME RInv, [Next]_vars
      PROVE  [Registry!Next]_(Registry!vars)
  <2>1. ASSUME NEW t \in Threads, NEW r \in Requests, Start(t, r[1], r[2])
        PROVE  Registry!Next
    BY <1>2, <2>1, StartMaps DEF Registry!Next
  <2>2. CASE UNCHANGED vars
    <3>1. UNCHANGED <<inited, tree, tag_id, pc, op, arg, ret, ptr>>
      BY <2>2 DEF vars, treeVars, nodeVars, callVars
    <3>2. \A t \in Threads : Phase(t)' = Phase(t) /\ Outcome(t)' = Outcome(t)
      BY <3>1 DEF Phase, Acted, Outcome, Undecided, Unsized
    <3>3. Tags' = Tags /\ Phases' = Phases /\ Outcomes' = Outcomes
      BY <3>1, <3>2 DEF Tags, Phases, Outcomes
    <3>4. QED BY <3>1, <3>3 DEF Registry!vars
  <2>3. QED BY <1>2, <2>1, <2>2, StepMaps DEF Next
<1>3. QED BY <1>1, <1>2, RInductive, PTL DEF Spec, RefinesRegistry, Registry!Spec

=============================================================================
