---------------------------- MODULE CallbackProofs ----------------------------
(***************************************************************************)
(* Proofs about calls that callbacks make, for every number of threads,    *)
(* addresses, ids and calls, and every depth of callbacks in callbacks.    *)
(***************************************************************************)
EXTENDS Callbacks, TagUseProofs

(* A callback is called between the events of a get, a set, a read or a    *)
(* write, never under tag_tree_mtx.                                        *)
Interrupted == {"access", "mtx_unlock"}

Frame == [pc   : Interrupted,
          op   : EventOps,
          arg  : Nat,
          ptr  : Nodes,
          seen : SUBSET {"started", "ended"},
          ret  : Nat \cup Codes \cup Nodes \cup {NULL}]

(* What every client's interrupted calls keep.                             *)
FrameInv ==
    /\ frames \in [Threads -> Seq(Frame)]
    /\ entering \in [Threads -> BOOLEAN]
    /\ \A t \in Threads :
          /\ entering[t] => pc[t] \in Interrupted /\ op[t] \in EventOps
          /\ frames[t] # <<>> => inited
          /\ \A k \in DOMAIN frames[t] :
                frames[t][k].pc = "access" => frames[t][k].ret = PLCTAG_STATUS_OK

CbRInv == RInv /\ FrameInv

-----------------------------------------------------------------------------
(* The last element of a sequence, and what is left without it.            *)
LEMMA LastAndFront ==
    ASSUME NEW S, NEW s \in Seq(S), s # <<>>
    PROVE  /\ Len(s) \in DOMAIN s /\ s[Len(s)] \in S
           /\ SubSeq(s, 1, Len(s) - 1) \in Seq(S)
           /\ \A k \in DOMAIN SubSeq(s, 1, Len(s) - 1) :
                 k \in DOMAIN s /\ k # Len(s) /\ SubSeq(s, 1, Len(s) - 1)[k] = s[k]
OBVIOUS

(* A sequence that grew by one element.                                    *)
LEMMA Appended ==
    ASSUME NEW S, NEW s \in Seq(S), NEW e \in S
    PROVE  /\ Append(s, e) \in Seq(S) /\ Append(s, e) # <<>>
           /\ \A k \in DOMAIN Append(s, e) :
                 \/ k = Len(s) + 1 /\ Append(s, e)[k] = e
                 \/ k \in DOMAIN s /\ Append(s, e)[k] = s[k]
OBVIOUS

(* An event is delivered at the two places where a callback is called.     *)
LEMMA Delivers ==
    ASSUME TypeOK, CallInv, NEW t \in Threads, Step(t), seen'[t] # seen[t]
    PROVE  pc'[t] \in Interrupted /\ op'[t] \in EventOps
<1>1. Started(t) \/ Access(t)
  BY SMTT(60) DEF Step, InitRdlock, InitCheck, InitWrlock, InitBody, InsertLock,
  NodeCreate, MetaDrop, TagLock, TagUnlock, MetaCreate, MetaFill, Finish, EarlyReturn, RemoveLock,
  RemoveFind, RemoveMtx, RemoveUnlink, RemoveUnlock, RemoveDestroy, LookupLock,
  LookupFind, LookupUnlock, MtxLock, SetCb, GetSize, MtxUnlock
<1>2. QED BY <1>1 DEF Started, Access, Goto, TypeOK, CallInv, OpInv, Interrupted, callVars

(* Once initialised the tree stays so.                                     *)
LEMMA InitedStays ==
    ASSUME TypeOK, NEW t \in Threads, Step(t), inited
    PROVE  inited'
<1>1. CASE TreeSteps(t)
  BY <1>1 DEF TreeSteps, InitBody, CreatePredefined, NodeCreate, MetaDrop, MetaCreate, MetaFill,
     LinkMetanode, RemoveUnlink, RemoveDestroy, LookupFind, treeVars
<1>2. CASE ~ TreeSteps(t)
  BY <1>2, TreeUntouched
<1>3. QED BY <1>1, <1>2

(* The callback begins: the call it interrupts held no lock of the tree.   *)
LEMMA EnterKeeps ==
    ASSUME CbRInv, NEW t \in Threads, Enter(t)
    PROVE  CbRInv'
<1> USE DEF CbRInv, RInv, IInv
<1>1. /\ pc[t] \in Interrupted /\ op[t] \in EventOps
      /\ UNCHANGED <<rwVars, treeVars, nodeVars, mtx, callVars, old, seen, ret, clientVars>>
      /\ pc' = [pc EXCEPT ![t] = "idle"] /\ ptr' = [ptr EXCEPT ![t] = NULL]
      /\ entering' = [entering EXCEPT ![t] = FALSE]
  BY DEF FrameInv, Enter, Return, Goto
<1>2. pc'[t] = "idle" /\ ptr'[t] = NULL
      /\ \A u \in Threads : u # t => pc'[u] = pc[u] /\ ptr'[u] = ptr[u]
  BY <1>1 DEF TypeOK
<1>3. TypeOK'
  <2>1. pc' \in [Threads -> PcLabels] /\ ptr' \in [Threads -> Nodes \cup {NULL}]
    BY <1>1 DEF TypeOK, PcLabels
  <2>2. QED BY <1>1, <2>1 DEF TypeOK, rwVars, treeVars, nodeVars, callVars, clientVars
<1>4. IdsBounded' /\ IdsAbove'
  BY <1>1 DEF IdsBounded, IdsAbove, treeVars, nodeVars
<1>5. RwInv'
  BY <1>1, <1>2 DEF RwInv, RwBalanced, RwExclusive, HoldsWrite, HoldsRead, rwVars, callVars,
     Interrupted
<1>6. NodesAccounted'
  <2>1. \A u \in Threads : Dying(u)' = Dying(u)
    BY <1>1, <1>2 DEF Dying, Interrupted
  <2>2. QED BY <1>1, <2>1 DEF TreeInv, NodesAccounted, treeVars, nodeVars
<1>7. Ready' /\ Pending'
  BY <1>1, <1>2 DEF TreeInv, Ready, Pending, Early, treeVars, nodeVars, callVars, Interrupted
<1>8. IdsUnique' /\ MetaListsAll'
  BY <1>1 DEF TreeInv, IdsUnique, MetaListsAll, treeVars, nodeVars
<1>9. CallInv'
  <2>1. OpInv(t)' /\ ResultInv(t)'
    BY <1>2 DEF OpInv, ResultInv, CreateLabels, RemoveLabels, LookupLabels, UseLabels, Phase
  <2>2. ASSUME NEW u \in Threads, u # t
        PROVE  OpInv(u)' /\ ResultInv(u)'
    <3>1. OpInv(u) /\ ResultInv(u)
      BY DEF CallInv
    <3>2. /\ pc'[u] = pc[u] /\ ptr'[u] = ptr[u]
          /\ UNCHANGED <<op, arg, ret, tag_id>>
      BY <1>1, <1>2, <2>2 DEF callVars, nodeVars
    <3>3. OpInv(u)'
      BY <3>1, <3>2 DEF OpInv
    <3>4. ResultInv(u)'
      BY <3>1, <3>2 DEF ResultInv, Phase, Acted
    <3>5. QED BY <3>3, <3>4
  <2>3. QED BY <2>1, <2>2 DEF CallInv
<1>10. FrameInv'
  <2> DEFINE e == [pc |-> pc[t], op |-> op[t], arg |-> arg[t], ptr |-> ptr[t],
                   seen |-> seen[t], ret |-> ret[t]]
  <2>1. ptr[t] # NULL /\ inited /\ (pc[t] = "access" => ret[t] = PLCTAG_STATUS_OK)
    BY <1>1 DEF CallInv, ResultInv, UseLabels, Interrupted, TreeInv, Ready, Early
  <2>2. e \in Frame /\ (e.pc = "access" => e.ret = PLCTAG_STATUS_OK)
    BY <1>1, <2>1 DEF Frame, TypeOK
  <2> HIDE DEF e
  <2>3. frames' = [frames EXCEPT ![t] = Append(frames[t], e)]
    BY DEF Enter, e
  <2>4. frames[t] \in Seq(Frame)
    BY DEF FrameInv
  <2>5. frames' \in [Threads -> Seq(Frame)] /\ entering' \in [Threads -> BOOLEAN]
    BY <1>1, <2>2, <2>3, <2>4, Appended DEF FrameInv
  <2>6. ASSUME NEW u \in Threads
        PROVE  /\ entering'[u] => pc'[u] \in Interrupted /\ op'[u] \in EventOps
               /\ frames'[u] # <<>> => inited'
               /\ \A k \in DOMAIN frames'[u] :
                     frames'[u][k].pc = "access" => frames'[u][k].ret = PLCTAG_STATUS_OK
    <3>1. inited' /\ op' = op
      BY <1>1, <2>1 DEF treeVars, callVars
    <3>2. CASE u = t
      <4>1. frames'[u] = Append(frames[t], e) /\ ~ entering'[u]
        BY <1>1, <2>3, <3>2 DEF FrameInv
      <4>2. \A k \in DOMAIN frames[t] :
               frames[t][k].pc = "access" => frames[t][k].ret = PLCTAG_STATUS_OK
        BY DEF FrameInv
      <4>3. QED BY <2>2, <2>4, <3>1, <4>1, <4>2, Appended
    <3>3. CASE u # t
      <4>1. frames'[u] = frames[u] /\ entering'[u] = entering[u] /\ pc'[u] = pc[u]
        BY <1>1, <1>2, <2>3, <3>3 DEF FrameInv
      <4>2. QED BY <3>1, <4>1 DEF FrameInv
    <3>4. QED BY <3>2, <3>3
  <2>7. QED BY <2>5, <2>6 DEF FrameInv
<1>11. QED BY <1>3, <1>4, <1>5, <1>6, <1>7, <1>8, <1>9, <1>10 DEF TreeInv

(* The callback returns: the call it interrupted is where it was.          *)
LEMMA ResumeKeeps ==
    ASSUME CbRInv, NEW t \in Threads, Resume(t)
    PROVE  CbRInv'
<1> USE DEF CbRInv, RInv, IInv
<1> DEFINE f == frames[t][Len(frames[t])]
<1>1. /\ frames[t] \in Seq(Frame) /\ frames[t] # <<>>
      /\ pc[t] = "idle" /\ entering' = entering /\ ~ entering[t]
      /\ UNCHANGED <<rwVars, treeVars, nodeVars, mtx, old, clientVars>>
  BY DEF FrameInv, Resume, Interrupted
<1>2. f \in Frame /\ inited /\ (f.pc = "access" => f.ret = PLCTAG_STATUS_OK)
  BY <1>1, LastAndFront DEF FrameInv
<1>3. /\ pc' = [pc EXCEPT ![t] = f.pc]
      /\ op' = [op EXCEPT ![t] = f.op]
      /\ arg' = [arg EXCEPT ![t] = f.arg]
      /\ ptr' = [ptr EXCEPT ![t] = f.ptr]
      /\ seen' = [seen EXCEPT ![t] = f.seen]
      /\ ret' = [ret EXCEPT ![t] = f.ret]
      /\ frames' = [frames EXCEPT ![t] = SubSeq(frames[t], 1, Len(frames[t]) - 1)]
  BY DEF Resume
<1> HIDE DEF f
<1>4. /\ f.pc \in Interrupted /\ f.op \in EventOps /\ f.arg \in Nat /\ f.ptr \in Nodes
      /\ f.seen \in SUBSET {"started", "ended"}
      /\ f.ret \in Nat \cup Codes \cup Nodes \cup {NULL}
  BY <1>2 DEF Frame
<1>5. /\ pc'[t] = f.pc /\ op'[t] = f.op /\ ptr'[t] = f.ptr /\ ret'[t] = f.ret
      /\ \A u \in Threads : u # t => /\ pc'[u] = pc[u] /\ op'[u] = op[u] /\ arg'[u] = arg[u]
                                     /\ ptr'[u] = ptr[u] /\ ret'[u] = ret[u]
  BY <1>3 DEF TypeOK
<1>6. TypeOK'
  <2>1. pc' \in [Threads -> PcLabels] /\ op' \in [Threads -> AllOps]
    BY <1>3, <1>4 DEF TypeOK, PcLabels, Interrupted, AllOps, LookupOps, MtxOps
  <2>2. arg' \in [Threads -> Nat] /\ ptr' \in [Threads -> Nodes \cup {NULL}]
    BY <1>3, <1>4 DEF TypeOK
  <2>3. /\ seen' \in [Threads -> SUBSET {"started", "ended"}]
        /\ ret' \in [Threads -> Nat \cup Codes \cup Nodes \cup {NULL}]
    BY <1>3, <1>4 DEF TypeOK
  <2>4. QED BY <1>1, <2>1, <2>2, <2>3 DEF TypeOK, rwVars, treeVars, nodeVars, clientVars
<1>7. IdsBounded' /\ IdsAbove'
  BY <1>1 DEF IdsBounded, IdsAbove, treeVars, nodeVars
<1>8. RwInv'
  <2>1. \A u \in Threads : (HoldsWrite(u)' <=> HoldsWrite(u)) /\ (HoldsRead(u)' <=> HoldsRead(u))
    BY <1>1, <1>4, <1>5 DEF HoldsWrite, HoldsRead, Interrupted
  <2>2. QED BY <1>1, <2>1 DEF RwInv, RwBalanced, RwExclusive, rwVars
<1>9. NodesAccounted'
  <2>1. \A u \in Threads : Dying(u)' = Dying(u)
    BY <1>1, <1>4, <1>5 DEF Dying, Interrupted
  <2>2. QED BY <1>1, <2>1 DEF TreeInv, NodesAccounted, treeVars, nodeVars
<1>10. Ready' /\ Pending'
  <2>1. Ready'
    BY <1>1, <1>2 DEF Ready, treeVars
  <2>2. QED BY <1>1, <1>4, <1>5, <2>1 DEF TreeInv, Pending, treeVars, nodeVars, Interrupted
<1>11. IdsUnique' /\ MetaListsAll'
  BY <1>1 DEF TreeInv, IdsUnique, MetaListsAll, treeVars, nodeVars
<1>12. CallInv'
  <2>1. OpInv(t)'
    BY <1>4, <1>5 DEF OpInv, CreateLabels, RemoveLabels, LookupLabels, UseLabels, Interrupted,
       LookupOps, MtxOps, EventOps, DataOps
  <2>2. ResultInv(t)'
    BY <1>2, <1>4, <1>5, ConstantsAssumption DEF ResultInv, UseLabels, Interrupted, Phase, Acted
  <2>3. ASSUME NEW u \in Threads, u # t
        PROVE  OpInv(u)' /\ ResultInv(u)'
    <3>1. OpInv(u) /\ ResultInv(u) /\ tag_id' = tag_id
      BY <1>1 DEF CallInv, nodeVars
    <3>2. OpInv(u)'
      BY <1>5, <2>3, <3>1 DEF OpInv
    <3>3. ResultInv(u)'
      BY <1>5, <2>3, <3>1 DEF ResultInv, Phase, Acted
    <3>4. QED BY <3>2, <3>3
  <2>4. QED BY <2>1, <2>2, <2>3 DEF CallInv
<1>13. FrameInv'
  <2>1. frames' \in [Threads -> Seq(Frame)] /\ entering' \in [Threads -> BOOLEAN]
    BY <1>1, <1>3, LastAndFront DEF FrameInv
  <2>2. ASSUME NEW u \in Threads
        PROVE  /\ entering'[u] => pc'[u] \in Interrupted /\ op'[u] \in EventOps
               /\ frames'[u] # <<>> => inited'
               /\ \A k \in DOMAIN frames'[u] :
                     frames'[u][k].pc = "access" => frames'[u][k].ret = PLCTAG_STATUS_OK
    <3>1. inited'
      BY <1>1, <1>2 DEF treeVars
    <3>2. entering'[u] => pc'[u] \in Interrupted /\ op'[u] \in EventOps
      BY <1>1, <1>5 DEF FrameInv
    <3>3. \A k \in DOMAIN frames[u] :
             frames[u][k].pc = "access" => frames[u][k].ret = PLCTAG_STATUS_OK
      BY DEF FrameInv
    <3>4. frames'[u] = IF u = t THEN SubSeq(frames[t], 1, Len(frames[t]) - 1) ELSE frames[u]
      BY <1>3 DEF FrameInv
    <3>5. QED BY <1>1, <3>1, <3>2, <3>3, <3>4, LastAndFront
  <2>3. QED BY <2>1, <2>2 DEF FrameInv
<1>14. QED
  BY <1>6, <1>7, <1>8, <1>9, <1>10, <1>11, <1>12, <1>13 DEF TreeInv

(* The library's steps leave the calls that callbacks interrupted alone.   *)
LEMMA CbStepKeeps ==
    ASSUME CbRInv, NEW t \in Threads, CbStep(t)
    PROVE  CbRInv'
<1> USE DEF CbRInv, RInv, IInv
<1>1. /\ Step(t) /\ frames' = frames /\ ~ entering[t]
      /\ entering' = [entering EXCEPT ![t] = (seen'[t] # seen[t])]
  BY DEF CbStep
<1>2. RInv'
  BY <1>1, TypeStep, BoundedStep, RwStep, TreeStep, CallStep, AboveStep
<1>3. ASSUME NEW u \in Threads
      PROVE  /\ entering'[u] => pc'[u] \in Interrupted /\ op'[u] \in EventOps
             /\ frames[u] # <<>> => inited'
  <2>1. CASE u = t
    BY <1>1, <2>1, Delivers, InitedStays DEF FrameInv
  <2>2. CASE u # t
    BY <1>1, <2>2, OthersStay, InitedStays DEF FrameInv
  <2>3. QED BY <2>1, <2>2
<1>4. entering' \in [Threads -> BOOLEAN]
  BY <1>1, Zenon DEF FrameInv
<1>5. QED BY <1>1, <1>2, <1>3, <1>4 DEF FrameInv

(* So does the start of a call, from a callback or outside of any.        *)
LEMMA CbStartKeeps ==
    ASSUME CbRInv, NEW t \in Threads, NEW r \in Requests, CbStart(t, r[1], r[2])
    PROVE  CbRInv'
<1> USE DEF CbRInv, RInv, IInv
<1>1. Start(t, r[1], r[2]) /\ UNCHANGED <<entering, frames>> /\ ~ entering[t]
  BY DEF CbStart
<1>2. RInv'
  BY <1>1, StartKeeps, StartCall DEF Start, IdsAbove, treeVars, nodeVars
<1>3. inited' = inited /\ \A u \in Threads : u # t => pc'[u] = pc[u] /\ op'[u] = op[u]
  BY <1>1 DEF TypeOK, Start, Goto, treeVars
<1>4. QED BY <1>1, <1>2, <1>3 DEF FrameInv

(* What is known of calls without callbacks holds with them.               *)
LEMMA CbRStep ==
    ASSUME CbRInv, [CbNext]_cbVars
    PROVE  CbRInv'
<1>1. CASE UNCHANGED cbVars
  <2>1. RInv'
    BY <1>1, RStep DEF CbRInv, cbVars
  <2>2. FrameInv'
    BY <1>1 DEF CbRInv, FrameInv, cbVars, vars, callVars, treeVars
  <2>3. QED BY <2>1, <2>2 DEF CbRInv
<1>2. CASE CbNext
  BY <1>2, EnterKeeps, ResumeKeeps, CbStepKeeps, CbStartKeeps DEF CbNext
<1>3. QED BY <1>1, <1>2

(* Whatever calls callbacks make, at any depth, the tree keeps its         *)
(* invariants: a callback finds no lock of the tree held by its own call.  *)
THEOREM CbInductive == CbSpec => []CbRInv
<1>1. CbInit => CbRInv
  <2> SUFFICES ASSUME CbInit PROVE CbRInv
    OBVIOUS
  <2>1. RInv
    BY RInit DEF CbInit
  <2>2. <<>> \in Seq(Frame) /\ DOMAIN <<>> = {}
    OBVIOUS
  <2>3. FrameInv
    BY <2>2 DEF CbInit, FrameInv
  <2>4. QED BY <2>1, <2>3 DEF CbRInv
<1>2. QED BY <1>1, CbRStep, PTL DEF CbSpec

(* No callback, and no call made in one, unbalances tag_tree_mtx.          *)
THEOREM CbLockDiscipline == CbSpec => []RwBalanced
<1>1. CbRInv => RwBalanced
  BY DEF CbRInv, RInv, IInv, RwInv
<1>2. QED BY <1>1, CbInductive, PTL

(* None leaks a node, frees one twice or leaves a dangling one in the tree.*)
THEOREM CbNoLeakNoDoubleFree == CbSpec => []NodesAccounted
<1>1. CbRInv => NodesAccounted
  BY DEF CbRInv, RInv, IInv, TreeInv
<1>2. QED BY <1>1, CbInductive, PTL

-----------------------------------------------------------------------------
(* Clients that take mutexes in the order of ids.  A thread's interrupted  *)
(* calls have a tag each, none of them locked by the client, and the       *)
(* thread has its mutex.                                                   *)
FrameUse(t) == \A k \in DOMAIN frames[t] :
    /\ <<frames[t][k].op, frames[t][k].arg>> \in Requests
    /\ frames[t][k].arg \notin held[t]
    /\ frames[t][k].ptr \in tree
    /\ tag_id[frames[t][k].ptr] = frames[t][k].arg
    /\ mtx[frames[t][k].ptr] = t

(* No two of them have the same tag, ...                                   *)
Distinct(t) == \A k, l \in DOMAIN frames[t] : frames[t][k].arg = frames[t][l].arg => k = l

(* ... and the call in progress has another one, or has made a new one.    *)
Apart(t) == \A k \in DOMAIN frames[t] :
    /\ pc[t] # "idle" /\ op[t] \notin MtxFree => arg[t] # frames[t][k].arg
    /\ pc[t] = "tag_unlock" => ptr[t] # frames[t][k].ptr

OrderInv == \A t \in Threads : FrameUse(t) /\ Distinct(t) /\ Apart(t)

CbUseInv == CbRInv /\ UseInv /\ OrderInv

(* The tag of an interrupted call is one that clients name.                *)
LEMMA FrameTag ==
    ASSUME CbUseInv, NEW t \in Threads, NEW k \in DOMAIN frames[t]
    PROVE  frames[t][k] \in Frame /\ frames[t][k].arg \in Ids
<1>1. frames[t][k] \in Frame
  BY DEF CbUseInv, CbRInv, FrameInv
<1>2. frames[t][k].op \notin CreateOps
  BY <1>1 DEF Frame, EventOps, DataOps, CreateOps
<1>3. <<frames[t][k].op, frames[t][k].arg>> \in Requests
  BY DEF CbUseInv, OrderInv, FrameUse
<1>4. QED BY <1>1, <1>2, <1>3 DEF Requests

(* What a step of t does to the tags t has locked.                         *)
LEMMA HeldEffect ==
    ASSUME TypeOK, NEW t \in Threads, Step(t)
    PROVE  \A i \in held'[t] : i \in held[t] \/ (i = arg[t] /\ op[t] = "lock")
<1>1. CASE MtxLock(t) \/ MtxUnlock(t)
  BY <1>1, SMTT(30) DEF MtxLock, MtxUnlock, TypeOK
<1>2. CASE ~ MtxLock(t) /\ ~ MtxUnlock(t)
  <2>1. held' = held
    BY <1>2, SMTT(60) DEF Step, InitRdlock, InitCheck, InitWrlock, InitBody, InsertLock,
    NodeCreate, MetaDrop, TagLock, TagUnlock, MetaCreate, MetaFill, Finish, EarlyReturn,
    RemoveLock, RemoveFind, RemoveMtx, RemoveUnlink, RemoveUnlock, RemoveDestroy, LookupLock,
    LookupFind, LookupUnlock, Started, Access, SetCb, GetSize, clientVars
  <2>2. QED BY <2>1
<1>3. QED BY <1>1, <1>2

(* A step of any thread, be it of a call made in the callback, leaves the  *)
(* tag of an interrupted call where it is and its mutex locked.            *)
LEMMA FrameUseStep ==
    ASSUME CbUseInv, NothingFreed, NEW t \in Threads, CbStep(t), NEW u \in Threads
    PROVE  FrameUse(u)'
<1> USE DEF CbUseInv, CbRInv, RInv, IInv
<1>1. Step(t) /\ frames' = frames
  BY DEF CbStep
<1> SUFFICES ASSUME NEW k \in DOMAIN frames[u]
             PROVE  /\ frames[u][k].arg \notin held'[u]
                    /\ frames[u][k].ptr \in tree'
                    /\ tag_id'[frames[u][k].ptr] = frames[u][k].arg
                    /\ mtx'[frames[u][k].ptr] = u
  BY <1>1 DEF OrderInv, FrameUse
<1> DEFINE n == frames[u][k].ptr
           i == frames[u][k].arg
<1>2. n \in tree /\ tag_id[n] = i /\ mtx[n] = u /\ i \notin held[u] /\ i \in Ids
  BY FrameTag DEF OrderInv, FrameUse
<1>3. Asked(t) /\ pc[t] # "idle" /\ Apart(t)
  BY <1>1, InCall DEF UseInv, OrderInv
<1>4. n \in tree' /\ tag_id'[n] = i
  BY <1>1, <1>2, <1>3, NodesStay
<1>5. CASE u # t
  <2>1. mtx'[n] = u
    BY <1>1, <1>2, <1>5, OthersKeepMtx
  <2>2. held'[u] = held[u]
    BY <1>1, <1>5, OthersStay
  <2>3. QED BY <1>2, <1>4, <2>1, <2>2
<1>6. CASE u = t
  <2>1. pc[t] = "mtx_unlock" => n # ptr[t]
    <3>1. pc[t] = "mtx_unlock" => tag_id[ptr[t]] = arg[t]
      BY DEF UseInv, Good, Found, UseLabels
    <3>2. pc[t] = "mtx_unlock" => op[t] \notin MtxFree
      BY DEF CallInv, OpInv, MtxFree, MtxOps, EventOps, DataOps, CbOps, CreateOps
    <3>3. QED BY <1>2, <1>3, <1>6, <3>1, <3>2 DEF Apart
  <2>2. pc[t] = "tag_unlock" => n # ptr[t]
    BY <1>3, <1>6 DEF Apart
  <2>3. mtx'[n] = t
    BY <1>1, <1>2, <1>6, <2>1, <2>2, MtxEffect, ConstantsAssumption
  <2>4. op[t] = "lock" => i # arg[t]
    BY <1>3, <1>6 DEF Apart, MtxFree, CreateOps
  <2>5. i \notin held'[t]
    BY <1>1, <1>2, <1>6, <2>4, HeldEffect
  <2>6. QED BY <1>4, <1>6, <2>3, <2>5
<1>7. QED BY <1>5, <1>6

(* And the call in progress stays apart from those interrupted: a tag that *)
(* it creates is fresh.                                                    *)
LEMMA ApartStep ==
    ASSUME CbUseInv, NEW t \in Threads, CbStep(t), NEW u \in Threads
    PROVE  Apart(u)'
<1> USE DEF CbUseInv, CbRInv, RInv, IInv
<1>1. Step(t) /\ frames' = frames /\ Apart(u)
  BY DEF CbStep, OrderInv
<1>2. CASE u # t
  <2>1. pc'[u] = pc[u] /\ op'[u] = op[u] /\ arg'[u] = arg[u] /\ ptr'[u] = ptr[u]
    BY <1>1, <1>2, OthersStay
  <2>2. QED BY <1>1, <2>1 DEF Apart
<1>3. CASE u = t
  <2>1. op' = op /\ arg' = arg /\ pc[t] # "idle"
    BY <1>1, MapStep, InCall
  <2>2. pc'[t] = "tag_unlock" => TagLock(t)
    BY <1>1, SMTT(60) DEF Step, InitRdlock, InitCheck, InitWrlock, InitBody, InsertLock,
    NodeCreate, Invalidate, MetaDrop, TagUnlock, MetaCreate, MetaFill, Finish, EarlyReturn,
    RemoveLock, RemoveFind, RemoveMtx, RemoveUnlink, RemoveUnlock, RemoveDestroy, LookupLock,
    LookupFind, LookupUnlock, MtxLock, Started, Access, SetCb, GetSize, MtxUnlock, Return,
    Goto, TypeOK, AfterInit
  <2>3. ASSUME NEW k \in DOMAIN frames[t], TagLock(t)
        PROVE  ptr'[t] # frames[t][k].ptr
    <3>1. mtx[frames[t][k].ptr] = t
      BY DEF OrderInv, FrameUse
    <3>2. ptr' = ptr /\ mtx[ptr[t]] = NULL
      BY <2>3 DEF TagLock, MTX_LOCK
    <3>3. QED BY <3>1, <3>2, ConstantsAssumption
  <2>4. QED BY <1>1, <1>3, <2>1, <2>2, <2>3 DEF Apart
<1>4. QED BY <1>2, <1>3

(* A callback begins: the interrupted call keeps the tag's mutex.          *)
LEMMA EnterUse ==
    ASSUME CbUseInv, NEW t \in Threads, Enter(t)
    PROVE  UseInv' /\ OrderInv'
<1> USE DEF CbUseInv, CbRInv, RInv, IInv
<1> DEFINE e == [pc |-> pc[t], op |-> op[t], arg |-> arg[t], ptr |-> ptr[t],
                 seen |-> seen[t], ret |-> ret[t]]
<1>1. /\ pc[t] \in Interrupted /\ op[t] \in EventOps
      /\ UNCHANGED <<tree, tag_id, mtx, op, arg, held>>
      /\ pc'[t] = "idle"
      /\ \A u \in Threads : u # t => pc'[u] = pc[u] /\ ptr'[u] = ptr[u]
      /\ frames' = [frames EXCEPT ![t] = Append(frames[t], e)]
  BY DEF FrameInv, Enter, Return, Goto, TypeOK, treeVars, nodeVars, callVars, clientVars
<1>2. UseInv'
  <2>1. \A u \in Threads : HeldInv(u)'
    BY <1>1 DEF UseInv, HeldInv
  <2>2. Asked(t)' /\ Good(t)' /\ InsideInv(t)'
    BY <1>1 DEF Asked, Good, Found, Making, InsideInv, HasMtx, Inside, UseLabels
  <2>3. \A u \in Threads : u # t => Asked(u)' /\ Good(u)' /\ InsideInv(u)'
    BY <1>1 DEF UseInv, Asked, Careful, Good, Found, Making, InsideInv, HasMtx, Inside
  <2>4. QED BY <2>1, <2>2, <2>3 DEF UseInv
<1>3. e \in Frame
  <2>1. ptr[t] # NULL
    BY <1>1 DEF CallInv, ResultInv, UseLabels, Interrupted
  <2>2. QED BY <1>1, <2>1 DEF Frame, TypeOK
<1>4. e.op = op[t] /\ e.arg = arg[t] /\ e.ptr = ptr[t]
  OBVIOUS
<1> HIDE DEF e
<1>5. /\ frames[t] \in Seq(Frame) /\ frames'[t] = Append(frames[t], e)
      /\ \A u \in Threads : u # t => frames'[u] = frames[u]
  BY <1>1 DEF FrameInv
<1>6. op[t] \notin MtxFree
  BY <1>1 DEF MtxFree, EventOps, DataOps, CreateOps
<1>7. FrameUse(t)'
  <2>1. /\ <<op[t], arg[t]>> \in Requests /\ arg[t] \notin held[t]
        /\ ptr[t] \in tree /\ tag_id[ptr[t]] = arg[t] /\ mtx[ptr[t]] = t
    BY <1>1, <1>6 DEF UseInv, Asked, Careful, Good, Found, InsideInv, HasMtx, Inside, UseLabels,
       Interrupted, EventOps, DataOps
  <2>2. FrameUse(t)
    BY DEF OrderInv
  <2>3. \A k \in DOMAIN frames'[t] :
           frames'[t][k] = e \/ (k \in DOMAIN frames[t] /\ frames'[t][k] = frames[t][k])
    BY <1>3, <1>5, Appended
  <2>4. QED BY <1>1, <1>4, <2>1, <2>2, <2>3 DEF FrameUse
<1>8. Distinct(t)'
  <2>1. Distinct(t) /\ \A k \in DOMAIN frames[t] : arg[t] # frames[t][k].arg
    BY <1>1, <1>6 DEF OrderInv, Apart, Interrupted
  <2>2. QED BY <1>3, <1>4, <1>5, <2>1, Appended DEF Distinct
<1>9. Apart(t)'
  BY <1>1 DEF Apart
<1>10. ASSUME NEW u \in Threads, u # t
       PROVE  FrameUse(u)' /\ Distinct(u)' /\ Apart(u)'
  <2>1. FrameUse(u) /\ Distinct(u) /\ Apart(u)
    BY <1>10, Zenon DEF CbUseInv, OrderInv
  <2>2. /\ frames'[u] = frames[u] /\ pc'[u] = pc[u] /\ ptr'[u] = ptr[u]
        /\ UNCHANGED <<tree, tag_id, mtx, op, arg, held>>
    BY <1>1, <1>5, <1>10, Zenon
  <2>3. FrameUse(u)'
    BY <2>1, <2>2, Zenon DEF FrameUse
  <2>4. Distinct(u)'
    BY <2>1, <2>2, Zenon DEF Distinct
  <2>5. Apart(u)'
    BY <2>1, <2>2, Zenon DEF Apart
  <2>6. QED BY <2>3, <2>4, <2>5
<1>11. QED BY <1>2, <1>7, <1>8, <1>9, <1>10 DEF OrderInv

(* It returns: the interrupted call finds its tag as it was.               *)
LEMMA ResumeUse ==
    ASSUME CbUseInv, NEW t \in Threads, Resume(t)
    PROVE  UseInv' /\ OrderInv'
<1> USE DEF CbUseInv, CbRInv, RInv, IInv
<1> DEFINE f == frames[t][Len(frames[t])]
           rest == SubSeq(frames[t], 1, Len(frames[t]) - 1)
<1>1. frames[t] \in Seq(Frame) /\ frames[t] # <<>>
  BY DEF FrameInv, Resume
<1>2. /\ UNCHANGED <<tree, tag_id, mtx, held>>
      /\ pc'[t] = f.pc /\ op'[t] = f.op /\ arg'[t] = f.arg /\ ptr'[t] = f.ptr
      /\ \A u \in Threads : u # t => /\ pc'[u] = pc[u] /\ op'[u] = op[u] /\ arg'[u] = arg[u]
                                     /\ ptr'[u] = ptr[u] /\ frames'[u] = frames[u]
      /\ frames'[t] = rest
  BY DEF Resume, TypeOK, FrameInv, treeVars, nodeVars, clientVars
<1>3. /\ Len(frames[t]) \in DOMAIN frames[t] /\ f \in Frame
      /\ \A k \in DOMAIN rest :
            k \in DOMAIN frames[t] /\ k # Len(frames[t]) /\ rest[k] = frames[t][k]
  BY <1>1, LastAndFront
<1> HIDE DEF rest
<1>4. FrameUse(t) /\ Distinct(t)
  BY DEF OrderInv
<1>5. /\ <<f.op, f.arg>> \in Requests /\ f.arg \notin held[t]
      /\ f.ptr \in tree /\ tag_id[f.ptr] = f.arg /\ mtx[f.ptr] = t
  BY <1>3, <1>4 DEF FrameUse
<1>6. \A k \in DOMAIN rest : f.arg # rest[k].arg
  BY <1>3, <1>4 DEF Distinct
<1> HIDE DEF f
<1>7. f.pc \in Interrupted /\ f.op \in EventOps
  BY <1>3 DEF Frame
<1>8. UseInv'
  <2>1. \A u \in Threads : HeldInv(u)'
    BY <1>2 DEF UseInv, HeldInv
  <2>2. Asked(t)'
    BY <1>2, <1>5, <1>7 DEF Asked, Careful, EventOps, DataOps
  <2>3. Good(t)' /\ InsideInv(t)'
    BY <1>2, <1>5, <1>7 DEF Good, Found, Making, InsideInv, HasMtx, Inside, UseLabels,
       Interrupted
  <2>4. \A u \in Threads : u # t => Asked(u)' /\ Good(u)' /\ InsideInv(u)'
    BY <1>2 DEF UseInv, Asked, Careful, Good, Found, Making, InsideInv, HasMtx, Inside
  <2>5. QED BY <2>1, <2>2, <2>3, <2>4 DEF UseInv
<1>9. FrameUse(t)' /\ Distinct(t)'
  BY <1>2, <1>3, <1>4 DEF FrameUse, Distinct
<1>10. Apart(t)'
  BY <1>2, <1>6, <1>7 DEF Apart, Interrupted
<1>11. ASSUME NEW u \in Threads, u # t
       PROVE  FrameUse(u)' /\ Distinct(u)' /\ Apart(u)'
  BY <1>2, <1>11 DEF OrderInv, FrameUse, Distinct, Apart
<1>12. QED BY <1>8, <1>9, <1>10, <1>11 DEF OrderInv

(* An ordered client's call is on a tag above all those it has around it.  *)
LEMMA OrderedStartUse ==
    ASSUME CbUseInv, NEW t \in Threads, OrderedStart(t)
    PROVE  UseInv' /\ OrderInv'
<1> USE DEF CbUseInv, CbRInv, RInv, IInv
<1>1. PICK r \in Requests : Ordered(t, r[1], r[2]) /\ CbStart(t, r[1], r[2])
  BY DEF OrderedStart
<1>2. Start(t, r[1], r[2]) /\ frames' = frames
  BY <1>1 DEF CbStart
<1>3. /\ pc'[t] \in {"early_return", "init_rdlock"} /\ op'[t] = r[1] /\ arg'[t] = r[2]
      /\ \A u \in Threads : u # t => pc'[u] = pc[u] /\ op'[u] = op[u] /\ arg'[u] = arg[u]
      /\ UNCHANGED <<tree, tag_id, mtx, ptr, held>>
  BY <1>2 DEF Start, Goto, TypeOK, treeVars, nodeVars
<1>4. r[2] \in Nat
  <2>1. r[2] \in Ids \cup {0}
    BY DEF Requests
  <2>2. Ids \subseteq Nat
    BY ConstantsAssumption
  <2>3. Ids \cup {0} \subseteq Nat
    BY <2>2
  <2>4. QED BY <2>1, <2>3, Zenon
<1>5. r[1] \in MtxFree \/ r[1] = "unlock" \/ \A j \in Around(t) : j < r[2]
  BY <1>1 DEF Ordered, MtxFree
<1>6. r[1] \in MtxFree \/ Careful(t, r[1], r[2])
  BY <1>1, <1>4, <1>5 DEF Ordered, Around, Careful
<1>7. UseInv'
  BY <1>2, <1>6, CarefulStartKeeps
<1>8. r[1] \notin MtxFree => \A k \in DOMAIN frames[t] : r[2] # frames[t][k].arg
  <2>1. CASE r[1] = "unlock"
    BY <1>1, <2>1 DEF Ordered, OrderInv, FrameUse
  <2>2. CASE \A j \in Around(t) : j < r[2]
    BY <1>4, <2>2 DEF Around
  <2>3. QED BY <1>5, <2>1, <2>2
<1>9. Apart(t)'
  BY <1>2, <1>3, <1>8 DEF Apart
<1>10. \A u \in Threads : u # t => Apart(u)'
  BY <1>2, <1>3 DEF OrderInv, Apart
<1>11. \A u \in Threads : FrameUse(u)' /\ Distinct(u)'
  BY <1>2, <1>3 DEF OrderInv, FrameUse, Distinct
<1>12. QED BY <1>7, <1>9, <1>10, <1>11 DEF OrderInv

(* What ordered clients know of the calls their callbacks interrupt is     *)
(* inductive, ...                                                          *)
THEOREM CbUseInductive == NothingFreed => (OrderedSpec => []CbUseInv)
<1> SUFFICES ASSUME NothingFreed PROVE OrderedSpec => []CbUseInv
  OBVIOUS
<1>1. CbInit => UseInv /\ OrderInv
  BY UseInit DEF CbInit, OrderInv, FrameUse, Distinct, Apart
<1>2. ASSUME CbUseInv, [OrderedNext]_cbVars
      PROVE  UseInv' /\ OrderInv'
  <2>1. ASSUME NEW t \in Threads, CbStep(t)
        PROVE  UseInv' /\ OrderInv'
    <3>1. UseInv'
      BY <1>2, <2>1, AskedStep, GoodStep, InsideStep, HeldStep
         DEF CbStep, CbUseInv, CbRInv, RInv, IInv, UseInv
    <3>2. \A u \in Threads : FrameUse(u)' /\ Apart(u)'
      BY <1>2, <2>1, FrameUseStep, ApartStep
    <3>3. \A u \in Threads : Distinct(u)'
      BY <1>2, <2>1 DEF CbStep, CbUseInv, OrderInv, Distinct
    <3>4. QED BY <3>1, <3>2, <3>3 DEF OrderInv
  <2>2. ASSUME NEW t \in Threads, Enter(t) \/ Resume(t) \/ OrderedStart(t)
        PROVE  UseInv' /\ OrderInv'
    BY <1>2, <2>2, EnterUse, ResumeUse, OrderedStartUse
  <2>3. CASE UNCHANGED cbVars
    <3>1. UseInv'
      BY <1>2, <2>3, UseStutter DEF CbUseInv, cbVars
    <3>2. OrderInv'
      BY <1>2, <2>3 DEF CbUseInv, OrderInv, FrameUse, Distinct, Apart, cbVars, vars, treeVars,
         nodeVars, callVars, clientVars
    <3>3. QED BY <3>1, <3>2
  <2>4. QED BY <1>2, <2>1, <2>2, <2>3 DEF OrderedNext
<1>3. [OrderedNext]_cbVars => [CbNext]_cbVars
  BY DEF OrderedNext, OrderedStart, CbNext
<1>4. OrderedSpec => CbSpec
  BY <1>3, PTL DEF OrderedSpec, CbSpec
<1>5. QED BY <1>1, <1>2, <1>4, CbInductive, PTL DEF OrderedSpec, CbUseInv

(* ... and so while a callback runs its tag is its caller's, whatever      *)
(* calls it makes on tags above it, and however deep they nest.            *)
THEOREM CallbackOwns == NothingFreed => (OrderedSpec => []CallbackOwnsTag)
<1> SUFFICES ASSUME NothingFreed PROVE OrderedSpec => []CallbackOwnsTag
  OBVIOUS
<1>1. ASSUME CbUseInv
      PROVE  CallbackOwnsTag
  <2> USE <1>1 DEF CbUseInv, CbRInv, RInv, IInv
  <2>1. ASSUME NEW t \in Threads, NEW k \in DOMAIN frames[t]
        PROVE  /\ frames[t][k].ptr \in tree /\ frames[t][k].ptr \in alloc
               /\ tag_id[frames[t][k].ptr] = frames[t][k].arg
               /\ mtx[frames[t][k].ptr] = t
    BY Accounted DEF OrderInv, FrameUse, TreeInv
  <2>2. ASSUME NEW u \in Threads, NEW i, Owns(u, i)
        PROVE  \E n \in tree : tag_id[n] = i /\ mtx[n] = u
    BY <2>2 DEF Owns, UseInv, HeldInv, InsideInv, HasMtx, Good, Found, Inside, UseLabels
  <2>3. ASSUME NEW m \in tree, NEW n \in tree, tag_id[m] = tag_id[n]
        PROVE  m = n
    BY <2>3 DEF TreeInv, IdsUnique
  <2>4. ASSUME NEW t \in Threads, NEW k \in DOMAIN frames[t], NEW u \in Threads \ {t}
        PROVE  /\ ~ Owns(u, frames[t][k].arg)
               /\ \A l \in DOMAIN frames[u] : frames[u][l].arg # frames[t][k].arg
    BY <2>1, <2>2, <2>3
  <2>5. QED BY <2>1, <2>4 DEF CallbackOwnsTag
<1>2. QED BY <1>1, CbUseInductive, PTL

=============================================================================
