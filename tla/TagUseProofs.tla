----------------------------- MODULE TagUseProofs -----------------------------
(***************************************************************************)
(* Proofs about the use of single tags: first for clients that block on no *)
(* mutex of their own and cause no tag in use to be freed, then for any    *)
(* clients that do not call plc_tag_unlock.                                *)
(***************************************************************************)
EXTENDS TagTreeProofs

(* The clients destroy nothing; and if they use the metatag, which every   *)
(* creation frees, then they create nothing either.                        *)
NothingFreed ==
    /\ "destroy" \notin Ops
    /\ METATAG_ID \notin Ids \/ Ops \cap CreateOps = {}

(* Thread t has the pointer its lookup returned, and is still to use it.   *)
Found(t) == pc[t] \in UseLabels \/ (pc[t] = "lookup_unlock" /\ ptr[t] # NULL)

(* Thread t has linked a new tag, and is still to initialise it.           *)
Making(t) == pc[t] \in {"tag_lock", "tag_unlock"} \/ (pc[t] = "meta_drop" /\ op[t] = "create")

(* Thread t has the mutex of the tag its call is about.                    *)
HasMtx(t) == Inside(t) \/ pc[t] = "tag_unlock"

(* The calls that take no mutex a client could have locked.                *)
MtxFree == CreateOps \cup {"status"}

(* A call in progress is one the client may make.                          *)
Asked(t) == pc[t] # "idle" =>
    /\ <<op[t], arg[t]>> \in Requests
    /\ op[t] \in MtxFree \/ Careful(t, op[t], arg[t])

(* The pointer from the lookup denotes the tag that was asked for, that of *)
(* a creation the new tag.                                                 *)
Good(t) ==
    /\ Found(t) => ptr[t] \in tree /\ tag_id[ptr[t]] = arg[t]
    /\ Making(t) => ptr[t] \in tree

(* Inside a call the thread has the tag's mutex; a tag it created and is   *)
(* initialising is none that it locked.                                    *)
InsideInv(t) ==
    /\ HasMtx(t) => mtx[ptr[t]] = t
    /\ pc[t] = "tag_unlock" => tag_id[ptr[t]] \notin held[t]

(* The tags a thread has locked exist, and it has their mutexes.           *)
HeldInv(t) == \A i \in held[t] : i \in Ids /\ \E n \in tree : tag_id[n] = i /\ mtx[n] = t

UseInv == \A t \in Threads : Asked(t) /\ Good(t) /\ InsideInv(t) /\ HeldInv(t)

-----------------------------------------------------------------------------
(* A call that names a tag names one of Ids, and is none that frees.       *)
LEMMA Permitted ==
    ASSUME NothingFreed, NEW t \in Threads, Asked(t), pc[t] # "idle"
    PROVE  /\ op[t] # "destroy"
           /\ op[t] \notin CreateOps => arg[t] \in Ids
           /\ op[t] \in CreateOps => METATAG_ID \notin Ids
<1>1. <<op[t], arg[t]>> \in ((Ops \ CreateOps) \X Ids) \cup ((Ops \cap CreateOps) \X {0})
  BY DEF Asked, Requests
<1>2. op[t] \in Ops /\ (op[t] \notin CreateOps => arg[t] \in Ids)
  BY <1>1
<1>3. QED BY <1>2 DEF NothingFreed

(* So the tags that clients can name stay where they are.                  *)
LEMMA NodesStay ==
    ASSUME RInv, NothingFreed, NEW t \in Threads, Asked(t), Step(t),
           NEW n \in tree, tag_id[n] \in Ids
    PROVE  n \in tree' /\ tag_id'[n] = tag_id[n]
<1> USE DEF RInv, IInv
<1>1. OpInv(t) /\ n \in Nodes /\ n \in alloc
  BY Accounted DEF CallInv, TypeOK, TreeInv
<1>2. ASSUME NEW m \in Nodes \ alloc, LinkMetanode(m), \A k \in tree : tag_id[k] # METATAG_ID
      PROVE  n \in tree' /\ tag_id'[n] = tag_id[n]
  BY <1>1, <1>2, LinkMetanodeEffect DEF TypeOK
<1>3. CASE InitBody(t)
  BY <1>3, InitBodyEffect
<1>4. CASE NodeCreate(t)
  <2>1. op[t] \in CreateOps /\ pc[t] # "idle"
    BY <1>1, <1>4 DEF NodeCreate, OpInv, CreateLabels
  <2>2. tag_id[n] # METATAG_ID
    BY <2>1, Permitted
  <2>3. PICK m \in Nodes \ alloc :
           /\ tag_id' = [tag_id EXCEPT ![m] = NextId]
           /\ tree' = {k \in tree : tag_id[k] # METATAG_ID} \cup {m}
    BY <1>4, NodeCreateEffect
  <2>4. QED BY <1>1, <2>2, <2>3 DEF TypeOK
<1>5. CASE MetaCreate(t)
  <2>1. op[t] \in CreateOps /\ pc[t] # "idle"
    BY <1>1, <1>5 DEF MetaCreate, OpInv, CreateLabels
  <2>2. tag_id[n] # METATAG_ID
    BY <2>1, Permitted
  <2>3. QED BY <1>5, <2>2, MetaCreateEffect
<1>6. CASE RemoveUnlink(t)
  BY <1>1, <1>6, Permitted DEF RemoveUnlink, OpInv, RemoveLabels
<1>7. CASE MetaFill(t) \/ LookupFind(t)
  BY <1>2, <1>7, MetaFillEffect, LookupFindEffect
<1>8. CASE MetaDrop(t) \/ RemoveDestroy(t)
  BY <1>8, DropEffect
<1>9. CASE ~ TreeSteps(t)
  BY <1>9, TreeUntouched
<1>10. QED BY <1>3, <1>4, <1>5, <1>6, <1>7, <1>8, <1>9 DEF TreeSteps

(* A thread that unlocks a tag's mutex has it: even plc_tag_unlock, which  *)
(* looks the tag up afresh.                                                *)
LEMMA UnlocksOwn ==
    ASSUME TypeOK, TreeInv, CallInv, UseInv, NEW t \in Threads,
           pc[t] \in {"mtx_unlock", "tag_unlock"}
    PROVE  mtx[ptr[t]] = t
<1>1. CASE HasMtx(t)
  BY <1>1 DEF UseInv, InsideInv
<1>2. CASE pc[t] = "mtx_unlock" /\ op[t] = "unlock"
  <2>1. arg[t] \in held[t]
    BY <1>2 DEF UseInv, Asked, Careful, MtxFree, CreateOps
  <2>2. PICK n \in tree : tag_id[n] = arg[t] /\ mtx[n] = t
    BY <2>1 DEF UseInv, HeldInv
  <2>3. ptr[t] \in tree /\ tag_id[ptr[t]] = arg[t]
    BY <1>2 DEF UseInv, Good, Found, UseLabels
  <2>4. QED BY <2>2, <2>3 DEF TreeInv, IdsUnique
<1>3. QED BY <1>1, <1>2 DEF HasMtx, Inside

(* What a step of t does to the mutex of a node of the tree: nothing, or   *)
(* lock it when it is free, or unlock the tag of its call, which it has.   *)
LEMMA MtxEffect ==
    ASSUME RInv, UseInv, NothingFreed, NEW t \in Threads, Step(t), NEW n \in tree
    PROVE  \/ mtx'[n] = mtx[n]
           \/ mtx[n] = NULL /\ mtx'[n] = t
           \/ pc[t] \in {"mtx_unlock", "tag_unlock"} /\ n = ptr[t] /\ mtx[n] = t
<1> USE DEF RInv, IInv
<1>1. n \in Nodes /\ n \in alloc
  BY Accounted DEF TypeOK, TreeInv
<1>2. CASE InitBody(t)
  BY <1>2, InitBodyEffect
<1>3. CASE NodeCreate(t)
  <2>1. PICK m \in Nodes \ alloc : mtx' = [mtx EXCEPT ![m] = NULL]
    BY <1>3, NodeCreateEffect
  <2>2. QED BY <1>1, <2>1 DEF TypeOK
<1>4. CASE MetaFill(t) \/ LookupFind(t)
  <2>1. mtx' = mtx \/ \E m \in Nodes \ alloc : mtx' = [mtx EXCEPT ![m] = NULL]
    BY <1>4, MetaFillEffect, LookupFindEffect, LinkMetanodeEffect
  <2>2. QED BY <1>1, <2>1 DEF TypeOK
<1>5. CASE MetaDrop(t) \/ RemoveDestroy(t) \/ TagLock(t) \/ RemoveMtx(t) \/ MtxLock(t)
  <2>1. \E m : MTX_LOCK(t, m)
    BY <1>5 DEF MetaDrop, RemoveDestroy, NodeDestroy, TagLock, RemoveMtx, MtxLock
  <2>2. QED BY <1>1, <2>1 DEF MTX_LOCK, TypeOK
<1>6. CASE MtxUnlock(t) \/ TagUnlock(t)
  <2>1. pc[t] \in {"mtx_unlock", "tag_unlock"} /\ MTX_UNLOCK(ptr[t])
    BY <1>6 DEF MtxUnlock, TagUnlock
  <2>2. mtx[ptr[t]] = t
    BY <2>1, UnlocksOwn
  <2>3. QED BY <1>1, <2>1, <2>2 DEF MTX_UNLOCK, TypeOK
<1>7. CASE RemoveUnlock(t)
  BY <1>7, Permitted DEF RemoveUnlock, CallInv, OpInv, RemoveLabels, UseInv
<1>8. CASE MetaCreate(t) \/ RemoveUnlink(t)
  BY <1>8, MetaCreateEffect, RemoveUnlinkEffect
<1>9. CASE \/ InitRdlock(t) \/ InitCheck(t) \/ InitWrlock(t) \/ InsertLock(t) \/ Finish(t)
           \/ EarlyReturn(t) \/ RemoveLock(t) \/ RemoveFind(t) \/ LookupLock(t)
           \/ LookupUnlock(t) \/ Started(t) \/ Access(t) \/ SetCb(t) \/ GetSize(t)
  BY <1>9, SMTT(30) DEF InitRdlock, InitCheck, InitWrlock, InsertLock, Finish, EarlyReturn,
     RemoveLock, RemoveFind, LookupLock, LookupUnlock, Started, Access, SetCb, GetSize
<1>10. QED BY <1>2, <1>3, <1>4, <1>5, <1>6, <1>7, <1>8, <1>9 DEF Step

(* A lock that another thread holds on a tag outlasts a step of t.         *)
LEMMA OthersKeepMtx ==
    ASSUME RInv, UseInv, NothingFreed, NEW t \in Threads, Step(t),
           NEW u \in Threads, u # t, NEW n \in tree, mtx[n] = u
    PROVE  mtx'[n] = u
BY MtxEffect, ConstantsAssumption

-----------------------------------------------------------------------------
(* A step of the library is a step of a call.                              *)
LEMMA InCall ==
    ASSUME NEW t \in Threads, Step(t)
    PROVE  pc[t] # "idle"
BY SMTT(60) DEF Step, InitRdlock, InitCheck, InitWrlock, InitBody, InsertLock,
  NodeCreate, MetaDrop, TagLock, TagUnlock, MetaCreate, MetaFill, Finish, EarlyReturn,
  RemoveLock, RemoveFind, RemoveMtx, RemoveUnlink, RemoveUnlock, RemoveDestroy, LookupLock,
  LookupFind, LookupUnlock, MtxLock, Started, Access, SetCb, GetSize, MtxUnlock

(* The invariant, step by step: what calls are in progress, ...            *)
LEMMA AskedStep ==
    ASSUME TypeOK, NEW t \in Threads, Step(t), \A u \in Threads : Asked(u)
    PROVE  \A u \in Threads : Asked(u)'
<1>1. ASSUME NEW u \in Threads, u # t
      PROVE  Asked(u)'
  BY <1>1, OthersStay DEF Asked, Careful
<1>2. Asked(t)'
  <2>1. op' = op /\ arg' = arg
    BY MapStep
  <2>2. pc[t] # "idle"
    BY InCall
  <2>3. pc'[t] = "idle" \/ held'[t] = held[t]
    BY SMTT(60) DEF Step, InitRdlock, InitCheck, InitWrlock, InitBody, InsertLock,
      NodeCreate, MetaDrop, TagLock, TagUnlock, MetaCreate, MetaFill, Finish, EarlyReturn,
      RemoveLock, RemoveFind, RemoveMtx, RemoveUnlink, RemoveUnlock, RemoveDestroy, LookupLock,
      LookupFind, LookupUnlock, MtxLock, Started, Access, SetCb, GetSize, MtxUnlock,
      Return, Goto, TypeOK, clientVars
  <2>4. QED BY <2>1, <2>2, <2>3 DEF Asked, Careful
<1>3. QED BY <1>1, <1>2

(* ... what their pointers denote, ...                                     *)
LEMMA GoodStep ==
    ASSUME RInv, UseInv, NothingFreed, NEW t \in Threads, Step(t)
    PROVE  \A u \in Threads : Good(u)'
<1> USE DEF RInv, IInv
<1>1. ASSUME NEW u \in Threads, Found(u)
      PROVE  ptr[u] \in tree' /\ tag_id'[ptr[u]] = arg[u]
  <2>1. OpInv(u) /\ Asked(u)
    BY DEF CallInv, UseInv
  <2>2. pc[u] # "idle" /\ op[u] \notin CreateOps
    BY <1>1, <2>1 DEF Found, UseLabels, LookupLabels, OpInv, LookupOps, MtxOps, EventOps,
       DataOps, CbOps, CreateOps
  <2>3. arg[u] \in Ids
    BY <2>1, <2>2, Permitted
  <2>4. ptr[u] \in tree /\ tag_id[ptr[u]] = arg[u]
    BY <1>1 DEF UseInv, Good
  <2>5. Asked(t)
    BY DEF UseInv
  <2>6. QED BY <2>3, <2>4, <2>5, NodesStay
<1>2. ASSUME NEW u \in Threads, u # t
      PROVE  Good(u)'
  <2>1. /\ pc'[u] = pc[u] /\ op'[u] = op[u] /\ arg'[u] = arg[u] /\ ptr'[u] = ptr[u]
    BY <1>2, OthersStay
  <2>2. CASE Making(u)
    <3>1. UNCHANGED <<tree, tag_id>>
      BY <1>2, <2>2, WriterAlone, OnlyWriters DEF Making, HoldsWrite
    <3>2. QED BY <2>1, <2>2, <3>1 DEF UseInv, Good, Making, Found
  <2>3. CASE ~ Making(u)
    BY <1>1, <2>1, <2>3 DEF Good, Making, Found
  <2>4. QED BY <2>2, <2>3
<1>3. Good(t)'
  <2>1. op' = op /\ arg' = arg
    BY MapStep
  <2>2. CASE LookupFind(t)
    <3>1. pc'[t] = "lookup_unlock"
      BY <2>2 DEF LookupFind, Goto, TypeOK
    <3>2. ptr'[t] = NULL \/ (ptr'[t] \in tree' /\ tag_id'[ptr'[t]] = arg[t])
      <4>1. CASE /\ UNCHANGED <<tree, tag_id>>
                 /\ \/ ptr'[t] \in tree /\ tag_id[ptr'[t]] = arg[t]
                    \/ ptr'[t] = NULL
        BY <4>1
      <4>2. CASE /\ ptr'[t] \in Nodes \ alloc /\ LinkMetanode(ptr'[t]) /\ arg[t] = METATAG_ID
                 /\ \A m \in tree : tag_id[m] # METATAG_ID
        BY <4>2, LinkMetanodeEffect DEF TypeOK
      <4>3. QED BY <2>2, <4>1, <4>2, LookupFindEffect
    <3>3. QED BY <2>1, <3>1, <3>2 DEF Good, Found, Making, UseLabels
  <2>3. CASE NodeCreate(t)
    <3>1. ptr'[t] \in tree'
      BY <2>3, NodeCreateEffect
    <3>2. pc'[t] \in {"tag_lock", "meta_drop"}
      BY <2>3, SMTT(30) DEF NodeCreate, Invalidate, Goto, TypeOK
    <3>3. QED BY <3>1, <3>2 DEF Good, Found, Making, UseLabels
  <2>4. CASE ~ LookupFind(t) /\ ~ NodeCreate(t)
    <3>1. Found(t)' => Found(t) /\ ptr'[t] = ptr[t]
      BY <2>4, SMTT(60) DEF Step, InitRdlock, InitCheck, InitWrlock, InitBody, InsertLock,
      MetaDrop, TagLock, TagUnlock, MetaCreate, MetaFill, Finish, EarlyReturn,
      RemoveLock, RemoveFind, RemoveMtx, RemoveUnlink, RemoveUnlock, RemoveDestroy, LookupLock,
      LookupUnlock, MtxLock, Started, Access, SetCb, GetSize, MtxUnlock,
      Return, Goto, TypeOK, Found, UseLabels, AfterInit
    <3>2. OpInv(t)
      BY DEF CallInv
    <3>3. Making(t)' => Making(t) /\ UNCHANGED <<ptr, tree>>
      BY <2>1, <2>4, <3>2, SMTT(60) DEF Step, InitRdlock, InitCheck, InitWrlock, InitBody,
      InsertLock, MetaDrop, TagLock, TagUnlock, MetaCreate, MetaFill, Finish, EarlyReturn,
      RemoveLock, RemoveFind, RemoveMtx, RemoveUnlink, RemoveUnlock, RemoveDestroy, LookupLock,
      LookupUnlock, MtxLock, Started, Access, SetCb, GetSize, MtxUnlock,
      Return, Goto, TypeOK, Making, OpInv, AfterInit, treeVars
    <3>4. QED BY <1>1, <2>1, <3>1, <3>3 DEF UseInv, Good
  <2>5. QED BY <2>2, <2>3, <2>4
<1>4. QED BY <1>2, <1>3

(* ... which mutexes they have, ...                                        *)
LEMMA InsideStep ==
    ASSUME RInv, UseInv, NothingFreed, NEW t \in Threads, Step(t)
    PROVE  \A u \in Threads : InsideInv(u)'
<1> USE DEF RInv, IInv
<1>1. ASSUME NEW u \in Threads, u # t
      PROVE  InsideInv(u)'
  <2>1. /\ pc'[u] = pc[u] /\ op'[u] = op[u] /\ ptr'[u] = ptr[u] /\ held'[u] = held[u]
    BY <1>1, OthersStay
  <2>2. HasMtx(u)' <=> HasMtx(u)
    BY <2>1 DEF HasMtx, Inside
  <2>3. HasMtx(u) => mtx[ptr[u]] = u /\ ptr[u] \in tree
    BY DEF UseInv, InsideInv, Good, HasMtx, Inside, Found, Making, UseLabels
  <2>4. HasMtx(u) => mtx'[ptr[u]] = u
    BY <1>1, <2>3, OthersKeepMtx
  <2>5. pc[u] = "tag_unlock" => tag_id' = tag_id
    BY <1>1, WriterAlone, OnlyWriters DEF HoldsWrite
  <2>6. QED BY <2>1, <2>2, <2>4, <2>5 DEF UseInv, InsideInv
<1>2. InsideInv(t)'
  <2>1. op' = op
    BY MapStep
  <2>2. CASE TagLock(t)
    <3>1. /\ pc[t] = "tag_lock" /\ pc'[t] = "tag_unlock" /\ ptr' = ptr /\ held' = held
          /\ tag_id' = tag_id /\ mtx[ptr[t]] = NULL /\ mtx' = [mtx EXCEPT ![ptr[t]] = t]
      BY <2>2 DEF TagLock, MTX_LOCK, Goto, TypeOK, nodeVars, clientVars
    <3>2. ptr[t] \in tree /\ ptr[t] \in Nodes
      BY <3>1 DEF UseInv, Good, Making, TypeOK
    <3>3. tag_id[ptr[t]] \notin held[t]
      BY <3>1, <3>2, ConstantsAssumption DEF UseInv, HeldInv, TreeInv, IdsUnique
    <3>4. mtx'[ptr[t]] = t
      BY <3>1, <3>2 DEF TypeOK
    <3>5. QED BY <3>1, <3>3, <3>4 DEF InsideInv, HasMtx, Inside
  <2>3. CASE MtxLock(t)
    <3>1. ptr[t] \in Nodes /\ mtx' = [mtx EXCEPT ![ptr[t]] = t]
          /\ (pc'[t] = "idle" \/ ptr' = ptr) /\ pc'[t] # "tag_unlock"
      BY <2>3, SMTT(30) DEF MtxLock, MTX_LOCK, Return, Goto, TypeOK, UseInv, Good, Found,
         UseLabels
    <3>2. QED BY <3>1 DEF InsideInv, HasMtx, Inside, TypeOK
  <2>4. CASE Started(t) \/ Access(t) \/ SetCb(t) \/ GetSize(t)
    <3>1. Inside(t) /\ UNCHANGED <<mtx, ptr>> /\ pc'[t] \in {"access", "mtx_unlock"}
      BY <2>4 DEF Started, Access, SetCb, GetSize, Goto, TypeOK, Inside
    <3>2. QED BY <3>1 DEF UseInv, InsideInv, HasMtx
  <2>5. CASE ~ TagLock(t) /\ ~ MtxLock(t) /\ ~ Started(t) /\ ~ Access(t) /\ ~ SetCb(t)
             /\ ~ GetSize(t)
    <3>1. pc'[t] \notin {"started", "access", "set_cb", "size", "tag_unlock"}
          /\ (pc'[t] = "mtx_unlock" => op[t] = "unlock")
      BY <2>5, SMTT(60) DEF Step, InitRdlock, InitCheck, InitWrlock, InitBody, InsertLock,
      NodeCreate, Invalidate, MetaDrop, TagUnlock, MetaCreate, MetaFill, Finish, EarlyReturn,
      RemoveLock, RemoveFind, RemoveMtx, RemoveUnlink, RemoveUnlock, RemoveDestroy, LookupLock,
      LookupFind, LookupUnlock, MtxUnlock, Return, Goto, TypeOK, AfterInit
    <3>2. QED BY <2>1, <3>1 DEF InsideInv, HasMtx, Inside
  <2>6. QED BY <2>2, <2>3, <2>4, <2>5
<1>3. QED BY <1>1, <1>2

(* ... and which tags are locked.                                          *)
LEMMA HeldStep ==
    ASSUME RInv, UseInv, NothingFreed, NEW t \in Threads, Step(t)
    PROVE  \A u \in Threads : HeldInv(u)'
<1> USE DEF RInv, IInv
<1>1. \A u \in Threads : \A i \in held[u] : \E n \in tree : tag_id[n] = i /\ mtx[n] = u
  BY DEF UseInv, HeldInv
<1>2. \A u \in Threads : \A i \in held[u] : i \in Ids
  BY DEF UseInv, HeldInv
<1>3. \A n \in tree : tag_id[n] \in Ids => n \in tree' /\ tag_id'[n] = tag_id[n]
  BY NodesStay DEF UseInv
<1>4. ASSUME NEW u \in Threads, u # t
      PROVE  HeldInv(u)'
  <2>1. held'[u] = held[u]
    BY <1>4, OthersStay
  <2>2. ASSUME NEW i \in held[u]
        PROVE  \E n \in tree' : tag_id'[n] = i /\ mtx'[n] = u
    BY <1>1, <1>2, <1>3, <1>4, <2>2, OthersKeepMtx
  <2>3. QED BY <1>2, <2>1, <2>2 DEF HeldInv
<1>5. HeldInv(t)'
  <2>1. ASSUME NEW i \in held[t],
               pc[t] = "mtx_unlock" => i # arg[t]
        PROVE  \E n \in tree' : tag_id'[n] = i /\ mtx'[n] = t
    <3>1. PICK n \in tree : tag_id[n] = i /\ mtx[n] = t
      BY <1>1
    <3>2. pc[t] = "tag_unlock" => n # ptr[t]
      BY <3>1 DEF UseInv, InsideInv
    <3>3. pc[t] = "mtx_unlock" => n # ptr[t]
      BY <2>1, <3>1 DEF UseInv, Good, Found, UseLabels
    <3>4. mtx'[n] = t
      BY <3>1, <3>2, <3>3, MtxEffect, ConstantsAssumption
    <3>5. QED BY <1>2, <1>3, <3>1, <3>4
  <2>2. CASE MtxUnlock(t)
    <3>1. pc[t] = "mtx_unlock"
          /\ held'[t] = IF op[t] = "unlock" THEN held[t] \ {arg[t]} ELSE held[t]
      BY <2>2 DEF MtxUnlock, TypeOK
    <3>2. op[t] # "unlock" => arg[t] \notin held[t]
      BY <3>1 DEF UseInv, Asked, Careful, MtxFree, CallInv, OpInv, MtxOps, EventOps, DataOps,
         CbOps, CreateOps
    <3>3. arg[t] \notin held'[t] /\ held'[t] \subseteq held[t]
      BY <3>1, <3>2
    <3>4. QED BY <1>2, <2>1, <3>3 DEF HeldInv
  <2>3. CASE MtxLock(t)
    <3>1. /\ pc[t] = "mtx_lock" /\ mtx' = [mtx EXCEPT ![ptr[t]] = t]
          /\ held'[t] \subseteq held[t] \cup {arg[t]}
      BY <2>3, SMTT(30) DEF MtxLock, MTX_LOCK, TypeOK
    <3>2. ptr[t] \in tree /\ tag_id[ptr[t]] = arg[t] /\ ptr[t] \in Nodes
      BY <3>1 DEF UseInv, Good, Found, UseLabels, TypeOK
    <3>3. mtx'[ptr[t]] = t
      BY <3>1, <3>2 DEF TypeOK
    <3>4. arg[t] \in Ids
      BY <3>1, Permitted DEF UseInv, CallInv, OpInv, LookupLabels, UseLabels, LookupOps,
         MtxOps, EventOps, DataOps, CbOps, CreateOps
    <3>5. \E n \in tree' : tag_id'[n] = arg[t] /\ mtx'[n] = t
      BY <1>3, <3>2, <3>3, <3>4
    <3>6. QED BY <1>2, <2>1, <3>1, <3>4, <3>5 DEF HeldInv
  <2>4. CASE ~ MtxUnlock(t) /\ ~ MtxLock(t)
    <3>1. held' = held /\ pc[t] # "mtx_unlock"
      BY <2>4, SMTT(60) DEF Step, InitRdlock, InitCheck, InitWrlock, InitBody, InsertLock,
      NodeCreate, MetaDrop, TagLock, TagUnlock, MetaCreate, MetaFill, Finish, EarlyReturn,
      RemoveLock, RemoveFind, RemoveMtx, RemoveUnlink, RemoveUnlock, RemoveDestroy, LookupLock,
      LookupFind, LookupUnlock, Started, Access, SetCb, GetSize, clientVars
    <3>2. QED BY <1>2, <2>1, <3>1 DEF HeldInv
  <2>5. QED BY <2>2, <2>3, <2>4
<1>6. QED BY <1>4, <1>5

(* A careful client's call starts no use of a tag and ends none.           *)
LEMMA CarefulStartKeeps ==
    ASSUME TypeOK, UseInv, NEW t \in Threads, NEW r \in Requests, Start(t, r[1], r[2]),
           r[1] \in MtxFree \/ Careful(t, r[1], r[2])
    PROVE  UseInv'
<1>2. /\ pc'[t] \in {"early_return", "init_rdlock"}
      /\ \A u \in Threads : u # t => pc'[u] = pc[u] /\ op'[u] = op[u] /\ arg'[u] = arg[u]
      /\ op'[t] = r[1] /\ arg'[t] = r[2]
      /\ UNCHANGED <<tree, tag_id, mtx, ptr, held>>
  BY DEF Start, Goto, TypeOK, treeVars, nodeVars
<1>3. Asked(t)'
  <2>1. r = <<r[1], r[2]>>
    BY DEF Requests
  <2>2. <<r[1], r[2]>> \in Requests
    BY <2>1
  <2>3. QED BY <1>2, <2>2 DEF Asked, Careful
<1>4. Good(t)' /\ InsideInv(t)'
  BY <1>2 DEF Good, Found, Making, InsideInv, HasMtx, Inside, UseLabels
<1>5. \A u \in Threads : u # t => Asked(u)' /\ Good(u)' /\ InsideInv(u)'
  BY <1>2 DEF UseInv, Asked, Careful, Good, Found, Making, InsideInv, HasMtx, Inside
<1>6. \A u \in Threads : HeldInv(u)'
  BY <1>2 DEF UseInv, HeldInv
<1>7. QED BY <1>3, <1>4, <1>5, <1>6 DEF UseInv

(* The invariant holds of the unused library.                              *)
LEMMA UseInit == Init => UseInv
BY DEF Init, UseInv, Asked, Good, Found, Making, InsideInv, HasMtx, Inside, HeldInv, UseLabels

(* A step of no thread keeps it.                                           *)
LEMMA UseStutter ==
    ASSUME UseInv, UNCHANGED vars
    PROVE  UseInv'
BY DEF vars, treeVars, nodeVars, callVars, clientVars, UseInv, Asked, Careful, Good, Found,
   Making, InsideInv, HasMtx, Inside, HeldInv

(* What careful clients know of the tags they use is inductive.            *)
THEOREM UseInductive == NothingFreed => (CarefulSpec => []UseInv)
<1> SUFFICES ASSUME NothingFreed PROVE CarefulSpec => []UseInv
  OBVIOUS
<1>1. Init => UseInv
  BY UseInit
<1>2. ASSUME RInv, UseInv, [CarefulNext]_vars
      PROVE  UseInv'
  <2>1. ASSUME NEW t \in Threads, Step(t)
        PROVE  UseInv'
    BY <1>2, <2>1, AskedStep, GoodStep, InsideStep, HeldStep DEF UseInv, RInv, IInv
  <2>2. ASSUME NEW t \in Threads, CarefulStart(t)
        PROVE  UseInv'
    BY <1>2, <2>2, CarefulStartKeeps DEF CarefulStart, RInv, IInv
  <2>3. CASE UNCHANGED vars
    BY <1>2, <2>3, UseStutter
  <2>4. QED BY <1>2, <2>1, <2>2, <2>3 DEF CarefulNext
<1>3. QED BY <1>1, <1>2, RInductive, CarefulIsSpec, PTL DEF CarefulSpec

(* plc_tag_lock and every call that takes a tag's mutex exclude all other  *)
(* threads from the tag: a thread that has the tag to itself has the mutex *)
(* of the one node with that id.                                           *)
THEOREM Exclusion == NothingFreed => (CarefulSpec => []TagExclusion)
<1> SUFFICES ASSUME NothingFreed PROVE CarefulSpec => []TagExclusion
  OBVIOUS
<1>1. ASSUME RInv, UseInv
      PROVE  TagExclusion
  <2> SUFFICES ASSUME NEW t \in Threads, NEW u \in Threads, NEW i \in Ids,
                      Owns(t, i), Owns(u, i)
               PROVE  t = u
    BY DEF TagExclusion
  <2>1. ASSUME NEW v \in Threads, Owns(v, i)
        PROVE  \E n \in tree : tag_id[n] = i /\ mtx[n] = v
    BY <1>1, <2>1 DEF Owns, UseInv, HeldInv, InsideInv, HasMtx, Good, Found, Inside, UseLabels
  <2>2. PICK m \in tree : tag_id[m] = i /\ mtx[m] = t
    BY <2>1
  <2>3. PICK n \in tree : tag_id[n] = i /\ mtx[n] = u
    BY <2>1
  <2>4. m = n
    BY <1>1, <2>2, <2>3 DEF RInv, IInv, TreeInv, IdsUnique
  <2>5. QED BY <2>2, <2>3, <2>4
<1>2. QED BY <1>1, UseInductive, RInductive, CarefulIsSpec, PTL

-----------------------------------------------------------------------------
(* What a call has told its callback so far.                               *)
Told(t) ==
    /\ pc[t] \notin {"idle", "access", "mtx_unlock"} => seen[t] = {}
    /\ pc[t] = "access" => seen[t] = IF cb[ptr[t]] THEN {"started"} ELSE {}
    /\ pc[t] = "mtx_unlock" => seen[t] \in {{}, {"started", "ended"}}

SeenInv == \A t \in Threads : Told(t)

(* A callback is set and cleared only by a thread that has the tag's mutex, *)
(* so it does not change under a call that has told it of its start.       *)
LEMMA CbKept ==
    ASSUME RInv, UseInv, NEW t \in Threads, Step(t), NEW u \in Threads, u # t,
           pc[u] = "access"
    PROVE  cb'[ptr[u]] = cb[ptr[u]]
<1> USE DEF RInv, IInv
<1>1. mtx[ptr[u]] = u /\ ptr[u] \in tree
  BY DEF UseInv, InsideInv, HasMtx, Inside, Good, Found, UseLabels
<1>2. ptr[u] \in Nodes /\ ptr[u] \in alloc
  BY <1>1, Accounted DEF TypeOK, TreeInv
<1>3. CASE SetCb(t)
  <2>1. mtx[ptr[t]] = t
    BY <1>3 DEF SetCb, UseInv, InsideInv, HasMtx, Inside
  <2>2. cb' = [cb EXCEPT ![ptr[t]] = (op[t] = "register")] /\ ptr[t] # ptr[u]
    BY <1>1, <1>3, <2>1 DEF SetCb
  <2>3. QED BY <1>2, <2>2 DEF TypeOK
<1>4. CASE InitBody(t)
  BY <1>1, <1>4, InitBodyEffect
<1>5. CASE NodeCreate(t)
  <2>1. PICK m \in Nodes \ alloc : cb' = [cb EXCEPT ![m] = FALSE]
    BY <1>5, NodeCreateEffect
  <2>2. QED BY <1>2, <2>1 DEF TypeOK
<1>6. CASE MetaFill(t) \/ LookupFind(t)
  <2>1. cb' = cb \/ \E m \in Nodes \ alloc : cb' = [cb EXCEPT ![m] = FALSE]
    BY <1>6, MetaFillEffect, LookupFindEffect, LinkMetanodeEffect
  <2>2. QED BY <1>2, <2>1 DEF TypeOK
<1>7. CASE MetaCreate(t) \/ MetaDrop(t) \/ RemoveUnlink(t) \/ RemoveDestroy(t)
  BY <1>7, MetaCreateEffect, RemoveUnlinkEffect, DropEffect
<1>8. CASE ~ TreeSteps(t) /\ ~ SetCb(t)
  BY <1>8, SMTT(60) DEF Step, TreeSteps, InitRdlock, InitCheck, InitWrlock, InsertLock,
  TagLock, TagUnlock, Finish, EarlyReturn, RemoveLock, RemoveFind, RemoveMtx, RemoveUnlock,
  LookupLock, LookupUnlock, MtxLock, Started, Access, GetSize, MtxUnlock, nodeVars
<1>9. QED BY <1>3, <1>4, <1>5, <1>6, <1>7, <1>8 DEF TreeSteps

(* What a call tells its callback at its start and at its end agrees.      *)
LEMMA SeenStep ==
    ASSUME RInv, UseInv, SeenInv, NothingFreed, METATAG_ID \notin Ids,
           NEW t \in Threads, Step(t)
    PROVE  SeenInv'
<1> USE DEF RInv, IInv
<1>1. ASSUME NEW u \in Threads, u # t
      PROVE  Told(u)'
  <2>1. pc'[u] = pc[u] /\ ptr'[u] = ptr[u] /\ seen'[u] = seen[u]
    BY <1>1, OthersStay
  <2>2. pc[u] = "access" => cb'[ptr[u]] = cb[ptr[u]]
    BY <1>1, CbKept
  <2>3. QED BY <2>1, <2>2 DEF SeenInv, Told
<1>2. Told(t)'
  <2>1. CASE Started(t)
    <3>1. /\ pc[t] = "started" /\ pc'[t] = "access" /\ ptr' = ptr /\ cb' = cb
          /\ seen'[t] = IF cb[ptr[t]] THEN seen[t] \cup {"started"} ELSE seen[t]
      BY <2>1 DEF Started, Goto, TypeOK, nodeVars
    <3>2. seen[t] = {}
      BY <3>1 DEF SeenInv, Told
    <3>3. QED BY <3>1, <3>2 DEF Told
  <2>2. CASE Access(t)
    <3>1. PICK bad \in BOOLEAN :
             seen' = [seen EXCEPT ![t] =
                IF /\ IF op[t] \in DataOps THEN cb[ptr[t]] ELSE "started" \in @
                   /\ ~(bad /\ tag_id[ptr[t]] = METATAG_ID)
                THEN @ \cup {"ended"} ELSE @]
      BY <2>2 DEF Access
    <3>2. pc[t] = "access" /\ pc'[t] = "mtx_unlock"
      BY <2>2 DEF Access, Goto, TypeOK
    <3>3. seen[t] = IF cb[ptr[t]] THEN {"started"} ELSE {}
      BY <3>2 DEF SeenInv, Told
    <3>4. tag_id[ptr[t]] = arg[t] /\ arg[t] \in Ids
      BY <3>2, Permitted DEF UseInv, Good, Found, CallInv, OpInv, UseLabels, EventOps, DataOps,
         CreateOps
    <3>5. seen'[t] \in {{}, {"started", "ended"}}
      BY <3>1, <3>3, <3>4 DEF TypeOK
    <3>6. QED BY <3>2, <3>5 DEF Told
  <2>3. CASE ~ Started(t) /\ ~ Access(t)
    <3>1. seen' = seen /\ pc'[t] # "access" /\ pc[t] \notin {"idle", "access"}
          /\ (pc[t] = "mtx_unlock" => pc'[t] = "idle")
      BY <2>3, SMTT(60) DEF Step, InitRdlock, InitCheck, InitWrlock, InitBody, InsertLock,
      NodeCreate, Invalidate, MetaDrop, TagLock, TagUnlock, MetaCreate, MetaFill, Finish,
      EarlyReturn, RemoveLock, RemoveFind, RemoveMtx, RemoveUnlink, RemoveUnlock, RemoveDestroy,
      LookupLock, LookupFind, LookupUnlock, MtxLock, SetCb, GetSize, MtxUnlock, Return, Goto,
      TypeOK, AfterInit
    <3>2. QED BY <3>1 DEF SeenInv, Told
  <2>4. QED BY <2>1, <2>2, <2>3
<1>3. QED BY <1>1, <1>2 DEF SeenInv

(* Every call on a tag other than the metatag delivers its first and its   *)
(* last event or neither, although it tests t->cb anew each time.          *)
THEOREM EventsPaired ==
    NothingFreed /\ METATAG_ID \notin Ids => (CarefulSpec => []EventsBracketed)
<1> SUFFICES ASSUME NothingFreed, METATAG_ID \notin Ids PROVE CarefulSpec => []EventsBracketed
  OBVIOUS
<1>1. Init => SeenInv
  BY DEF Init, SeenInv, Told
<1>2. ASSUME RInv, UseInv, SeenInv, [CarefulNext]_vars
      PROVE  SeenInv'
  <2>1. ASSUME NEW t \in Threads, Step(t)
        PROVE  SeenInv'
    BY <1>2, <2>1, SeenStep
  <2>2. ASSUME NEW t \in Threads, CarefulStart(t)
        PROVE  SeenInv'
    <3>1. PICK r \in Requests : Start(t, r[1], r[2])
      BY <2>2 DEF CarefulStart
    <3>2. /\ pc'[t] \in {"early_return", "init_rdlock"} /\ seen'[t] = {}
          /\ \A u \in Threads : u # t => pc'[u] = pc[u] /\ seen'[u] = seen[u]
          /\ UNCHANGED <<cb, ptr>>
      BY <1>2, <3>1 DEF Start, Goto, RInv, IInv, TypeOK, nodeVars
    <3>3. QED BY <1>2, <3>2 DEF SeenInv, Told
  <2>3. CASE UNCHANGED vars
    BY <1>2, <2>3 DEF vars, nodeVars, SeenInv, Told
  <2>4. QED BY <1>2, <2>1, <2>2, <2>3 DEF CarefulNext
<1>3. SeenInv => EventsBracketed
  BY DEF SeenInv, Told, EventsBracketed
<1>4. QED BY <1>1, <1>2, <1>3, UseInductive, RInductive, CarefulIsSpec, PTL DEF CarefulSpec

-----------------------------------------------------------------------------
(* Clients that destroy and create as they like, and only never call       *)
(* plc_tag_unlock.  Thread t has the mutex of a node that it found or made *)
(* and that nobody frees meanwhile.                                        *)
Using(t) == Inside(t) \/ pc[t] \in {"tag_unlock", "remove_unlink", "remove_unlock"}

(* Thread t is to take the mutex of the node it found, which another may   *)
(* free first.                                                             *)
Waiting(t) == pc[t] = "mtx_lock" \/ (pc[t] = "lookup_unlock" /\ ptr[t] # NULL)

(* A freed node's mutex is left locked, so it lets no waiting call in.     *)
AloneInv == \A t \in Threads :
    /\ Using(t) => ptr[t] \in alloc /\ mtx[ptr[t]] = t
    /\ Waiting(t) => ptr[t] \in alloc \/ mtx[ptr[t]] # NULL
    /\ Making(t) => ptr[t] \in tree
    /\ pc[t] # "idle" => op[t] # "unlock"

(* What a step of t does to a node: nothing; lock it, and perhaps free it; *)
(* allocate it; or unlock the node of its call, which it has.              *)
LEMMA NodeEffect ==
    ASSUME RInv, AloneInv, NEW t \in Threads, Step(t), NEW n \in Nodes
    PROVE  \/ mtx'[n] = mtx[n] /\ (n \in alloc' <=> n \in alloc)
           \/ mtx[n] = NULL /\ mtx'[n] = t /\ (n \in alloc' => n \in alloc)
           \/ n \in alloc'
              /\ (n \in alloc => mtx[n] = t /\ n = ptr[t]
                                 /\ pc[t] \in {"mtx_unlock", "tag_unlock", "remove_unlock"})
<1> USE DEF RInv, IInv
<1>1. ASSUME NEW m \in Nodes \ alloc, NEW i, NEW l, Malloc(m, i, l)
      PROVE  \/ mtx'[n] = mtx[n] /\ (n \in alloc' <=> n \in alloc)
             \/ n \in alloc' /\ n \notin alloc
  BY <1>1 DEF Malloc, TypeOK
<1>2. CASE InitBody(t)
  <2>1. CASE UNCHANGED <<treeVars, nodeVars, mtx>>
    BY <2>1 DEF nodeVars
  <2>2. CASE CreatePredefined
    <3>1. PICK f \in [FirstIds -> Nodes \ alloc] :
             /\ alloc' = alloc \cup {f[i] : i \in FirstIds}
             /\ mtx' = [m \in Nodes |-> IF m \in {f[i] : i \in FirstIds} THEN NULL ELSE mtx[m]]
      BY <2>2, Zenon DEF CreatePredefined
    <3>2. {f[i] : i \in FirstIds} \cap alloc = {}
      BY <3>1
    <3>3. QED BY <3>1, <3>2
  <2>3. QED BY <1>2, <2>1, <2>2 DEF InitBody
<1>3. CASE NodeCreate(t) \/ MetaFill(t)
  BY <1>1, <1>3 DEF NodeCreate, MetaFill, LinkMetanode
<1>4. CASE LookupFind(t)
  <2>1. UNCHANGED <<nodeVars, mtx>> \/ \E m \in Nodes \ alloc : LinkMetanode(m)
    BY <1>4 DEF LookupFind
  <2>2. QED BY <1>1, <2>1 DEF LinkMetanode, nodeVars
<1>5. CASE MetaDrop(t) \/ RemoveDestroy(t)
  <2>1. PICK m : NodeDestroy(t, m)
    BY <1>5 DEF MetaDrop, RemoveDestroy
  <2>2. QED BY <2>1 DEF NodeDestroy, MTX_LOCK, TypeOK
<1>6. CASE TagLock(t) \/ RemoveMtx(t) \/ MtxLock(t)
  <2>1. MTX_LOCK(t, ptr[t]) /\ alloc' = alloc
    BY <1>6 DEF TagLock, RemoveMtx, MtxLock, nodeVars
  <2>2. QED BY <2>1 DEF MTX_LOCK, TypeOK
<1>7. CASE TagUnlock(t) \/ RemoveUnlock(t) \/ MtxUnlock(t)
  <2>1. /\ MTX_UNLOCK(ptr[t]) /\ alloc' = alloc
        /\ pc[t] \in {"mtx_unlock", "tag_unlock", "remove_unlock"}
    BY <1>7 DEF TagUnlock, RemoveUnlock, MtxUnlock, nodeVars
  <2>2. ptr[t] \in alloc /\ mtx[ptr[t]] = t
    BY <2>1 DEF AloneInv, Using, Inside
  <2>3. QED BY <2>1, <2>2 DEF MTX_UNLOCK, TypeOK
<1>8. CASE \/ InitRdlock(t) \/ InitCheck(t) \/ InitWrlock(t) \/ InsertLock(t) \/ Finish(t)
           \/ EarlyReturn(t) \/ RemoveLock(t) \/ RemoveFind(t) \/ LookupLock(t)
           \/ LookupUnlock(t) \/ Started(t) \/ Access(t) \/ SetCb(t) \/ GetSize(t)
           \/ MetaCreate(t) \/ RemoveUnlink(t)
  BY <1>8, SMTT(30) DEF InitRdlock, InitCheck, InitWrlock, InsertLock, Finish, EarlyReturn,
     RemoveLock, RemoveFind, LookupLock, LookupUnlock, Started, Access, SetCb, GetSize,
     MetaCreate, RemoveUnlink, nodeVars
<1>9. QED BY <1>2, <1>3, <1>4, <1>5, <1>6, <1>7, <1>8 DEF Step

(* The other threads keep the nodes they have, and what they wait for.     *)
LEMMA AloneOthers ==
    ASSUME RInv, AloneInv, NEW t \in Threads, Step(t), NEW u \in Threads, u # t
    PROVE  /\ Using(u)' => ptr'[u] \in alloc' /\ mtx'[ptr'[u]] = u
           /\ Waiting(u)' => ptr'[u] \in alloc' \/ mtx'[ptr'[u]] # NULL
           /\ Making(u)' => ptr'[u] \in tree'
           /\ pc'[u] # "idle" => op'[u] # "unlock"
<1> USE DEF RInv, IInv
<1>1. pc'[u] = pc[u] /\ op'[u] = op[u] /\ ptr'[u] = ptr[u]
  BY OthersStay
<1>2. Using(u)' => Using(u)
  BY <1>1 DEF Using, Inside
<1>3. Waiting(u)' => Waiting(u) /\ ptr[u] \in Nodes
  BY <1>1 DEF Waiting, CallInv, ResultInv, UseLabels, TypeOK
<1>4. Using(u) => ptr[u] \in alloc /\ ptr[u] \in Nodes /\ mtx[ptr[u]] = u
  BY DEF AloneInv, TypeOK
<1>5. Using(u) => ptr[u] \in alloc' /\ mtx'[ptr[u]] = u
  BY <1>4, NodeEffect, ConstantsAssumption
<1>6. Waiting(u) /\ ptr[u] \in Nodes => ptr[u] \in alloc' \/ mtx'[ptr[u]] # NULL
  BY NodeEffect, ConstantsAssumption DEF AloneInv
<1>7. Making(u)' => ptr[u] \in tree'
  <2>1. ASSUME Making(u)'
        PROVE  Making(u) /\ tree' = tree
    BY <1>1, <2>1, WriterAlone, OnlyWriters DEF Making, HoldsWrite
  <2>2. QED BY <2>1 DEF AloneInv
<1>8. QED BY <1>1, <1>2, <1>3, <1>5, <1>6, <1>7 DEF AloneInv

(* A call that comes to have a node found it unlocked, and so not freed,   *)
(* or took it with the tree locked.                                        *)
LEMMA AloneUsing ==
    ASSUME RInv, AloneInv, NEW t \in Threads, Step(t), Using(t)'
    PROVE  ptr'[t] \in alloc' /\ mtx'[ptr'[t]] = t
<1> USE DEF RInv, IInv
<1>1. op' = op /\ tree \subseteq alloc /\ pc[t] # "idle"
  BY MapStep, Accounted, InCall DEF TreeInv
<1>2. CASE TagLock(t) \/ RemoveMtx(t)
  <2>1. /\ ptr' = ptr /\ alloc' = alloc /\ mtx' = [mtx EXCEPT ![ptr[t]] = t]
        /\ pc[t] \in {"tag_lock", "remove_mtx"}
    BY <1>2 DEF TagLock, RemoveMtx, MTX_LOCK, nodeVars
  <2>2. ptr[t] \in tree
    BY <2>1 DEF AloneInv, Making, TreeInv, Pending
  <2>3. QED BY <1>1, <2>1, <2>2 DEF TypeOK
<1>3. CASE MtxLock(t)
  <2>1. pc[t] = "mtx_lock" /\ MTX_LOCK(t, ptr[t]) /\ alloc' = alloc
    BY <1>3 DEF MtxLock, nodeVars
  <2>2. ptr' = ptr
    BY <1>3, SMTT(30) DEF MtxLock, Return, Goto, TypeOK, Using, Inside
  <2>3. ptr[t] \in alloc
    BY <2>1 DEF AloneInv, Waiting, MTX_LOCK
  <2>4. QED BY <2>1, <2>2, <2>3 DEF MTX_LOCK, TypeOK
<1>4. CASE Started(t) \/ Access(t) \/ SetCb(t) \/ GetSize(t) \/ RemoveUnlink(t)
  <2>1. Using(t) /\ ptr' = ptr /\ alloc' = alloc /\ mtx' = mtx
    BY <1>4 DEF Started, Access, SetCb, GetSize, RemoveUnlink, Using, Inside, nodeVars
  <2>2. QED BY <2>1 DEF AloneInv
<1>5. CASE ~ TagLock(t) /\ ~ RemoveMtx(t) /\ ~ MtxLock(t) /\ ~ Started(t) /\ ~ Access(t)
           /\ ~ SetCb(t) /\ ~ GetSize(t) /\ ~ RemoveUnlink(t)
  <2>1. /\ pc'[t] \notin {"started", "access", "set_cb", "size", "tag_unlock",
                          "remove_unlink", "remove_unlock"}
        /\ pc'[t] = "mtx_unlock" => op[t] = "unlock"
    BY <1>5, SMTT(60) DEF Step, InitRdlock, InitCheck, InitWrlock, InitBody, InsertLock,
      NodeCreate, Invalidate, MetaDrop, TagUnlock, MetaCreate, MetaFill, Finish, EarlyReturn,
      RemoveLock, RemoveFind, RemoveUnlock, RemoveDestroy, LookupLock,
      LookupFind, LookupUnlock, MtxUnlock, Return, Goto, TypeOK, AfterInit
  <2>2. QED BY <1>1, <2>1 DEF Using, Inside, AloneInv
<1>6. QED BY <1>2, <1>3, <1>4, <1>5

(* A lookup finds its node, or builds it, under the tree's lock.           *)
LEMMA AloneWaiting ==
    ASSUME RInv, AloneInv, NEW t \in Threads, Step(t), Waiting(t)'
    PROVE  ptr'[t] \in alloc' \/ mtx'[ptr'[t]] # NULL
<1> USE DEF RInv, IInv
<1>1. tree \subseteq alloc
  BY Accounted DEF TreeInv
<1>2. CASE LookupFind(t)
  <2>1. pc'[t] = "lookup_unlock"
    BY <1>2 DEF LookupFind, Goto, TypeOK
  <2>2. ptr'[t] # NULL
    BY <2>1 DEF Waiting
  <2>3. \/ alloc' = alloc /\ ptr'[t] \in tree
        \/ \E l : Malloc(ptr'[t], METATAG_ID, l)
    BY <1>2, <2>2, LookupFindEffect DEF LinkMetanode
  <2>4. QED BY <1>1, <2>3 DEF Malloc
<1>3. CASE LookupUnlock(t)
  <2>1. Waiting(t) /\ ptr'[t] = ptr[t] /\ alloc' = alloc /\ mtx' = mtx
    BY <1>3, SMTT(30) DEF LookupUnlock, Return, Goto, TypeOK, Waiting, nodeVars
  <2>2. QED BY <2>1 DEF AloneInv
<1>4. CASE ~ LookupFind(t) /\ ~ LookupUnlock(t)
  <2>1. pc'[t] \notin {"lookup_unlock", "mtx_lock"}
    BY <1>4, SMTT(60) DEF Step, InitRdlock, InitCheck, InitWrlock, InitBody, InsertLock,
      NodeCreate, Invalidate, MetaDrop, TagLock, TagUnlock, MetaCreate, MetaFill, Finish,
      EarlyReturn, RemoveLock, RemoveFind, RemoveMtx, RemoveUnlink, RemoveUnlock,
      RemoveDestroy, LookupLock, MtxLock, Started, Access, SetCb, GetSize, MtxUnlock,
      Return, Goto, TypeOK, AfterInit
  <2>2. QED BY <2>1 DEF Waiting
<1>5. QED BY <1>2, <1>3, <1>4

(* A new tag stays in the tree while its creation has the tree locked.     *)
LEMMA AloneMaking ==
    ASSUME RInv, AloneInv, NEW t \in Threads, Step(t), Making(t)'
    PROVE  ptr'[t] \in tree'
<1> USE DEF RInv, IInv
<1>1. CASE NodeCreate(t)
  BY <1>1, NodeCreateEffect
<1>2. CASE ~ NodeCreate(t)
  <2>1. OpInv(t) /\ op' = op
    BY MapStep DEF CallInv
  <2>2. Making(t) /\ UNCHANGED <<ptr, tree>>
    BY <1>2, <2>1, SMTT(60) DEF Step, InitRdlock, InitCheck, InitWrlock, InitBody,
      InsertLock, MetaDrop, TagLock, TagUnlock, MetaCreate, MetaFill, Finish, EarlyReturn,
      RemoveLock, RemoveFind, RemoveMtx, RemoveUnlink, RemoveUnlock, RemoveDestroy, LookupLock,
      LookupFind, LookupUnlock, MtxLock, Started, Access, SetCb, GetSize, MtxUnlock,
      Return, Goto, TypeOK, Making, OpInv, AfterInit, treeVars
  <2>3. QED BY <2>2 DEF AloneInv
<1>3. QED BY <1>1, <1>2

(* Which nodes calls have, and which they wait for, is inductive.          *)
THEOREM AloneInductive == "unlock" \notin Ops => (Spec => []AloneInv)
<1> SUFFICES ASSUME "unlock" \notin Ops PROVE Spec => []AloneInv
  OBVIOUS
<1>1. Init => AloneInv
  BY DEF Init, AloneInv, Using, Inside, Waiting, Making
<1>2. ASSUME RInv, AloneInv, [Next]_vars
      PROVE  AloneInv'
  <2>1. ASSUME NEW t \in Threads, Step(t)
        PROVE  AloneInv'
    <3>1. op' = op /\ pc[t] # "idle"
      BY <1>2, <2>1, MapStep, InCall DEF RInv, IInv
    <3>2. QED BY <1>2, <2>1, <3>1, AloneOthers, AloneUsing, AloneWaiting, AloneMaking
      DEF AloneInv
  <2>2. ASSUME NEW t \in Threads, NEW r \in Requests, Start(t, r[1], r[2])
        PROVE  AloneInv'
    <3>1. r[1] # "unlock"
      BY DEF Requests
    <3>2. /\ pc'[t] \in {"early_return", "init_rdlock"} /\ op'[t] = r[1]
          /\ \A u \in Threads : u # t => pc'[u] = pc[u] /\ op'[u] = op[u]
          /\ UNCHANGED <<tree, alloc, mtx, ptr>>
      BY <1>2, <2>2 DEF Start, Goto, RInv, IInv, TypeOK, treeVars, nodeVars
    <3>3. QED BY <1>2, <3>1, <3>2 DEF AloneInv, Using, Inside, Waiting, Making
  <2>3. CASE UNCHANGED vars
    BY <1>2, <2>3 DEF vars, treeVars, nodeVars, callVars, AloneInv, Using, Inside, Waiting,
      Making
  <2>4. QED BY <1>2, <2>1, <2>2, <2>3 DEF Next
<1>3. QED BY <1>1, <1>2, RInductive, PTL DEF Spec

(* No destroy and no creation frees a node that a call is inside of, and   *)
(* no two calls are inside one node, although a destroyed tag's mutex is   *)
(* let go before the node is freed and its address and id come back.       *)
THEOREM AloneInside == "unlock" \notin Ops => (Spec => []InsideAlone)
<1> SUFFICES ASSUME "unlock" \notin Ops PROVE Spec => []InsideAlone
  OBVIOUS
<1>1. AloneInv => InsideAlone
  BY DEF AloneInv, Using, InsideAlone
<1>2. QED BY <1>1, AloneInductive, PTL

=============================================================================
