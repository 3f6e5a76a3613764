------------------------------- MODULE TagTree -------------------------------
(***************************************************************************)
(* The shared tag tree of plcstub and the lock protocol every API call     *)
(* follows: the process-wide reader/writer lock tag_tree_mtx guards the    *)
(* tree, and each tag carries a mutex of its own.  One action is one       *)
(* stretch of a call between two lock operations; a call's position is     *)
(* pc[t].  Nodes are addresses: malloc hands out an unallocated one and    *)
(* free returns it, so a pointer kept across a free may come to denote     *)
(* another tag.  Tag data, types and attribute strings are abstracted.     *)
(***************************************************************************)
EXTENDS Integers, FiniteSets

CONSTANTS
    Threads,    \* client threads
    Nodes,      \* addresses malloc may return for a struct tag_tree_node
    NULL,       \* the null pointer, and the absent holder of a lock
    Ops,        \* the API calls the clients make
    Ids,        \* the tag ids the clients pass
    NInit,      \* how many tags tags.inc defines
    SizeMod,    \* how many values a size_t has
    MaxCalls    \* calls (other than unlock) per thread: the model's bound

METATAG_ID == 1

PLCTAG_STATUS_OK     == 0
PLCTAG_ERR_BAD_PARAM == -7
PLCTAG_ERR_NOT_FOUND == -19
Codes == {PLCTAG_STATUS_OK, PLCTAG_ERR_BAD_PARAM, PLCTAG_ERR_NOT_FOUND}

CreateOps == {"create", "create_meta"}             \* name is not / is "@tags"
DataOps   == {"get", "set"}                        \* plc_tag_get_*, plc_tag_set_*
EventOps  == DataOps \cup {"read", "write"}
CbOps     == {"register", "unregister"}
MtxOps    == EventOps \cup CbOps \cup {"lock", "get_size"} \* take the tag's mutex
LookupOps == MtxOps \cup {"unlock", "status"}
AllOps    == LookupOps \cup CreateOps \cup {"destroy"}

ASSUME ConstantsAssumption ==
    /\ NULL \notin Threads \cup Nodes
    /\ Ops \subseteq AllOps
    /\ Ids \subseteq Nat
    /\ NInit \in Nat
    /\ SizeMod \in Nat \ {0}
    /\ MaxCalls \in Nat

VARIABLES
    rw_writer, rw_readers,  \* tag_tree_mtx
    inited,                 \* tag_tree_inited
    tree, tree_size,        \* the nodes linked into tag_tree; its counter
    alloc,                  \* addresses malloc'ed and not freed
    tag_id, mtx, cb,        \* fields of each address (mtx: who locked it)
    listing,                \* for a metatag, the ids its data lists
    pc, op, arg,            \* control of each thread; its call and id argument
    ptr, old,               \* the call's tag; the metatag it is about to free
    seen,                   \* callback events the call has delivered
    ret,                    \* what the call returns, once it is known
    held,                   \* ids the client locked and has not unlocked
    budget                  \* calls the client may still make

rwVars     == <<rw_writer, rw_readers>>
treeVars   == <<inited, tree, tree_size>>
nodeVars   == <<alloc, tag_id, cb, listing>>
callVars   == <<op, arg>>
clientVars == <<held, budget>>
vars == <<rwVars, treeVars, nodeVars, mtx, pc, callVars, ptr, old, seen, ret,
          clientVars>>

-----------------------------------------------------------------------------
(* The pthread locks.  A mutex is glibc's default kind: no owner check on  *)
(* unlock.  An rwlock prefers readers.                                     *)

RW_RDLOCK(t) ==
    /\ rw_writer = NULL
    /\ rw_readers' = rw_readers \cup {t}
    /\ UNCHANGED rw_writer

RW_WRLOCK(t) ==
    /\ rw_writer = NULL
    /\ rw_readers = {}
    /\ rw_writer' = t
    /\ UNCHANGED rw_readers

RW_UNLOCK(t) ==
    /\ rw_writer' = IF rw_writer = t THEN NULL ELSE rw_writer
    /\ rw_readers' = IF rw_writer = t THEN rw_readers ELSE rw_readers \ {t}

(* Mutant: a trylock whose result is ignored.                              *)
MTX_TRYLOCK(t, n) == mtx' = [mtx EXCEPT ![n] = t]

MTX_LOCK(t, n) ==
    /\ mtx[n] = NULL
    /\ mtx' = [mtx EXCEPT ![n] = t]

MTX_UNLOCK(n) == mtx' = [mtx EXCEPT ![n] = NULL]

-----------------------------------------------------------------------------
(* The red-black tree as the set of nodes it links, keyed by tag_id.       *)

RB_FIND(S, id, i) ==
    IF \E n \in S : id[n] = i THEN CHOOSE n \in S : id[n] = i ELSE NULL

RB_MAX(S, id) == CHOOSE n \in S : \A m \in S : id[m] <= id[n]

RB_INSERT(S, id, n) == IF \E m \in S : id[m] = id[n] THEN S ELSE S \cup {n}

RB_REMOVE(S, n) == S \ {n}

NextId == IF tree = {} THEN METATAG_ID + 1 ELSE tag_id[RB_MAX(tree, tag_id)] + 1

(* Mutant: a signed counter.                                               *)
ResizeSigned(k) == tree_size' = tree_size + k

Resize(k) == tree_size' = (tree_size + k) % SizeMod

PredefinedIds == (METATAG_ID + 1) .. (METATAG_ID + NInit)

-----------------------------------------------------------------------------
Goto(t, label) == pc' = [pc EXCEPT ![t] = label]

(* The call ends; its locals go out of scope and ret[t] is its value.      *)
Return(t) ==
    /\ Goto(t, "idle")
    /\ ptr' = [ptr EXCEPT ![t] = NULL]

(* A client calls the library: operation o on tag id i (creation takes a   *)
(* name instead, and i is 0).                                              *)
Requests == ((Ops \ CreateOps) \X Ids) \cup ((Ops \cap CreateOps) \X {0})

(* Which calls return before they look at the tree: destroying the metatag *)
(* (accepted and ignored), a read or write whose timeout is negative, and  *)
(* a creation whose attributes are malformed or name no tag.               *)
ReturnsEarly(o, i) ==
    IF o = "destroy" THEN {i = METATAG_ID}
    ELSE IF o \in {"read", "write", "create"} THEN BOOLEAN ELSE {FALSE}

Start(t, o, i) ==
    /\ pc[t] = "idle"
    /\ o = "unlock" \/ budget[t] > 0
    /\ budget' = [budget EXCEPT ![t] = IF o = "unlock" THEN @ ELSE @ - 1]
    /\ op' = [op EXCEPT ![t] = o]
    /\ arg' = [arg EXCEPT ![t] = i]
    /\ seen' = [seen EXCEPT ![t] = {}]
    /\ \E early \in ReturnsEarly(o, i) :
          /\ Goto(t, IF early THEN "early_return" ELSE "init_rdlock")
          /\ ret' = [ret EXCEPT ![t] = IF early /\ o # "destroy"
                                      THEN PLCTAG_ERR_BAD_PARAM ELSE PLCTAG_STATUS_OK]
    /\ UNCHANGED <<rwVars, treeVars, nodeVars, mtx, ptr, old, held>>

EarlyReturn(t) ==
    /\ pc[t] = "early_return"
    /\ Return(t)
    /\ UNCHANGED <<rwVars, treeVars, nodeVars, mtx, callVars, old, seen, ret, clientVars>>

-----------------------------------------------------------------------------
(* tag_tree_init: the predefined tags are created by the first call, with  *)
(* a check under the read lock and another under the write lock.           *)

AfterInit(o) ==
    CASE o \in LookupOps -> "lookup_lock"
      [] o \in CreateOps -> "insert_lock"
      [] OTHER           -> "remove_lock"

InitRdlock(t) ==
    /\ pc[t] = "init_rdlock"
    /\ RW_RDLOCK(t)
    /\ Goto(t, "init_check")
    /\ UNCHANGED <<treeVars, nodeVars, mtx, callVars, ptr, old, seen, ret, clientVars>>

InitCheck(t) ==
    /\ pc[t] = "init_check"
    /\ RW_UNLOCK(t)
    /\ Goto(t, IF inited THEN AfterInit(op[t]) ELSE "init_wrlock")
    /\ UNCHANGED <<treeVars, nodeVars, mtx, callVars, ptr, old, seen, ret, clientVars>>

InitWrlock(t) ==
    /\ pc[t] = "init_wrlock"
    /\ RW_WRLOCK(t)
    /\ Goto(t, "init_body")
    /\ UNCHANGED <<treeVars, nodeVars, mtx, callVars, ptr, old, seen, ret, clientVars>>

(* The second check failed to find the tree ready: create the tags of      *)
(* tags.inc, at addresses f, each with the id next in turn, and leave      *)
(* every mutex unlocked.                                                   *)
FirstIds == NextId .. (NextId + NInit - 1)

CreatePredefined ==
    \E f \in [FirstIds -> Nodes \ alloc] :
        LET made == {f[i] : i \in FirstIds}
        IN  /\ \A i, j \in FirstIds : f[i] = f[j] => i = j
            /\ inited' = TRUE
            /\ alloc' = alloc \cup made
            /\ tree' = tree \cup made
            /\ Resize(NInit)
            /\ tag_id' = [n \in Nodes |-> IF n \in made
                                          THEN CHOOSE i \in FirstIds : f[i] = n
                                          ELSE tag_id[n]]
            /\ mtx' = [n \in Nodes |-> IF n \in made THEN NULL ELSE mtx[n]]
            /\ cb' = [n \in Nodes |-> IF n \in made THEN FALSE ELSE cb[n]]
            /\ listing' = [n \in Nodes |-> IF n \in made THEN {} ELSE listing[n]]

InitBody(t) ==
    /\ pc[t] = "init_body"
    /\ \/ inited /\ UNCHANGED <<treeVars, nodeVars, mtx>>
       \/ ~inited /\ CreatePredefined
    /\ RW_UNLOCK(t)
    /\ Goto(t, AfterInit(op[t]))
    /\ UNCHANGED <<callVars, ptr, old, seen, ret, clientVars>>

-----------------------------------------------------------------------------
(* Node lifetime.                                                          *)

(* The fields of a freshly malloc'ed node n: its mutex is initialised, it  *)
(* has no callback, and l is what its data lists.                          *)
Malloc(n, i, l) ==
    /\ alloc' = alloc \cup {n}
    /\ tag_id' = [tag_id EXCEPT ![n] = i]
    /\ cb' = [cb EXCEPT ![n] = FALSE]
    /\ listing' = [listing EXCEPT ![n] = l]
    /\ mtx' = [mtx EXCEPT ![n] = NULL]

(* tag_tree_node_destroy: lock the node, free it, unlock a copy of its     *)
(* mutex.  The lock word left behind in the freed memory stays locked.     *)
NodeDestroyLeak(t, n) ==  \* Mutant: no free.
    /\ MTX_LOCK(t, n)
    /\ UNCHANGED <<alloc, tag_id, cb, listing>>

NodeDestroyUnlocked(t, n) ==  \* Mutant: whoever is inside is not waited for.
    /\ alloc' = alloc \ {n}
    /\ UNCHANGED <<tag_id, cb, listing, mtx>>

NodeDestroy(t, n) ==
    /\ MTX_LOCK(t, n)
    /\ alloc' = alloc \ {n}
    /\ UNCHANGED <<tag_id, cb, listing>>

(* The second half of tag_tree_metanode_create: a node listing every tag   *)
(* in the tree, inserted without counting it in tree_size.                 *)
LinkMetanode(n) ==
    /\ Malloc(n, METATAG_ID, {tag_id[m] : m \in tree})
    /\ tree' = RB_INSERT(tree, tag_id', n)
    /\ UNCHANGED <<inited, tree_size>>

-----------------------------------------------------------------------------
(* tag_tree_insert.                                                        *)

InsertLock(t) ==
    /\ pc[t] = "insert_lock"
    /\ RW_WRLOCK(t)
    /\ Goto(t, IF op[t] = "create" THEN "node_create" ELSE "meta_create")
    /\ UNCHANGED <<treeVars, nodeVars, mtx, callVars, ptr, old, seen, ret, clientVars>>

(* Mutant: the metatag stays.                                              *)
NoInvalidate(t, S, id) ==
    /\ tree' = S
    /\ Resize(1)
    /\ Goto(t, "tag_lock")
    /\ UNCHANGED old

(* tag_tree_node_create has grown the tree to S: unlink the metatag, if    *)
(* there is one, and go on to free it.                                     *)
Invalidate(t, S, id) ==
    LET meta == RB_FIND(S, id, METATAG_ID)
    IN  /\ tree' = RB_REMOVE(S, meta)
        /\ Resize(IF meta = NULL THEN 1 ELSE 0)
        /\ Goto(t, IF meta = NULL THEN "tag_lock" ELSE "meta_drop")
        /\ old' = [old EXCEPT ![t] = meta]

(* tag_tree_node_create up to its first lock operation: insert a tag whose *)
(* id is one above the largest.                                            *)
NodeCreate(t) ==
    /\ pc[t] = "node_create"
    /\ \E n \in Nodes \ alloc :
          /\ Malloc(n, NextId, {})
          /\ Invalidate(t, RB_INSERT(tree, tag_id', n), tag_id')
          /\ ptr' = [ptr EXCEPT ![t] = n]
    /\ ret' = [ret EXCEPT ![t] = NextId]
    /\ UNCHANGED <<rwVars, inited, callVars, seen, clientVars>>

(* tag_tree_node_destroy(metatag), from either kind of creation.           *)
MetaDrop(t) ==
    /\ pc[t] = "meta_drop"
    /\ NodeDestroy(t, old[t])
    /\ old' = [old EXCEPT ![t] = NULL]
    /\ Goto(t, IF op[t] = "create" THEN "tag_lock" ELSE "meta_fill")
    /\ UNCHANGED <<rwVars, treeVars, callVars, ptr, seen, ret, clientVars>>

TagLock(t) ==
    /\ pc[t] = "tag_lock"
    /\ MTX_LOCK(t, ptr[t])
    /\ Goto(t, "tag_unlock")
    /\ UNCHANGED <<rwVars, treeVars, nodeVars, callVars, ptr, old, seen, ret, clientVars>>

TagUnlock(t) ==
    /\ pc[t] = "tag_unlock"
    /\ MTX_UNLOCK(ptr[t])
    /\ Goto(t, "finish")
    /\ UNCHANGED <<rwVars, treeVars, nodeVars, callVars, ptr, old, seen, ret, clientVars>>

(* The first half of tag_tree_metanode_create: unlink the old metatag.     *)
MetaCreate(t) ==
    /\ pc[t] = "meta_create"
    /\ LET meta == RB_FIND(tree, tag_id, METATAG_ID)
       IN  IF meta = NULL
           THEN /\ Goto(t, "meta_fill")
                /\ UNCHANGED <<tree, tree_size, old>>
           ELSE /\ Goto(t, "meta_drop")
                /\ tree' = RB_REMOVE(tree, meta)
                /\ Resize(-1)
                /\ old' = [old EXCEPT ![t] = meta]
    /\ UNCHANGED <<rwVars, inited, nodeVars, mtx, callVars, ptr, seen, ret, clientVars>>

MetaFill(t) ==
    /\ pc[t] = "meta_fill"
    /\ \E n \in Nodes \ alloc : LinkMetanode(n)
    /\ ret' = [ret EXCEPT ![t] = METATAG_ID]
    /\ Goto(t, "finish")
    /\ UNCHANGED <<rwVars, callVars, ptr, old, seen, clientVars>>

(* RW_UNLOCK(&tag_tree_mtx); return ret;                                   *)
FinishLocked(t) ==  \* Mutant: no RW_UNLOCK.
    /\ pc[t] = "finish"
    /\ Return(t)
    /\ UNCHANGED <<rwVars, treeVars, nodeVars, mtx, callVars, old, seen, ret, clientVars>>

Finish(t) ==
    /\ pc[t] = "finish"
    /\ RW_UNLOCK(t)
    /\ Return(t)
    /\ UNCHANGED <<treeVars, nodeVars, mtx, callVars, old, seen, ret, clientVars>>

-----------------------------------------------------------------------------
(* tag_tree_remove.  The tag's mutex is taken with the write lock held,    *)
(* released after it, and taken again to free the node.                    *)

RemoveLockShared(t) ==  \* Mutant: the read lock.
    /\ pc[t] = "remove_lock"
    /\ RW_RDLOCK(t)
    /\ Goto(t, "remove_find")
    /\ UNCHANGED <<treeVars, nodeVars, mtx, callVars, ptr, old, seen, ret, clientVars>>

RemoveLock(t) ==
    /\ pc[t] = "remove_lock"
    /\ RW_WRLOCK(t)
    /\ Goto(t, "remove_find")
    /\ UNCHANGED <<treeVars, nodeVars, mtx, callVars, ptr, old, seen, ret, clientVars>>

RemoveFind(t) ==
    /\ pc[t] = "remove_find"
    /\ LET n == RB_FIND(tree, tag_id, arg[t])
       IN  /\ ptr' = [ptr EXCEPT ![t] = n]
           /\ Goto(t, IF n = NULL THEN "finish" ELSE "remove_mtx")
           /\ ret' = [ret EXCEPT ![t] = IF n = NULL THEN PLCTAG_ERR_NOT_FOUND ELSE @]
    /\ UNCHANGED <<rwVars, treeVars, nodeVars, mtx, callVars, old, seen, clientVars>>

RemoveMtx(t) ==
    /\ pc[t] = "remove_mtx"
    /\ MTX_LOCK(t, ptr[t])
    /\ Goto(t, "remove_unlink")
    /\ UNCHANGED <<rwVars, treeVars, nodeVars, callVars, ptr, old, seen, ret, clientVars>>

RemoveUnlink(t) ==
    /\ pc[t] = "remove_unlink"
    /\ tree' = RB_REMOVE(tree, ptr[t])
    /\ Resize(-1)
    /\ RW_UNLOCK(t)
    /\ Goto(t, "remove_unlock")
    /\ UNCHANGED <<inited, nodeVars, mtx, callVars, ptr, old, seen, ret, clientVars>>

RemoveUnlock(t) ==
    /\ pc[t] = "remove_unlock"
    /\ MTX_UNLOCK(ptr[t])
    /\ Goto(t, "remove_destroy")
    /\ UNCHANGED <<rwVars, treeVars, nodeVars, callVars, ptr, old, seen, ret, clientVars>>

RemoveDestroy(t) ==
    /\ pc[t] = "remove_destroy"
    /\ NodeDestroy(t, ptr[t])
    /\ Return(t)
    /\ UNCHANGED <<rwVars, treeVars, callVars, old, seen, ret, clientVars>>

-----------------------------------------------------------------------------
(* tag_tree_lookup: the write lock for the metatag, which a lookup may     *)
(* have to build, the read lock for any other tag.                         *)

LookupLockShared(t) ==  \* Mutant: the read lock for every tag.
    /\ pc[t] = "lookup_lock"
    /\ RW_RDLOCK(t)
    /\ Goto(t, "lookup_find")
    /\ UNCHANGED <<treeVars, nodeVars, mtx, callVars, ptr, old, seen, ret, clientVars>>

LookupLock(t) ==
    /\ pc[t] = "lookup_lock"
    /\ IF arg[t] = METATAG_ID THEN RW_WRLOCK(t) ELSE RW_RDLOCK(t)
    /\ Goto(t, "lookup_find")
    /\ UNCHANGED <<treeVars, nodeVars, mtx, callVars, ptr, old, seen, ret, clientVars>>

LookupFind(t) ==
    /\ pc[t] = "lookup_find"
    /\ LET n == RB_FIND(tree, tag_id, arg[t])
       IN  \/ /\ n # NULL \/ arg[t] # METATAG_ID
              /\ ptr' = [ptr EXCEPT ![t] = n]
              /\ ret' = [ret EXCEPT ![t] = IF n = NULL THEN PLCTAG_ERR_NOT_FOUND ELSE @]
              /\ UNCHANGED <<treeVars, nodeVars, mtx>>
           \/ /\ n = NULL /\ arg[t] = METATAG_ID
              /\ \E m \in Nodes \ alloc :
                    /\ LinkMetanode(m)
                    /\ ptr' = [ptr EXCEPT ![t] = m]
              /\ UNCHANGED ret
    /\ Goto(t, "lookup_unlock")
    /\ UNCHANGED <<rwVars, callVars, old, seen, clientVars>>

(* The pointer leaves the protection of the tree's lock; what comes next   *)
(* is the caller's business.                                               *)
LookupUnlock(t) ==
    /\ pc[t] = "lookup_unlock"
    /\ RW_UNLOCK(t)
    /\ \/ /\ ptr[t] = NULL \/ op[t] = "status"
          /\ Return(t)
       \/ /\ ptr[t] # NULL /\ op[t] # "status"
          /\ Goto(t, IF op[t] = "unlock" THEN "mtx_unlock" ELSE "mtx_lock")
          /\ UNCHANGED ptr
    /\ UNCHANGED <<treeVars, nodeVars, mtx, callVars, old, seen, ret, clientVars>>

-----------------------------------------------------------------------------
(* The API calls' use of one tag under its mutex.                          *)

(* MTX_LOCK(&t->mtx).  plc_tag_lock returns with the mutex held.           *)
MtxLock(t) ==
    /\ pc[t] = "mtx_lock"
    /\ MTX_LOCK(t, ptr[t])
    /\ \/ /\ op[t] = "lock"
          /\ Return(t)
          /\ held' = [held EXCEPT ![t] = @ \cup {arg[t]}]
       \/ /\ op[t] # "lock"
          /\ Goto(t, IF op[t] \in CbOps THEN "set_cb"
                     ELSE IF op[t] = "get_size" THEN "size" ELSE "started")
          /\ UNCHANGED <<ptr, held>>
    /\ UNCHANGED <<rwVars, treeVars, nodeVars, callVars, old, seen, ret, budget>>

(* The READ_STARTED or WRITE_STARTED event, if a callback is registered.   *)
Started(t) ==
    /\ pc[t] = "started"
    /\ seen' = [seen EXCEPT ![t] = IF cb[ptr[t]] THEN @ \cup {"started"} ELSE @]
    /\ Goto(t, "access")
    /\ UNCHANGED <<rwVars, treeVars, nodeVars, mtx, callVars, ptr, old, ret, clientVars>>

(* The end of a call that delivers events: COMPLETED; or, when the offset  *)
(* of a get or set is out of range, ABORTED for a scalar and no event for  *)
(* an array (the metatag is the one array there is).  A get or set tests   *)
(* the callback anew, a read or write only the once.                       *)
Access(t) ==
    /\ pc[t] = "access"
    /\ \E bad \in BOOLEAN :
          /\ bad => op[t] \in DataOps
          /\ seen' = [seen EXCEPT ![t] =
                IF /\ IF op[t] \in DataOps THEN cb[ptr[t]] ELSE "started" \in @
                   /\ ~(bad /\ tag_id[ptr[t]] = METATAG_ID)
                THEN @ \cup {"ended"} ELSE @]
          /\ ret' = [ret EXCEPT ![t] = IF bad THEN PLCTAG_ERR_BAD_PARAM ELSE @]
    /\ Goto(t, "mtx_unlock")
    /\ UNCHANGED <<rwVars, treeVars, nodeVars, mtx, callVars, ptr, old, clientVars>>

SetCb(t) ==
    /\ pc[t] = "set_cb"
    /\ cb' = [cb EXCEPT ![ptr[t]] = (op[t] = "register")]
    /\ Goto(t, "mtx_unlock")
    /\ UNCHANGED <<rwVars, treeVars, alloc, tag_id, listing, mtx, callVars, ptr, old,
                   seen, ret, clientVars>>

(* plc_tag_get_size takes its result from the pointer, not from the tag.   *)
GetSize(t) ==
    /\ pc[t] = "size"
    /\ ret' = [ret EXCEPT ![t] = ptr[t]]
    /\ Goto(t, "mtx_unlock")
    /\ UNCHANGED <<rwVars, treeVars, nodeVars, mtx, callVars, ptr, old, seen, clientVars>>

(* MTX_UNLOCK(&t->mtx), of plc_tag_unlock as of any other call.            *)
MtxUnlockOnSuccess(t) ==  \* Mutant: an error path returns with the mutex held.
    /\ pc[t] = "mtx_unlock"
    /\ IF ret[t] = PLCTAG_ERR_BAD_PARAM THEN UNCHANGED mtx ELSE MTX_UNLOCK(ptr[t])
    /\ Return(t)
    /\ held' = [held EXCEPT ![t] = IF op[t] = "unlock" THEN @ \ {arg[t]} ELSE @]
    /\ UNCHANGED <<rwVars, treeVars, nodeVars, callVars, old, seen, ret, budget>>

MtxUnlock(t) ==
    /\ pc[t] = "mtx_unlock"
    /\ MTX_UNLOCK(ptr[t])
    /\ Return(t)
    /\ held' = [held EXCEPT ![t] = IF op[t] = "unlock" THEN @ \ {arg[t]} ELSE @]
    /\ UNCHANGED <<rwVars, treeVars, nodeVars, callVars, old, seen, ret, budget>>

-----------------------------------------------------------------------------
Init ==
    /\ rw_writer = NULL
    /\ rw_readers = {}
    /\ inited = FALSE
    /\ tree = {}
    /\ tree_size = 0
    /\ alloc = {}
    /\ tag_id = [n \in Nodes |-> 0]
    /\ mtx = [n \in Nodes |-> NULL]
    /\ cb = [n \in Nodes |-> FALSE]
    /\ listing = [n \in Nodes |-> {}]
    /\ pc = [t \in Threads |-> "idle"]
    /\ op = [t \in Threads |-> "status"]
    /\ arg = [t \in Threads |-> 0]
    /\ ptr = [t \in Threads |-> NULL]
    /\ old = [t \in Threads |-> NULL]
    /\ seen = [t \in Threads |-> {}]
    /\ ret = [t \in Threads |-> PLCTAG_STATUS_OK]
    /\ held = [t \in Threads |-> {}]
    /\ budget = [t \in Threads |-> MaxCalls]

(* The library's next step of thread t's call.                             *)
Step(t) ==
    \/ InitRdlock(t) \/ InitCheck(t) \/ InitWrlock(t) \/ InitBody(t)
    \/ InsertLock(t) \/ NodeCreate(t) \/ MetaDrop(t) \/ TagLock(t) \/ TagUnlock(t)
    \/ MetaCreate(t) \/ MetaFill(t) \/ Finish(t)
    \/ EarlyReturn(t) \/ RemoveLock(t) \/ RemoveFind(t) \/ RemoveMtx(t)
    \/ RemoveUnlink(t) \/ RemoveUnlock(t) \/ RemoveDestroy(t)
    \/ LookupLock(t) \/ LookupFind(t) \/ LookupUnlock(t)
    \/ MtxLock(t) \/ Started(t) \/ Access(t) \/ SetCb(t) \/ GetSize(t)
    \/ MtxUnlock(t)

Next == \E t \in Threads : Step(t) \/ \E r \in Requests : Start(t, r[1], r[2])

(* Any client: every call at any time, with any id.                        *)
Spec == Init /\ [][Next]_vars

(* A client that blocks on no mutex of its own: it unlocks what it locked, *)
(* and in between makes no other call on that tag.  (The header would let  *)
(* it lock, get or set, and unlock; in this code the get waits for ever.)  *)
Careful(t, o, i) == IF o = "unlock" THEN i \in held[t] ELSE i \notin held[t]

CarefulStart(t) == \E r \in Requests : Careful(t, r[1], r[2]) /\ Start(t, r[1], r[2])

CarefulNext == \E t \in Threads : Step(t) \/ CarefulStart(t)

CarefulSpec == Init /\ [][CarefulNext]_vars

(* Every thread is scheduled, and a careful client unlocks in the end.     *)
Unlocks(t) == \E i \in held[t] \cap Ids : "unlock" \in Ops /\ Start(t, "unlock", i)

Fairness == \A t \in Threads : WF_vars(Step(t)) /\ WF_vars(Unlocks(t))

FairSpec        == Spec /\ Fairness
FairCarefulSpec == CarefulSpec /\ Fairness

-----------------------------------------------------------------------------
(* Properties.                                                             *)

PcLabels ==
    {"idle", "init_rdlock", "init_check", "init_wrlock", "init_body",
     "insert_lock", "node_create", "meta_drop", "tag_lock", "tag_unlock",
     "meta_create", "meta_fill", "finish", "early_return", "remove_lock",
     "remove_find", "remove_mtx", "remove_unlink", "remove_unlock",
     "remove_destroy", "lookup_lock", "lookup_find", "lookup_unlock",
     "mtx_lock", "started", "access", "set_cb", "size", "mtx_unlock"}

(* Every variable has its type; ids are positive.                          *)
TypeOK ==
    /\ rw_writer \in Threads \cup {NULL}
    /\ rw_readers \subseteq Threads
    /\ inited \in BOOLEAN
    /\ tree \subseteq Nodes
    /\ tree_size \in 0 .. SizeMod - 1
    /\ alloc \subseteq Nodes
    /\ tag_id \in [Nodes -> Nat]
    /\ mtx \in [Nodes -> Threads \cup {NULL}]
    /\ cb \in [Nodes -> BOOLEAN]
    /\ listing \in [Nodes -> SUBSET Nat]
    /\ pc \in [Threads -> PcLabels]
    /\ op \in [Threads -> AllOps]
    /\ arg \in [Threads -> Nat]
    /\ ptr \in [Threads -> Nodes \cup {NULL}]
    /\ old \in [Threads -> Nodes \cup {NULL}]
    /\ seen \in [Threads -> SUBSET {"started", "ended"}]
    /\ ret \in [Threads -> Nat \cup Codes \cup Nodes \cup {NULL}]
    /\ held \in [Threads -> SUBSET Nat]
    /\ budget \in [Threads -> Nat]

(* Where a call holds tag_tree_mtx, and how.                               *)
HoldsWrite(t) ==
    \/ pc[t] \in {"init_body", "node_create", "meta_drop", "tag_lock",
                  "tag_unlock", "meta_create", "meta_fill", "finish",
                  "remove_find", "remove_mtx", "remove_unlink"}
    \/ pc[t] \in {"lookup_find", "lookup_unlock"} /\ arg[t] = METATAG_ID

HoldsRead(t) ==
    \/ pc[t] = "init_check"
    \/ pc[t] \in {"lookup_find", "lookup_unlock"} /\ arg[t] # METATAG_ID

(* No path of any call leaks tag_tree_mtx, releases it twice or takes it   *)
(* again while holding it: a thread is its writer or one of its readers    *)
(* exactly at the points of the code that are under that lock.             *)
RwBalanced == \A t \in Threads :
    /\ rw_writer = t <=> HoldsWrite(t)
    /\ t \in rw_readers <=> HoldsRead(t)

(* The tree does not change under a thread that holds tag_tree_mtx, for    *)
(* reading or for writing, unless that thread itself is moving.            *)
TreeStableUnderLock ==
    [][\A t \in Threads : (HoldsRead(t) \/ HoldsWrite(t)) /\ pc'[t] = pc[t]
                          => UNCHANGED <<tree, inited>>]_vars

(* The node thread t has unlinked and is about to free.                    *)
Dying(t) ==
    IF pc[t] \in {"remove_unlock", "remove_destroy"} THEN {ptr[t]}
    ELSE IF pc[t] = "meta_drop" THEN {old[t]} ELSE {}

(* Every allocated node is linked in the tree or about to be freed by one  *)
(* thread, never both and never by two: the tree holds no dangling         *)
(* pointer, no node leaks and none is freed twice, whatever the clients do. *)
NodesAccounted ==
    /\ alloc = tree \cup UNION {Dying(t) : t \in Threads}
    /\ \A t \in Threads : Dying(t) \cap tree = {}
    /\ \A t, u \in Threads : t # u => Dying(t) \cap Dying(u) = {}

(* "Invalidate the metatag" (tagtree.c:159): a metatag that is in the tree *)
(* lists every other tag that is.                                          *)
MetaListsAll == \A n \in tree : tag_id[n] = METATAG_ID =>
    {tag_id[m] : m \in tree \ {n}} \subseteq listing[n]

(* Thread t is between its MTX_LOCK and its MTX_UNLOCK of a tag.           *)
Inside(t) ==
    \/ pc[t] \in {"started", "access", "set_cb", "size"}
    \/ pc[t] = "mtx_unlock" /\ op[t] # "unlock"

(* t has tag i to itself: inside a call on it, or between lock and unlock. *)
Owns(t, i) == i \in held[t] \/ (Inside(t) /\ arg[t] = i)

(* "Lock the tag against use by other threads" (libplctag.h): no two       *)
(* threads have a tag to themselves at once.                               *)
TagExclusion == \A t, u \in Threads, i \in Ids : Owns(t, i) /\ Owns(u, i) => t = u

(* Inside a tag's critical section the pointer from the lookup, which was  *)
(* used outside every lock, still denotes allocated memory and the tag the *)
(* client named.                                                           *)
UseLive == \A t \in Threads : Inside(t) =>
    ptr[t] \in alloc /\ tag_id[ptr[t]] = arg[t]

(* A call delivers both its first and its last event or neither, although  *)
(* it tests t->cb anew each time.                                          *)
EventsBracketed == \A t \in Threads :
    pc[t] = "mtx_unlock" => seen[t] \in {{}, {"started", "ended"}}

(* Inside a tag's critical section a thread works on allocated memory and  *)
(* nobody else is inside the same node: a destroy or a creation frees no   *)
(* node that a call has entered, although the call found it under a lock   *)
(* that it has dropped since, and although the tag's mutex is let go       *)
(* before the node is freed.  (The node may have become another tag's.     *)
(* This is with the lock word of a freed node left as it was, the mildest  *)
(* outcome for a call that waits for it.)                                  *)
InsideAlone == \A t \in Threads : Inside(t) =>
    /\ ptr[t] \in alloc
    /\ \A u \in Threads : Inside(u) /\ ptr[u] = ptr[t] => u = t

(* Every call that creates or destroys returns: such a call waits for      *)
(* mutexes of tags while it holds tag_tree_mtx for writing, and the calls  *)
(* that have these mutexes let go of them without that lock.               *)
TreeCallsReturn == \A t \in Threads :
    pc[t] # "idle" /\ op[t] \in CreateOps \cup {"destroy"} ~> pc[t] = "idle"

-----------------------------------------------------------------------------
(* What documentation says and the code does not do.                       *)

(* "call [...] plc_tag_unlock when you have everything you need"           *)
(* (libplctag.h): a call to plc_tag_unlock returns.                        *)
UnlockReturns == \A t \in Threads :
    pc[t] # "idle" /\ op[t] = "unlock" ~> pc[t] = "idle"

-----------------------------------------------------------------------------
(* The refinement mapping to TagRegistry: a call has acted once the tree   *)
(* has been searched or changed for it.                                    *)

Acted(t) ==
    \/ pc[t] \in {"tag_lock", "tag_unlock", "finish", "remove_unlock",
                  "remove_destroy", "lookup_unlock", "mtx_lock", "started",
                  "access", "set_cb", "size", "mtx_unlock"}
    \/ pc[t] = "meta_drop" /\ op[t] = "create"

Phase(t) == IF pc[t] = "idle" THEN "idle" ELSE IF Acted(t) THEN "done" ELSE "called"

(* What the call may still return: a get or set that found its tag has its *)
(* offset to check, a get_size has a pointer to convert.                   *)
Undecided(t) ==
    /\ op[t] \in DataOps
    /\ pc[t] \in {"lookup_unlock", "mtx_lock", "started", "access"}
    /\ ret[t] = PLCTAG_STATUS_OK

Unsized(t) ==
    /\ op[t] = "get_size"
    /\ pc[t] \in {"lookup_unlock", "mtx_lock", "size"}
    /\ ptr[t] # NULL

Outcome(t) ==
    IF Phase(t) = "called" THEN {}
    ELSE IF Undecided(t) THEN {PLCTAG_STATUS_OK, PLCTAG_ERR_BAD_PARAM}
    ELSE IF Unsized(t) THEN Nodes ELSE {ret[t]}

Tags     == IF inited THEN {tag_id[n] : n \in tree} \ {METATAG_ID} ELSE PredefinedIds
Phases   == [t \in Threads |-> Phase(t)]
Outcomes == [t \in Threads |-> Outcome(t)]

Registry == INSTANCE TagRegistry WITH
    Sizes <- Nodes, tags <- Tags, phase <- Phases, may <- Outcomes

(* The calls act on the set of tags as the registry says: each once, when  *)
(* it searches or changes the tree, with the result it then returns.       *)
RefinesRegistry == Registry!Spec

=============================================================================
