----------------------------- MODULE TagRegistry -----------------------------
(***************************************************************************)
(* What plcstub's API promises about which tags exist: a set of ids on     *)
(* which each call acts once, atomically, between its invocation and its   *)
(* return.  The predefined tags are there from the start (that they are    *)
(* really made by the first call is not visible), a new tag's id is one    *)
(* above the largest, only a destroy of its id removes a tag, and the      *)
(* metatag always exists.                                                  *)
(***************************************************************************)
EXTENDS Integers

CONSTANTS
    Threads,        \* client threads
    Requests,       \* the <<operation, id>> pairs a client may ask for
    DataOps,        \* the operations that may also end in BAD_PARAM
    PredefinedIds,  \* the tags of tags.inc
    Sizes,          \* what plc_tag_get_size may return of a tag: any pointer
    METATAG_ID, PLCTAG_STATUS_OK, PLCTAG_ERR_BAD_PARAM, PLCTAG_ERR_NOT_FOUND

VARIABLES
    tags,       \* ids of the tags that exist, the metatag aside
    phase,      \* "idle", "called" or "done" (has acted, has not returned)
    op, arg,    \* each thread's current or last call
    may         \* the values the call may still return

vars == <<tags, phase, op, arg, may>>

Init ==
    /\ tags = PredefinedIds
    /\ phase = [t \in Threads |-> "idle"]
    /\ op = [t \in Threads |-> "status"]
    /\ arg = [t \in Threads |-> 0]
    /\ may = [t \in Threads |-> {PLCTAG_STATUS_OK}]

Call(t, o, i) ==
    /\ phase[t] = "idle"
    /\ phase' = [phase EXCEPT ![t] = "called"]
    /\ op' = [op EXCEPT ![t] = o]
    /\ arg' = [arg EXCEPT ![t] = i]
    /\ may' = [may EXCEPT ![t] = {}]
    /\ UNCHANGED tags

(* The call acts: from now on it can return only a value of results.       *)
Act(t, results) ==
    /\ phase[t] = "called"
    /\ phase' = [phase EXCEPT ![t] = "done"]
    /\ may' = [may EXCEPT ![t] = results]
    /\ UNCHANGED <<op, arg>>

Create(t) ==
    /\ op[t] = "create"
    /\ \E i \in {k + 1 : k \in tags \cup {METATAG_ID}} :
          /\ \A k \in tags \cup {METATAG_ID} : k < i
          /\ Act(t, {i})
          /\ tags' = tags \cup {i}

CreateMeta(t) ==
    /\ op[t] = "create_meta"
    /\ Act(t, {METATAG_ID})
    /\ UNCHANGED tags

Destroy(t) ==
    /\ op[t] = "destroy"
    /\ Act(t, {IF arg[t] \in tags THEN PLCTAG_STATUS_OK ELSE PLCTAG_ERR_NOT_FOUND})
    /\ tags' = tags \ {arg[t]}

(* Destroying the metatag is accepted and does nothing; a read or write    *)
(* with a negative timeout and a creation with bad attributes are refused. *)
EarlyReturn(t) ==
    /\ phase[t] = "called"
    /\ phase' = [phase EXCEPT ![t] = "idle"]
    /\ \/ /\ op[t] = "destroy" /\ arg[t] = METATAG_ID
          /\ may' = [may EXCEPT ![t] = {PLCTAG_STATUS_OK}]
       \/ /\ op[t] \in {"read", "write", "create"}
          /\ may' = [may EXCEPT ![t] = {PLCTAG_ERR_BAD_PARAM}]
    /\ UNCHANGED <<tags, op, arg>>

(* Any call that names a tag and leaves the set of tags alone.             *)
Use(t) ==
    /\ op[t] \notin {"create", "create_meta", "destroy"}
    /\ Act(t, IF arg[t] \notin tags \cup {METATAG_ID} THEN {PLCTAG_ERR_NOT_FOUND}
              ELSE IF op[t] \in DataOps THEN {PLCTAG_STATUS_OK, PLCTAG_ERR_BAD_PARAM}
              ELSE IF op[t] = "get_size" THEN Sizes
              ELSE {PLCTAG_STATUS_OK})
    /\ UNCHANGED tags

(* A get or set finds its offset in or out of range after it found the     *)
(* tag, and a get_size fixes its result.                                   *)
Decide(t) ==
    /\ phase[t] = "done"
    /\ \E r \in may[t] : may' = [may EXCEPT ![t] = {r}]
    /\ UNCHANGED <<tags, phase, op, arg>>

Return(t) ==
    /\ phase[t] = "done"
    /\ \E r \in may[t] : may[t] = {r}
    /\ phase' = [phase EXCEPT ![t] = "idle"]
    /\ UNCHANGED <<tags, op, arg, may>>

Next == \E t \in Threads :
    \/ \E r \in Requests : Call(t, r[1], r[2])
    \/ Create(t) \/ CreateMeta(t) \/ Destroy(t) \/ EarlyReturn(t) \/ Use(t)
    \/ Decide(t) \/ Return(t)

Spec == Init /\ [][Next]_vars

=============================================================================
