------------------------------- MODULE KeySet -------------------------------
(***************************************************************************)
(* What the users of sys/tree.h rely on: a set of keys.  RB_INSERT returns *)
(* the element that has the key already, or NULL; RB_REMOVE what it took   *)
(* out.  Each acts once; a call may go on for a while after it acted.      *)
(***************************************************************************)
CONSTANTS Keys, NULL

VARIABLES
    keys,   \* the keys in the set
    busy,   \* a call that acted has not returned
    ret     \* what the last call returns

vars == <<keys, busy, ret>>

Init == keys = {} /\ busy = FALSE /\ ret = NULL

Insert(k) ==
    /\ ~busy /\ busy' \in BOOLEAN
    /\ keys' = keys \cup {k}
    /\ ret' = IF k \in keys THEN k ELSE NULL

Remove(k) ==
    /\ ~busy /\ busy' \in BOOLEAN
    /\ k \in keys
    /\ keys' = keys \ {k}
    /\ ret' = k

Return == busy /\ ~busy' /\ UNCHANGED <<keys, ret>>

Next == Return \/ \E k \in Keys : Insert(k) \/ Remove(k)

(* Every call returns.                                                     *)
Returns == busy ~> ~busy

Spec == Init /\ [][Next]_vars /\ Returns

=============================================================================
