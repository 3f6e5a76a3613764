----------------------------- MODULE Callbacks ------------------------------
(***************************************************************************)
(* Callbacks that call the library.  An event is delivered by calling the  *)
(* function the client registered, in the middle of the API call and with  *)
(* the tag's mutex held.  That function may make calls of its own, on any  *)
(* tag, which may deliver events in turn; when it is done the outer call   *)
(* goes on where it was.  The calls are those of TagTree.                  *)
(***************************************************************************)
EXTENDS TagTree, Sequences

VARIABLES
    entering,   \* whether a thread has just come to the call of a callback
    frames      \* the calls in which it is inside a callback, outermost first

cbVars == <<vars, entering, frames>>

-----------------------------------------------------------------------------
(* The library's next step, which may be the delivery of an event.         *)
CbStep(t) ==
    /\ ~entering[t]
    /\ Step(t)
    /\ entering' = [entering EXCEPT ![t] = (seen'[t] # seen[t])]
    /\ UNCHANGED frames

CbStart(t, o, i) ==
    /\ ~entering[t]
    /\ Start(t, o, i)
    /\ UNCHANGED <<entering, frames>>

(* Mutant: the tag's mutex is released while the callback runs.            *)
EnterUnlocked(t) ==
    /\ entering[t]
    /\ entering' = [entering EXCEPT ![t] = FALSE]
    /\ frames' = [frames EXCEPT ![t] = Append(@,
          [pc |-> pc[t], op |-> op[t], arg |-> arg[t], ptr |-> ptr[t],
           seen |-> seen[t], ret |-> ret[t]])]
    /\ Return(t)
    /\ MTX_UNLOCK(ptr[t])
    /\ UNCHANGED <<rwVars, treeVars, nodeVars, callVars, old, seen, ret, clientVars>>

(* t->cb(tag, event, status): the call's locals stay on the stack, and the *)
(* client is free to make other calls.                                     *)
Enter(t) ==
    /\ entering[t]
    /\ entering' = [entering EXCEPT ![t] = FALSE]
    /\ frames' = [frames EXCEPT ![t] = Append(@,
          [pc |-> pc[t], op |-> op[t], arg |-> arg[t], ptr |-> ptr[t],
           seen |-> seen[t], ret |-> ret[t]])]
    /\ Return(t)
    /\ UNCHANGED <<rwVars, treeVars, nodeVars, mtx, callVars, old, seen, ret, clientVars>>

(* The callback returns to the call that made it.                          *)
Resume(t) ==
    /\ pc[t] = "idle" /\ frames[t] # <<>>
    /\ LET f == frames[t][Len(frames[t])]
       IN  /\ pc'   = [pc EXCEPT ![t] = f.pc]
           /\ op'   = [op EXCEPT ![t] = f.op]
           /\ arg'  = [arg EXCEPT ![t] = f.arg]
           /\ ptr'  = [ptr EXCEPT ![t] = f.ptr]
           /\ seen' = [seen EXCEPT ![t] = f.seen]
           /\ ret'  = [ret EXCEPT ![t] = f.ret]
    /\ frames' = [frames EXCEPT ![t] = SubSeq(@, 1, Len(@) - 1)]
    /\ UNCHANGED <<rwVars, treeVars, nodeVars, mtx, old, clientVars, entering>>

-----------------------------------------------------------------------------
CbInit ==
    /\ Init
    /\ entering = [t \in Threads |-> FALSE]
    /\ frames = [t \in Threads |-> <<>>]

(* The tags whose mutex t holds between steps of its own: those it locked  *)
(* and those whose callbacks it is in.                                     *)
Around(t) == held[t] \cup {frames[t][k].arg : k \in DOMAIN frames[t]}

(* A client that takes mutexes in the order of ids, in its callbacks too.  *)
Ordered(t, o, i) ==
    IF o = "unlock" THEN i \in held[t]
    ELSE o \in CreateOps \cup {"status"} \/ \A j \in Around(t) : j < i

(* It creates a tag only while there is an address for it: the model's     *)
(* bound on memory.                                                        *)
Room == Cardinality(Nodes) >
    (IF inited THEN Cardinality(alloc) ELSE NInit)
    + Cardinality({t \in Threads : pc[t] # "idle" /\ op[t] \in CreateOps})

OrderedStart(t) == \E r \in Requests :
    /\ Ordered(t, r[1], r[2])
    /\ r[1] \in CreateOps => Room
    /\ CbStart(t, r[1], r[2])

CbNext ==
    \E t \in Threads :
        CbStep(t) \/ Enter(t) \/ Resume(t) \/ \E r \in Requests : CbStart(t, r[1], r[2])

OrderedNext == \E t \in Threads : CbStep(t) \/ Enter(t) \/ Resume(t) \/ OrderedStart(t)

(* Every thread is scheduled, a callback returns in the end, and a client  *)
(* unlocks in the end what it locked.                                      *)
CbFairness == \A t \in Threads :
    /\ WF_cbVars(CbStep(t)) /\ WF_cbVars(Enter(t)) /\ WF_cbVars(Resume(t))
    /\ WF_cbVars(\E i \in held[t] \cap Ids : "unlock" \in Ops /\ CbStart(t, "unlock", i))

CbSpec          == CbInit /\ [][CbNext]_cbVars
FairCbSpec      == CbSpec /\ CbFairness
OrderedSpec     == CbInit /\ [][OrderedNext]_cbVars
FairOrderedSpec == OrderedSpec /\ CbFairness

-----------------------------------------------------------------------------
Done(t) == pc[t] = "idle" /\ frames[t] = <<>>

(* Every call of clients that take mutexes in order returns, with whatever *)
(* calls their callbacks make: a callback holds up only those who want its *)
(* tag, and no error path keeps a lock.                                    *)
CallsReturn == \A t \in Threads : ~Done(t) ~> Done(t)

(* While a callback runs its tag is its caller's: no other thread is in a  *)
(* call on it or has it locked, and the call it interrupts, which uses the *)
(* pointer it looked up before, goes on to find the tag as it was.         *)
CallbackOwnsTag == \A t \in Threads : \A k \in DOMAIN frames[t] :
    LET f == frames[t][k]
    IN  /\ f.ptr \in alloc /\ tag_id[f.ptr] = f.arg /\ mtx[f.ptr] = t
        /\ \A u \in Threads \ {t} :
              ~Owns(u, f.arg) /\ \A l \in DOMAIN frames[u] : frames[u][l].arg # f.arg

(* "The callback is called outside of the internal tag mutex so it can     *)
(* call any tag functions safely" (libplctag.h:202): a callback returns.   *)
CallbacksReturn == \A t \in Threads : frames[t] # <<>> ~> frames[t] = <<>>

=============================================================================
