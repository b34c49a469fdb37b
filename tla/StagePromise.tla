---------------------------- MODULE StagePromise ----------------------------
(***************************************************************************)
(* What a Stage Start authorization promises: one input is authorized, one *)
(* run consumes it, and only that run ever works under it.  A power failure *)
(* may take back what no run worked under yet, and nothing else.           *)
(***************************************************************************)
CONSTANTS Inputs, Runs, None

VARIABLES
    granted,    \* the input that is authorized, or None
    consumed,   \* of each input, the run that consumed it, or None
    worked      \* the inputs runs worked under, and those runs
vars == <<granted, consumed, worked>>

Init == granted = None /\ consumed = [l \in Inputs |-> None] /\ worked = {}

Grant(l) ==
    /\ granted = None
    /\ granted' = l
    /\ UNCHANGED <<consumed, worked>>

Consume(l, r) ==
    /\ granted = l /\ consumed[l] = None
    /\ consumed' = [consumed EXCEPT ![l] = r]
    /\ UNCHANGED <<granted, worked>>

Work(l, r) ==
    /\ granted = l /\ consumed[l] = r
    /\ worked' = worked \union {<<l, r>>}
    /\ UNCHANGED <<granted, consumed>>

TakeBack ==
    /\ worked = {}
    /\ granted' \in {granted, None}
    /\ consumed' \in {c \in [Inputs -> Runs \union {None}] :
                       \A l \in Inputs : c[l] \in {consumed[l], None}}
    /\ UNCHANGED worked

Next ==
    \/ \E l \in Inputs : Grant(l)
    \/ \E l \in Inputs, r \in Runs : Consume(l, r) \/ Work(l, r)
    \/ TakeBack

Spec == Init /\ [][Next]_vars
=============================================================================
