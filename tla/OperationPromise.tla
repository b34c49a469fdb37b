-------------------------- MODULE OperationPromise --------------------------
(***************************************************************************)
(* What an operation of an event-backed run promises: its provider is      *)
(* dispatched to at most one process, a refused creation may be tried      *)
(* again, what the process returned is judged once, and an operation that  *)
(* is settled, by an acceptance or a rejection, never moves but to have    *)
(* its transition applied.                                                 *)
(***************************************************************************)
CONSTANTS Operations

VARIABLES phase, spent      \* spent: the operations that had a process
vars == <<phase, spent>>

Phases == {"none", "requested", "intended", "refused", "received", "answered",
           "valid", "unusable", "accepted", "rejected"}

Moves ==
    {<<"none", "requested">>, <<"requested", "intended">>, <<"refused", "intended">>,
     <<"intended", "refused">>, <<"intended", "received">>, <<"received", "answered">>,
     <<"answered", "valid">>, <<"answered", "unusable">>, <<"valid", "accepted">>}
    \union {<<p, "rejected">> : p \in {"requested", "intended", "refused", "valid", "unusable"}}

Init == phase = [o \in Operations |-> "none"] /\ spent = {}

Move ==
    \E o \in Operations, p \in Phases :
        /\ <<phase[o], p>> \in Moves
        /\ p = "refused" => o \notin spent
        /\ p = "received" => o \in spent
        /\ phase' = [phase EXCEPT ![o] = p]
        /\ UNCHANGED spent

Spawn ==
    \E o \in Operations \ spent :
        /\ phase[o] = "intended"
        /\ spent' = spent \union {o}
        /\ UNCHANGED phase

Next == Move \/ Spawn
Spec == Init /\ [][Next]_vars
=============================================================================
