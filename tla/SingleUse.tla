------------------------------ MODULE SingleUse ------------------------------
(***************************************************************************)
(* What an approval promises: each operation is carried out at most once,  *)
(* only after its authority was durably recorded as used, and the push     *)
(* only after the commit is settled.  Whether an authority that was used   *)
(* and never settled had its effect is not known to anyone.                *)
(***************************************************************************)
CONSTANTS
    Operations,
    First       \* the one that must be settled before any other begins

VARIABLES
    authority,  \* of each operation: "unused", "begun" or "settled"
    effected    \* the operations that were carried out

vars == <<authority, effected>>

Init == authority = [op \in Operations |-> "unused"] /\ effected = {}

Begin(op) ==
    /\ authority[op] = "unused"
    /\ op # First => authority[First] = "settled"
    /\ \A other \in Operations : authority[other] # "begun"
    /\ authority' = [authority EXCEPT ![op] = "begun"]
    /\ UNCHANGED effected

CarryOut(op) ==
    /\ authority[op] = "begun" /\ op \notin effected
    /\ effected' = effected \union {op}
    /\ UNCHANGED authority

Settle(op) ==
    /\ authority[op] = "begun" /\ op \in effected
    /\ authority' = [authority EXCEPT ![op] = "settled"]
    /\ UNCHANGED effected

Next == \E op \in Operations : Begin(op) \/ CarryOut(op) \/ Settle(op)

Spec == Init /\ [][Next]_vars
=============================================================================
