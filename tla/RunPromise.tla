----------------------------- MODULE RunPromise -----------------------------
(***************************************************************************)
(* What a milestone run promises whoever approves its commit: milestones   *)
(* are accepted one at a time and for good, blockers are filed only        *)
(* against a finished plan and are ruled on once, and the gate opens only  *)
(* when the plan is finished and no blocker is open.                       *)
(***************************************************************************)
CONSTANTS Milestones, Findings

VARIABLES
    accepted,   \* milestones accepted as complete
    blockers,   \* each finding: not filed, open or closed
    gate        \* "shut", "open" or "aborted"

vars == <<accepted, blockers, gate>>

Init == accepted = {} /\ blockers = [f \in Findings |-> "none"] /\ gate = "shut"

Accept ==
    /\ gate = "shut"
    /\ \E m \in Milestones \ accepted : accepted' = accepted \union {m}
    /\ UNCHANGED <<blockers, gate>>

\* A ruling files blockers or closes open ones, and may open the gate.
Rule ==
    /\ gate = "shut" /\ accepted = Milestones
    /\ \E fs \in SUBSET Findings :
          \/ /\ \A f \in fs : blockers[f] = "none"
             /\ blockers' = [f \in Findings |-> IF f \in fs THEN "open" ELSE blockers[f]]
          \/ /\ \A f \in fs : blockers[f] = "open"
             /\ blockers' = [f \in Findings |-> IF f \in fs THEN "closed" ELSE blockers[f]]
    /\ \/ gate' = "shut"
       \/ gate' = "open" /\ \A f \in Findings : blockers'[f] # "open"
    /\ UNCHANGED accepted

Abort ==
    /\ gate # "aborted" /\ gate' = "aborted"
    /\ UNCHANGED <<accepted, blockers>>

Next == Accept \/ Rule \/ Abort

Spec == Init /\ [][Next]_vars
=============================================================================
