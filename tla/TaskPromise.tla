---------------------------- MODULE TaskPromise ----------------------------
(***************************************************************************)
(* What a task workflow promises, without its drivers: a status that moves *)
(* along the closed table and never leaves a terminal state, and effects   *)
(* on the world that belong to one status each, in order, the first of     *)
(* them only after an approval was spent.                                  *)
(***************************************************************************)
EXTENDS TaskStates

VARIABLES
    status,     \* where the persisted transitions end
    spent,      \* an approval has been consumed
    made        \* the effects the world shows

promiseVars == <<status, spent, made>>

Effects == {"commit", "push", "offer", "arm", "merge", "absorb"}

\* The status in which the task's own driver may make an effect.
Owner == [e \in Effects \ {"merge"} |->
            CASE e = "commit" -> "READY_TO_COMMIT"
              [] e = "push"   -> "COMMITTED"
              [] e = "offer"  -> "PUSHED"
              [] e = "arm"    -> "PR_OPEN"
              [] e = "absorb" -> "CLOSING"]

\* The effects the world must show before a status may be entered.
Earned(s) ==
    CASE s = "COMMITTED"          -> {"commit"}
      [] s = "PUSHED"             -> {"commit", "push"}
      [] s = "PR_OPEN"            -> {"commit", "push", "offer"}
      [] s = "AUTO_MERGE_ENABLED" -> {"commit", "push", "offer", "arm"}
      [] s \in {"MERGED", "CLOSING"} -> {"commit", "push", "offer", "arm", "merge"}
      [] s = "DONE"               -> Effects
      [] OTHER                    -> {}

PromiseInit == status = "CREATED" /\ spent = FALSE /\ made = {}

Move ==
    /\ \E s \in WorkflowState :
          /\ validate_transition(status, s)
          /\ Earned(s) \subseteq made
          /\ status' = s
    /\ UNCHANGED <<spent, made>>

Spend ==
    /\ status = "READY_TO_COMMIT" /\ ~ spent
    /\ spent' = TRUE
    /\ UNCHANGED <<status, made>>

Make(e) ==
    /\ status = Owner[e]
    /\ e = "commit" => spent
    /\ made' = made \cup {e}
    /\ UNCHANGED <<status, spent>>

\* A pull request that was closed or merged meanwhile is opened anew.
OfferAgain ==
    /\ status = Owner["offer"] /\ "offer" \in made
    /\ made' = made \ {"arm", "merge"}
    /\ UNCHANGED <<status, spent>>

\* The merge is GitHub's, of what was offered.
Merge ==
    /\ "offer" \in made
    /\ made' = made \cup {"arm", "merge"}
    /\ UNCHANGED <<status, spent>>

PromiseNext ==
    \/ Move \/ Spend \/ OfferAgain \/ Merge
    \/ \E e \in Effects \ {"merge"} : Make(e)

PromiseSpec == PromiseInit /\ [][PromiseNext]_promiseVars
=============================================================================
