--------------------------- MODULE HistoryPromise ---------------------------
(***************************************************************************)
(* What a task's persisted workflow promises to those who read it: one     *)
(* history to which events are added at the end, one at a time, and never  *)
(* replaced; an event that was acknowledged to its recorder is in it; and  *)
(* a stage is in it only when the history before it earns it.              *)
(*                                                                         *)
(* What earns a stage is said here of the whole history, without the       *)
(* transition table: plans are approved before there is work, the newest   *)
(* work is approved before it is closed out, the newest close-out is       *)
(* approved before the push, and nothing follows the push.                 *)
(***************************************************************************)
EXTENDS Integers, Sequences

VARIABLES
  log,           \* the events, in order
  acknowledged   \* the events whose recorders were told PASS

Work == {"implementation", "remediation"}

\* the outcome of the newest event of these stages, when it is newer than
\* every event of those stages
Settled(stages, after, outcome) ==
  \E n \in DOMAIN log :
    /\ log[n].stage \in stages
    /\ log[n].outcome = outcome
    /\ \A m \in DOMAIN log :
         (m # n /\ log[m].stage \in stages \cup after) => m < n

PlanApproved == Settled({"plan-review"}, {}, "APPROVED")
WorkApproved == Settled({"implementation-review"}, Work, "APPROVED")
WorkRejected == Settled({"implementation-review"}, Work, "REJECTED")
ClosedOut == Settled({"governance-closeout"}, {"governance-review"}, "completed")
CloseOutApproved == Settled({"governance-review"}, {"governance-closeout"}, "APPROVED")

Earned(stage) ==
  /\ \A n \in DOMAIN log : log[n].stage # "push"
  /\ (stage = "plan-review") = ~PlanApproved
  /\ stage = "implementation" => \A n \in DOMAIN log : log[n].stage = "plan-review"
  /\ stage = "implementation-review" => Settled(Work, {"implementation-review"}, "completed")
  /\ stage = "remediation" => WorkRejected
  /\ stage \in {"governance-closeout", "governance-review", "push"} => WorkApproved
  /\ stage = "governance-review" => ClosedOut
  /\ stage = "push" => CloseOutApproved


Init == acknowledged = {}

Add ==
  /\ Len(log') = Len(log) + 1
  /\ SubSeq(log', 1, Len(log)) = log
  /\ Earned(log'[Len(log')].stage)
  /\ UNCHANGED acknowledged

Acknowledge ==
  /\ \E n \in DOMAIN log : acknowledged' = acknowledged \cup {log[n]}
  /\ UNCHANGED log

Spec == Init /\ [][Add \/ Acknowledge]_<<log, acknowledged>>
=============================================================================
