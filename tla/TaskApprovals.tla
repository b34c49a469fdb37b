--------------------------- MODULE TaskApprovals ---------------------------
(***************************************************************************)
(* agentos_workflow/approvals.py: the approval of one task as an           *)
(* append-only list of events.  Nothing stores a status: every reader      *)
(* replays the list.  Nothing locks it either: a person deciding from the  *)
(* command line evaluates the list and appends a decision later, while     *)
(* the task's driver, which holds the repository lock, requests, evaluates *)
(* and consumes.                                                           *)
(***************************************************************************)
EXTENDS Naturals, Sequences, FiniteSets

CONSTANTS
    Deciders,       \* people who may decide, each from a process of their own
    Answers,        \* the decisions they may come to
    Overlays,       \* configurations: the overlay each layer gives
    MaxDecisions    \* bound: decisions appended by people

TimeoutActions == {"AUTO_APPROVE", "ESCALATE", "PAUSE", "FAIL", "CANCEL"}
ConfiguredLayers == {"project", "gate", "run"}

ASSUME OverlayAssumption ==
    Overlays \subseteq
        [ConfiguredLayers ->
            [timeout_seconds : {"unset", "set"}, escalation_extension_seconds : {"unset", "set"},
             timeout_action : TimeoutActions \cup {"unset"},
             escalation_fallback_action : TimeoutActions \cup {"unset"}]]

VARIABLES
    approvals,      \* approvals.jsonl: the events of this task's one approval
    overdue,        \* the present moment is past the approval's deadline
    deciding        \* what each person has evaluated and is about to append

approvalVars == <<approvals, overdue, deciding>>

-----------------------------------------------------------------------------
(* The policy of a request: each field from the highest layer that sets it. *)

LAYER_ORDER == <<"built_in", "project", "gate", "run">>
BUILT_IN_DEFAULTS ==
    [timeout_seconds |-> "unset", escalation_extension_seconds |-> "unset",
     timeout_action |-> "PAUSE", escalation_fallback_action |-> "PAUSE"]

resolve_field(overlays, field) ==
    LET value[i \in 1 .. 4] ==
            IF i = 1 THEN BUILT_IN_DEFAULTS[field] ELSE overlays[LAYER_ORDER[i]][field]
        sets == {i \in 1 .. 4 : value[i] # "unset"}
        top == IF sets = {} THEN 1 ELSE CHOOSE i \in sets : \A j \in sets : j <= i
    IN  [value |-> value[top], source |-> LAYER_ORDER[top]]

OptedIn(resolved) == resolved.value = "AUTO_APPROVE" => resolved.source \in {"gate", "run"}

\* Otherwise ApprovalPolicyError.
PolicyResolves(overlays) ==
    /\ OptedIn(resolve_field(overlays, "timeout_action"))
    /\ OptedIn(resolve_field(overlays, "escalation_fallback_action"))
    /\ resolve_field(overlays, "escalation_fallback_action").value # "ESCALATE"

resolve_approval_policy(overlays) ==
    [expires |-> resolve_field(overlays, "timeout_seconds").value = "set",
     extends |-> resolve_field(overlays, "escalation_extension_seconds").value = "set",
     timeout_action |-> resolve_field(overlays, "timeout_action"),
     fallback |-> resolve_field(overlays, "escalation_fallback_action")]

-----------------------------------------------------------------------------
Decisions == {"APPROVE", "REJECT", "REQUEST_CHANGES"}

ASSUME DecisionAssumption == Answers \subseteq Decisions /\ MaxDecisions \in Nat

TERMINAL_STATUSES ==
    {"REJECTED", "CHANGES_REQUESTED", "FAILED", "CANCELLED", "INVALIDATED", "CONSUMED"}
TIMEOUT_ELIGIBLE == {"PENDING", "ESCALATED"}
ApprovalStatus ==
    TERMINAL_STATUSES \cup TIMEOUT_ELIGIBLE \cup {"APPROVED", "HUMAN_INTERVENTION_REQUIRED"}

STATUS_FOR_DECISION ==
    [d \in Decisions |-> CASE d = "APPROVE" -> "APPROVED"
                           [] d = "REJECT"  -> "REJECTED"
                           [] d = "REQUEST_CHANGES" -> "CHANGES_REQUESTED"]
STATUS_FOR_TIMEOUT ==
    [a \in {"PAUSE", "FAIL", "CANCEL"} |->
        CASE a = "PAUSE"  -> "HUMAN_INTERVENTION_REQUIRED"
          [] a = "FAIL"   -> "FAILED"
          [] a = "CANCEL" -> "CANCELLED"]

\* Events.  The request carries what it binds; the others carry a status or
\* nothing, which is all a replay takes from them.
Requested(policy, bound, shown) ==
    [kind |-> "REQUESTED", policy |-> policy, checksums |-> bound, shown |-> shown]
Event(kind, status) == [kind |-> kind, status |-> status]
Decided(decision, origin) ==
    [kind |-> "DECIDED", status |-> STATUS_FOR_DECISION[decision], origin |-> origin]
Extended == [kind |-> "EXTENDED"]

\* _replay: an extension moves the deadline, every later event the status.
Replayed(events) ==
    IF events = <<>> THEN "NOT_FOUND"
    ELSE LET moving == {i \in 2 .. Len(events) : events[i].kind # "EXTENDED"}
         IN  IF moving = {} THEN "PENDING"
             ELSE events[CHOOSE i \in moving : \A j \in moving : j <= i].status

Status == Replayed(approvals)
Policy == approvals[1].policy
BoundChecksums == approvals[1].checksums
Happened(kind) == \E i \in 1 .. Len(approvals) : approvals[i].kind = kind
Consumptions == {i \in 1 .. Len(approvals) : approvals[i].kind = "CONSUMED"}
HumanDecisions ==
    {i \in 2 .. Len(approvals) : approvals[i].kind = "DECIDED" /\ approvals[i].origin = "MANUAL"}

\* The events an overdue approval gets from whoever evaluates it next.  After
\* an escalation the fallback applies; the escalation itself may grant one
\* extension, ever.
TimeoutEvents ==
    LET action == (IF Status = "ESCALATED" THEN Policy.fallback ELSE Policy.timeout_action).value
    IN  CASE action = "AUTO_APPROVE" -> <<Decided("APPROVE", "AUTO")>>
          [] action = "ESCALATE" ->
                IF Policy.extends /\ ~ Happened("EXTENDED")
                THEN <<Event("ESCALATED", "ESCALATED"), Extended>>
                ELSE <<Event("ESCALATED", "ESCALATED")>>
          [] OTHER -> <<Event("TIMED_OUT", STATUS_FOR_TIMEOUT[action])>>

TimedOut == Status \in TIMEOUT_ELIGIBLE /\ overdue

\* What every evaluation does to the list: nothing, or the events of a timeout.
evaluate_approval ==
    /\ approvals # <<>>
    /\ IF TimedOut
       THEN /\ approvals' = approvals \o TimeoutEvents
            /\ overdue' = (overdue /\ TimeoutEvents[Len(TimeoutEvents)] # Extended)
       ELSE UNCHANGED <<approvals, overdue>>

\* request_approval, by the driver.
request_approval(policy, bound, shown) ==
    /\ approvals = <<>>
    /\ approvals' = <<Requested(policy, bound, shown)>>
    /\ UNCHANGED <<overdue, deciding>>

append_approval_event(event) ==
    /\ approvals' = Append(approvals, event)
    /\ UNCHANGED <<overdue, deciding>>

-----------------------------------------------------------------------------
NotDeciding == "nothing"

\* decide_approval up to its append: evaluate, and go on unless terminal.
DecisionIsOpen(status) == status \notin TERMINAL_STATUSES

BeginDecision(d, decision) ==
    /\ deciding[d] = NotDeciding
    /\ Cardinality(HumanDecisions)
          + Cardinality({e \in Deciders : deciding[e] # NotDeciding}) < MaxDecisions
    /\ evaluate_approval
    /\ DecisionIsOpen(Replayed(approvals'))
    /\ deciding' = [deciding EXCEPT ![d] = decision]

\* The append, however long after the evaluation.
AppendDecision(d) ==
    /\ deciding[d] # NotDeciding
    /\ approvals' = Append(approvals, Decided(deciding[d], "MANUAL"))
    /\ deciding' = [deciding EXCEPT ![d] = NotDeciding]
    /\ UNCHANGED overdue

\* Anyone may evaluate, as the service's evaluate_approval does.
EvaluateInPassing == TimedOut /\ evaluate_approval /\ UNCHANGED deciding

DeadlinePasses ==
    /\ approvals # <<>>
    /\ Policy.expires /\ ~ overdue
    /\ Status \in TIMEOUT_ELIGIBLE       \* a deadline matters to no other status
    /\ overdue' = TRUE
    /\ UNCHANGED <<approvals, deciding>>

ApprovalInit ==
    /\ approvals = <<>>
    /\ overdue = FALSE
    /\ deciding = [d \in Deciders |-> NotDeciding]

People ==
    \/ \E d \in Deciders, decision \in Answers : BeginDecision(d, decision)
    \/ \E d \in Deciders : AppendDecision(d)
=============================================================================
