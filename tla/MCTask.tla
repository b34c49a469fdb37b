------------------------------- MODULE MCTask -------------------------------
(* A small task: two contents the tree may take, one that changes the path  *)
(* of the scope and one that touches a path outside it.                     *)
EXTENDS TaskDelivery, TLC

CONSTANTS good, stray, base, alice

MCContents == {good, stray}
MCNamesOf == (good :> {"a"}) @@ (stray :> {"b"}) @@ (base :> {})
MCAllowed == {"a"}
MCValid == {base, good}

Silent == [timeout_seconds |-> "unset", escalation_extension_seconds |-> "unset",
           timeout_action |-> "unset", escalation_fallback_action |-> "unset"]
Layers(project, gate, run) ==
    [l \in ConfiguredLayers |->
        CASE l = "project" -> project [] l = "gate" -> gate [] l = "run" -> run]

\* The gate escalates, and then takes silence for consent.
Consenting ==
    Layers([Silent EXCEPT !.timeout_seconds = "set"],
           [Silent EXCEPT !.timeout_action = "ESCALATE",
                          !.escalation_fallback_action = "AUTO_APPROVE"], Silent)
\* The project would like silence to be consent everywhere.
Presuming ==
    Layers([Silent EXCEPT !.timeout_seconds = "set", !.timeout_action = "AUTO_APPROVE"],
           Silent, Silent)
\* The deadline escalates, is extended once, and leaves it to a person.
Pausing ==
    Layers([Silent EXCEPT !.timeout_seconds = "set", !.timeout_action = "ESCALATE",
                          !.escalation_extension_seconds = "set"], Silent, Silent)

MCOverlays == {Consenting, Presuming}
MCPausing == {Pausing}
=============================================================================
