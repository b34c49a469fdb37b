---------------------------- MODULE MCApprovalGate ----------------------------
(* The approval gates, for TLC. *)
EXTENDS ApprovalGate
=============================================================================
