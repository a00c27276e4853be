------------------------- MODULE MCApprovalWorkflow -------------------------
(***************************************************************************)
(* A small laboratory for ApprovalWorkflow: one analyst and one security   *)
(* lead, who review each other's requests.                                 *)
(***************************************************************************)
EXTENDS ApprovalWorkflow, TLC

CONSTANTS ann, lea, s1, s2, h1, h2

MCUsers == {ann, lea}
MCRoleOf == ann :> "analyst" @@ lea :> "security_lead"
MCTwoSessions == {s1, s2}
MCLifetimes == {1, NoDeadline}
=============================================================================
