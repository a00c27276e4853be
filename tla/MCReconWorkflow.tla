-------------------------- MODULE MCReconWorkflow --------------------------
(***************************************************************************)
(* A small recon program: an analyst and a security lead, one target in    *)
(* scope and one out of it.                                                *)
(***************************************************************************)
EXTENDS ReconWorkflow, TLC

CONSTANTS ann, lea, s1, s2, h1, h2, inside, outside

MCUsers == {ann, lea}
MCRoleOf == ann :> "analyst" @@ lea :> "security_lead"
MCTargets == {inside, outside}
MCInScope == {inside}
MCOneSession == {s1}
MCTwoSessions == {s1, s2}
MCNoExpiry == {NoDeadline}
MCLifetimes == {1, NoDeadline}
MCInterchangeable == Permutations(MCTwoSessions)
=============================================================================
