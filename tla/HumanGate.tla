----------------------------- MODULE HumanGate -----------------------------
(***************************************************************************)
(* What the recon module promises of its pipeline, with no sessions, rows  *)
(* or locks: "nothing executes without approval".  A person who is neither *)
(* the requester nor ranked too low grants a hypothesis; an execution      *)
(* names such a grant; a finding comes from an execution.                  *)
(***************************************************************************)
EXTENDS Naturals, Sequences

CONSTANTS
    Subjects,   \* the hypotheses under review
    Users,
    RankOf      \* the rank of each user's role

VARIABLES
    grants,      \* every grant a person ever gave
    executions,  \* the executions queued, in order
    findings     \* for each finding, the execution it comes from

gateVars == <<grants, executions, findings>>

Grant ==
    {g \in [hypothesis    : Subjects,
            requested_by  : Users,
            required_rank : Nat,
            approver      : Users] :
        /\ g.approver # g.requested_by
        /\ RankOf[g.approver] >= g.required_rank}

GateInit ==
    /\ grants = {}
    /\ executions = <<>>
    /\ findings = <<>>

Authorize ==
    /\ \E g \in grants' \ grants :
          /\ g \in Grant
          /\ grants' = grants \cup {g}
    /\ UNCHANGED <<executions, findings>>

Execute ==
    /\ \E g \in grants :
          executions' = Append(executions, [hypothesis  |-> g.hypothesis,
                                            approved_by |-> g.approver])
    /\ UNCHANGED <<grants, findings>>

Report ==
    /\ \E e \in DOMAIN executions : findings' = Append(findings, e)
    /\ UNCHANGED <<grants, executions>>

GateNext == Authorize \/ Execute \/ Report

GateSpec == GateInit /\ [][GateNext]_gateVars
=============================================================================
