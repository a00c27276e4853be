--------------------------- MODULE ReconWorkflow ---------------------------
(***************************************************************************)
(* The recon pipeline (modules/recon, routes.py and services.py): a target *)
(* checked for scope, a hypothesis about it, its human approval, an        *)
(* execution and a finding.  Its requests run on the approval workflow of  *)
(* the core: they carry its sessions on, and in the transaction of the     *)
(* workflow's last step they write the module's own tables.                *)
(***************************************************************************)
EXTENDS ApprovalWorkflow

CONSTANTS
    Targets,        \* the targets that a program may be given
    InScope,        \* those that the program's scope policy admits
    NoRow,          \* the hypothesis has not been created
    MaxExecutions,  \* bound: no gate is tried once this many were queued
    MaxFindings     \* bound: no completion starts once this many were made

ASSUME ScopeAssumption == InScope \subseteq Targets

VARIABLES
    targets,     \* the rows of recon_targets, each checked when it was created
    hypotheses,  \* table recon_hypotheses; a hypothesis is an approval's subject
    executions,  \* table recon_executions
    findings,    \* table recon_findings: the execution of each
    held         \* what a session has loaded from these tables

rows == <<targets, hypotheses, executions, findings>>
reconVars == <<vars, rows, held>>

-----------------------------------------------------------------------------
(* Types *)

HypothesisStatus == {"draft", "pending_approval", "approved", "rejected", "executed"}

Hypothesis ==
    [target : Targets, required_role : Roles, status : HypothesisStatus]

ASSUME RowAssumption == NoRow \notin Hypothesis

Execution ==
    [hypothesis  : Subjects,
     approved_by : Users \cup {Nobody},
     status      : {"queued", "completed"}]

Nothing == [at |-> "nothing"]

Held ==
    {Nothing}
        \cup [at : {"request"}, seen : HypothesisStatus]
        \cup [at : {"read_hypothesis"}, execution : DOMAIN executions]
        \cup [at : {"commit_completion"}, execution : DOMAIN executions,
              seen : HypothesisStatus]

ReconTypeOK ==
    /\ TypeOK
    /\ targets \subseteq Targets
    /\ hypotheses \in [Subjects -> Hypothesis \cup {NoRow}]
    /\ executions \in Seq(Execution)
    /\ findings \in Seq(DOMAIN executions)
    /\ held \in [Sessions -> Held]

ReconInit ==
    /\ Init
    /\ targets = {}
    /\ hypotheses = [h \in Subjects |-> NoRow]
    /\ executions = <<>>
    /\ findings = <<>>
    /\ held = [s \in Sessions |-> Nothing]

-----------------------------------------------------------------------------
(* Sessions and rows *)

Hold(s, rowsRead) == held' = [held EXCEPT ![s] = rowsRead]

Release(s) == Hold(s, Nothing)

\* A session writes the status back only when it differs from what it loaded;
\* the update goes by primary key.
SetStatus(h, seen, status) ==
    hypotheses' = IF seen = status THEN hypotheses
                  ELSE [hypotheses EXCEPT ![h].status = status]

-----------------------------------------------------------------------------
(* TargetService.create, HypothesisService.create *)

\* A target out of scope is stored as well, with in_scope = False.
TargetCreate(target) ==
    /\ targets' = targets \cup {target}
    /\ UNCHANGED <<vars, hypotheses, executions, findings, held>>

\* Mutant: the target's in_scope flag is not looked at.
HypothesisCreate_AnyTarget(h, target, role) ==
    /\ hypotheses[h] = NoRow
    /\ target \in targets
    /\ hypotheses' = [hypotheses EXCEPT ![h] = [target        |-> target,
                                                required_role |-> role,
                                                status        |-> "draft"]]
    /\ UNCHANGED <<vars, targets, executions, findings, held>>

HypothesisCreate(h, target, role) ==
    /\ hypotheses[h] = NoRow
    /\ target \in targets
    /\ target \in InScope
    /\ hypotheses' = [hypotheses EXCEPT ![h] = [target        |-> target,
                                                required_role |-> role,
                                                status        |-> "draft"]]
    /\ UNCHANGED <<vars, targets, executions, findings, held>>

-----------------------------------------------------------------------------
(* ApprovalService.request and decide *)

\* A hypothesis that was executed answers 400.
OpenRequest(s, user, h, lifetime) ==
    /\ held[s] = Nothing
    /\ hypotheses[h] # NoRow
    /\ hypotheses[h].status # "executed"
    /\ RequestStart(s, user, h, hypotheses[h].required_role, lifetime)
    /\ Hold(s, [at |-> "request", seen |-> hypotheses[h].status])
    /\ UNCHANGED rows

\* Mutant: the request is not mirrored on the hypothesis.
FileRequest_NotMirrored(s) ==
    /\ RequestInsert(s) \/ RequestSweepInsert(s)
    /\ Release(s)
    /\ UNCHANGED rows

FileRequest(s) ==
    /\ RequestInsert(s) \/ RequestSweepInsert(s)
    /\ SetStatus(sessions[s].row.subject, held[s].seen, "pending_approval")
    /\ Release(s)
    /\ UNCHANGED <<targets, executions, findings>>

RefuseRequest(s) ==
    /\ RequestConflict(s) \/ RequestSweepConflict(s)
    /\ Release(s)
    /\ UNCHANGED rows

OpenDecision(s, user, i, verdict) ==
    /\ held[s] = Nothing
    /\ DecideLoad(s, user, i, verdict)
    /\ UNCHANGED <<rows, held>>

\* Mutant: every decision is mirrored as an approval.
FileDecision_AlwaysApproved(s) ==
    LET h == approvals[sessions[s].approval].subject
    IN  /\ DecideCommit(s)
        /\ SetStatus(h, hypotheses[h].status, "approved")
        /\ UNCHANGED <<targets, executions, findings, held>>

\* decide flushed its audit entry, so the hypothesis is read under the lock.
FileDecision(s) ==
    LET h == approvals[sessions[s].approval].subject
    IN  /\ DecideCommit(s)
        /\ SetStatus(h, hypotheses[h].status, sessions[s].verdict)
        /\ UNCHANGED <<targets, executions, findings, held>>

\* Steps of the workflow in which the module writes nothing: an expiry found
\* by a decision or by the gate is not mirrored on the hypothesis.
WorkflowStep(s) ==
    /\ \/ RequestLoadStale(s)
       \/ RequestProceed(s)
       \/ DecideExpire(s)
       \/ DecideBlock(s)
       \/ GateCommitDenial(s)
    /\ UNCHANGED <<rows, held>>

-----------------------------------------------------------------------------
(* ExecutionService.queue and complete *)

TryGate(s, user, h) ==
    /\ held[s] = Nothing
    /\ hypotheses[h] # NoRow
    /\ Len(executions) < MaxExecutions
    /\ GateDeny(s, user, h) \/ GateAllow(s, user, h)
    /\ UNCHANGED <<rows, held>>

\* Mutant: a refusal is logged but queueing goes on after it.
QueueExecution_AfterRefusal(s) ==
    /\ GateProceed(s) \/ GateCommitDenial(s)
    /\ executions' = Append(executions, [hypothesis  |-> sessions[s].subject,
                                         approved_by |-> sessions[s].approver,
                                         status      |-> "queued"])
    /\ UNCHANGED <<targets, hypotheses, findings, held>>

QueueExecution(s) ==
    /\ GateProceed(s)
    /\ executions' = Append(executions, [hypothesis  |-> sessions[s].subject,
                                         approved_by |-> sessions[s].approver,
                                         status      |-> "queued"])
    /\ UNCHANGED <<targets, hypotheses, findings, held>>

\* Mutant: completion without its state guard.
CompleteLoad_Unguarded(s, e) ==
    /\ sessions[s] = Idle
    /\ held[s] = Nothing
    /\ Len(findings) < MaxFindings
    /\ Hold(s, [at |-> "read_hypothesis", execution |-> e])
    /\ UNCHANGED <<vars, rows>>

\* An execution that is completed already answers 409.
CompleteLoad(s, e) ==
    /\ sessions[s] = Idle
    /\ held[s] = Nothing
    /\ Len(findings) < MaxFindings
    /\ executions[e].status # "completed"
    /\ Hold(s, [at |-> "read_hypothesis", execution |-> e])
    /\ UNCHANGED <<vars, rows>>

CompleteRead(s) ==
    /\ held[s].at = "read_hypothesis"
    /\ LET e == held[s].execution
       IN  Hold(s, [at        |-> "commit_completion",
                    execution |-> e,
                    seen      |-> hypotheses[executions[e].hypothesis].status])
    /\ UNCHANGED <<vars, rows>>

\* Mutants: the execution's status is left as it was, and the hypothesis is
\* given the status of the execution.
CompleteCommit_StillQueued(s) ==
    LET e == held[s].execution
    IN  /\ held[s].at = "commit_completion"
        /\ SetStatus(executions[e].hypothesis, held[s].seen, "executed")
        /\ findings' = Append(findings, e)
        /\ Release(s)
        /\ UNCHANGED <<vars, targets, executions>>

CompleteCommit_WrongStatus(s) ==
    LET e == held[s].execution
    IN  /\ held[s].at = "commit_completion"
        /\ executions' = [executions EXCEPT ![e].status = "completed"]
        /\ SetStatus(executions[e].hypothesis, held[s].seen, "completed")
        /\ findings' = Append(findings, e)
        /\ Release(s)
        /\ UNCHANGED <<vars, targets>>

CompleteCommit(s) ==
    LET e == held[s].execution
    IN  /\ held[s].at = "commit_completion"
        /\ executions' = [executions EXCEPT ![e].status = "completed"]
        /\ SetStatus(executions[e].hypothesis, held[s].seen, "executed")
        /\ findings' = Append(findings, e)
        /\ Release(s)
        /\ UNCHANGED <<vars, targets>>

-----------------------------------------------------------------------------
(* The whole module *)

\* A request fails before its commit and is rolled back.
ReconAbort(s) ==
    /\ \/ Abort(s)
       \/ /\ sessions[s] = Idle
          /\ held[s] # Nothing
          /\ UNCHANGED vars
    /\ Release(s)
    /\ UNCHANGED rows

ReconTick == Tick /\ UNCHANGED <<rows, held>>

ReconStart(s) ==
    \/ \E user \in Users :
          \/ \E h \in Subjects, lifetime \in Lifetimes : OpenRequest(s, user, h, lifetime)
          \/ \E i \in DOMAIN approvals, verdict \in {"approved", "rejected"} :
                OpenDecision(s, user, i, verdict)
          \/ \E h \in Subjects : TryGate(s, user, h)
    \/ \E e \in DOMAIN executions : CompleteLoad(s, e)

ReconContinue(s) ==
    \/ WorkflowStep(s)
    \/ FileRequest(s)
    \/ RefuseRequest(s)
    \/ FileDecision(s)
    \/ QueueExecution(s)
    \/ CompleteRead(s)
    \/ CompleteCommit(s)

ReconNext ==
    \/ ReconTick
    \/ \E target \in Targets : TargetCreate(target)
    \/ \E h \in Subjects, target \in Targets, role \in Roles :
          HypothesisCreate(h, target, role)
    \/ \E s \in Sessions : ReconStart(s) \/ ReconContinue(s) \/ ReconAbort(s)

ReconSpec == ReconInit /\ [][ReconNext]_reconVars
-----------------------------------------------------------------------------
(* What the pipeline promises, however its requests interleave *)

\* Every grant the trail records, under the terms of its approval.
Grants ==
    {[hypothesis    |-> approvals[audit[k].approval].subject,
      requested_by  |-> approvals[audit[k].approval].requested_by,
      required_rank |-> role_rank(approvals[audit[k].approval].required_role),
      approver      |-> audit[k].actor] :
        k \in {j \in DOMAIN audit : audit[j].decision = "approved"}}

Gate == INSTANCE HumanGate WITH
            RankOf     <- [user \in Users |-> role_rank(RoleOf[user])],
            grants     <- Grants,
            executions <- [e \in DOMAIN executions |->
                              [hypothesis  |-> executions[e].hypothesis,
                               approved_by |-> executions[e].approved_by]]

\* "Nothing executes without approval" (routes.py, queue_execution): the
\* pipeline implements the abstract gate, in which an execution names a grant
\* given earlier by a qualified person who is not the requester.
NothingExecutesWithoutApproval == Gate!GateSpec

\* A hypothesis is only executed against a target in scope: "every downstream
\* action refuses to treat it as authorized" (TargetService).
ExecutionsStayInScope ==
    \A e \in DOMAIN executions :
        /\ hypotheses[executions[e].hypothesis] # NoRow
        /\ hypotheses[executions[e].hypothesis].target \in targets \cap InScope

\* An execution is completed exactly when a finding came of it, although the
\* completion writes over rows loaded earlier (ExecutionService.complete).
CompletedIffReported ==
    \A e \in DOMAIN executions :
        executions[e].status = "completed" <=> \E f \in DOMAIN findings : findings[f] = e

\* The trail has an entry of this kind about an approval of the hypothesis.
Logged(h, decision) ==
    \E k \in DOMAIN audit : /\ audit[k].decision = decision
                            /\ approvals[audit[k].approval].subject = h

\* The status of a hypothesis is one that its own history gave it: the trail
\* decided it so, or an execution of it has a finding (mirroring in request,
\* decide and complete).
StatusIsEarned ==
    \A h \in Subjects : hypotheses[h] # NoRow =>
        CASE hypotheses[h].status \in {"approved", "rejected"} ->
                Logged(h, hypotheses[h].status)
          [] hypotheses[h].status = "pending_approval" -> Logged(h, "pending")
          [] hypotheses[h].status = "executed" ->
                \E f \in DOMAIN findings : executions[findings[f]].hypothesis = h
          [] hypotheses[h].status = "draft" -> ~Logged(h, "pending")

-----------------------------------------------------------------------------
(* What only requests served one at a time keep *)

\* Requests do not overlap, completions among them.
Busy(s) == sessions[s] # Idle \/ held[s] # Nothing

ReconOneAtATime == \A s, t \in Sessions : Busy(s) /\ Busy(t) => s = t

\* The status of a hypothesis mirrors the latest approval of it, an expiry
\* aside, until it is executed ("mirrors its decisions onto
\* Hypothesis.status", ApprovalService).
MirrorAgrees ==
    \A h \in Subjects : hypotheses[h] # NoRow =>
        \A i \in Latest(h) :
            CASE approvals[i].status = "expired" ->
                    hypotheses[h].status \in {"pending_approval", "executed"}
              [] approvals[i].status = "pending" ->
                    hypotheses[h].status \in {"pending_approval", "executed"}
              [] OTHER -> hypotheses[h].status \in {approvals[i].status, "executed"}

\* "Execution can only be queued once seclab.security.approval confirms a valid
\* human approval exists for the hypothesis" (ExecutionService): when one is
\* queued, the latest approval of the hypothesis allows it and the hypothesis
\* shows that to whoever looks.
QueuedWhileApproved ==
    [][\A e \in DOMAIN executions' \ DOMAIN executions :
          LET h == executions'[e].hypothesis
          IN  /\ hypotheses[h].status \in {"approved", "executed"}
              /\ \E i \in Latest(h) : approvals[i].status = "approved"]_reconVars

\* "complete() used to have no state guard: calling it again on the same
\* (already-completed) execution created a second Finding" (test_workflow.py).
OneFindingPerExecution ==
    \A f, g \in DOMAIN findings : findings[f] = findings[g] => f = g

\* Completion is "the terminal step of the recon pipeline for one hypothesis"
\* (routes.py, complete_execution).
ExecutedIsTerminal ==
    [][\A h \in Subjects :
          hypotheses[h] # NoRow /\ hypotheses[h].status = "executed"
             => hypotheses'[h] = hypotheses[h]]_reconVars
=============================================================================
