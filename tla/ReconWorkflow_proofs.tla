------------------------ MODULE ReconWorkflow_proofs ------------------------
(***************************************************************************)
(* Proofs about ReconWorkflow: every step of the pipeline is a step of the *)
(* approval workflow or leaves it alone, so what was proved of the         *)
(* workflow holds of the pipeline; and the pipeline implements HumanGate.  *)
(* The status of a hypothesis is one its history gave it, although three   *)
(* handlers write it from rows they loaded before others committed; once   *)
(* requests do not overlap it is that of the latest approval, and an       *)
(* execution has one finding.                                              *)
(***************************************************************************)
EXTENDS ReconWorkflow, ApprovalWorkflow_proofs

-----------------------------------------------------------------------------
(* The inductive invariant *)

Created(h) == hypotheses[h] # NoRow

RequestPoints == {"expire_stale", "check_pending", "insert", "sweep"}
GatePoints == {"denied", "cleared"}

\* No approval, execution or request is about a hypothesis that does not exist.
RowsCreated == \A i \in DOMAIN approvals : Created(approvals[i].subject)

SessionsCreated ==
    \A s \in Sessions :
        /\ sessions[s].pc \in RequestPoints => Created(sessions[s].row.subject)
        /\ sessions[s].pc \in GatePoints => Created(sessions[s].subject)

ExecutionsCreated == \A e \in DOMAIN executions : Created(executions[e].hypothesis)

HypothesesInScope ==
    \A h \in Subjects : Created(h) => hypotheses[h].target \in targets \cap InScope

\* An approval that the trail records is an approval of a row that exists.
GrantsHaveRows ==
    \A k \in DOMAIN audit :
        audit[k].decision = "approved" => audit[k].approval \in DOMAIN approvals

ReconInv ==
    /\ ReconTypeOK
    /\ Inv
    /\ RowsCreated
    /\ SessionsCreated
    /\ ExecutionsCreated
    /\ HypothesesInScope
    /\ GrantsHaveRows
    /\ CompletedIffReported

-----------------------------------------------------------------------------
(* The pipeline runs on the workflow *)

\* Every step of the pipeline is a step of the workflow, or leaves it alone.
LEMMA WorkflowRunsBeneath == ReconTypeOK /\ [ReconNext]_reconVars => [Next]_vars
<1> SUFFICES ASSUME ReconTypeOK, [ReconNext]_reconVars
             PROVE  [Next]_vars
  OBVIOUS
<1>1. CASE ReconTick \/ UNCHANGED reconVars
  BY <1>1 DEF ReconTick, reconVars, Next
<1>2. ASSUME NEW target \in Targets, TargetCreate(target)
      PROVE  UNCHANGED vars
  BY <1>2 DEF TargetCreate
<1>3. ASSUME NEW h \in Subjects, NEW target \in Targets, NEW role \in Roles,
             HypothesisCreate(h, target, role)
      PROVE  UNCHANGED vars
  BY <1>3 DEF HypothesisCreate
<1>4. ASSUME NEW s \in Sessions, ReconStart(s)
      PROVE  [Next]_vars
  <2>1. ASSUME NEW user \in Users, NEW h \in Subjects, NEW lifetime \in Lifetimes,
               OpenRequest(s, user, h, lifetime)
        PROVE  Start(s)
    <3>1. hypotheses[h].required_role \in Roles
      BY <2>1 DEF OpenRequest, ReconTypeOK, Hypothesis
    <3>. QED
      BY <2>1, <3>1 DEF OpenRequest, Start
  <2>2. ASSUME NEW user \in Users, NEW i \in DOMAIN approvals,
               NEW verdict \in {"approved", "rejected"}, OpenDecision(s, user, i, verdict)
        PROVE  Start(s)
    BY <2>2 DEF OpenDecision, Start
  <2>3. ASSUME NEW user \in Users, NEW h \in Subjects, TryGate(s, user, h)
        PROVE  Start(s)
    BY <2>3 DEF TryGate, Start
  <2>4. ASSUME NEW e \in DOMAIN executions, CompleteLoad(s, e)
        PROVE  UNCHANGED vars
    BY <2>4 DEF CompleteLoad
  <2>. QED
    BY <1>4, <2>1, <2>2, <2>3, <2>4 DEF ReconStart, Next
<1>5. ASSUME NEW s \in Sessions, ReconContinue(s)
      PROVE  Continue(s) \/ UNCHANGED vars
  BY <1>5 DEF ReconContinue, Continue, WorkflowStep, FileRequest, RefuseRequest,
     FileDecision, QueueExecution, CompleteRead, CompleteCommit
<1>6. ASSUME NEW s \in Sessions, ReconAbort(s)
      PROVE  Abort(s) \/ UNCHANGED vars
  BY <1>6 DEF ReconAbort
<1>. QED
  BY <1>1, <1>2, <1>3, <1>4, <1>5, <1>6 DEF ReconNext, Next

-----------------------------------------------------------------------------
(* The module's own rows *)

\* Writing a status keeps the rest of the row, and creates no row.
LEMMA SetStatusFacts ==
    ASSUME ReconTypeOK, NEW h \in Subjects, Created(h), NEW seen,
           NEW status \in HypothesisStatus, SetStatus(h, seen, status)
    PROVE  /\ hypotheses' \in [Subjects -> Hypothesis \cup {NoRow}]
           /\ \A g \in Subjects : Created(g) =>
                 hypotheses'[g] # NoRow /\ hypotheses'[g].target = hypotheses[g].target
           /\ \A g \in Subjects : ~Created(g) => hypotheses'[g] = NoRow
<1>. DEFINE row == [hypotheses[h] EXCEPT !.status = status]
<1>1. hypotheses[h] \in Hypothesis
  BY DEF ReconTypeOK, Created
<1>2. row \in Hypothesis /\ row.target = hypotheses[h].target
  BY <1>1 DEF Hypothesis
<1>3. row # NoRow
  BY <1>2, RowAssumption
<1>4. hypotheses' = hypotheses \/ hypotheses' = [hypotheses EXCEPT ![h] = row]
  BY DEF SetStatus
<1>. HIDE DEF row
<1>. QED
  BY <1>2, <1>3, <1>4 DEF ReconTypeOK, Created

\* What a step may do to the module's tables.
TablesStep ==
    /\ targets' \subseteq Targets
    /\ targets \subseteq targets'
    /\ hypotheses' \in [Subjects -> Hypothesis \cup {NoRow}]
    /\ \A h \in Subjects : Created(h) =>
          hypotheses'[h] # NoRow /\ hypotheses'[h].target = hypotheses[h].target
    /\ \A h \in Subjects : ~Created(h) /\ hypotheses'[h] # NoRow =>
          hypotheses'[h].target \in targets \cap InScope

\* The session and the row that a decision is about.
LEMMA DecisionSubject ==
    ASSUME ReconInv, NEW s \in Sessions, DecideCommit(s)
    PROVE  /\ approvals[sessions[s].approval].subject \in Subjects
           /\ Created(approvals[sessions[s].approval].subject)
           /\ sessions[s].verdict \in HypothesisStatus
<1>1. sessions[s] \in Deciding
  BY SessionKinds DEF DecideCommit, ReconInv, Inv
<1>2. sessions[s].approval \in DOMAIN approvals
  BY <1>1 DEF Deciding
<1>3. approvals[sessions[s].approval] \in ApprovalRequest
  BY <1>2, ElementOfSeq DEF ReconInv, Inv, TypeOK
<1>4. sessions[s].verdict \in HypothesisStatus
  BY <1>1 DEF Deciding, HypothesisStatus
<1>. QED
  BY <1>2, <1>3, <1>4 DEF ApprovalRequest, ReconInv, RowsCreated

LEMMA RequestSubject ==
    ASSUME ReconInv, NEW s \in Sessions, sessions[s].pc \in RequestPoints
    PROVE  /\ sessions[s].row.subject \in Subjects
           /\ Created(sessions[s].row.subject)
<1>1. sessions[s] \in Requesting
  BY SessionKinds DEF RequestPoints, ReconInv, Inv
<1>2. sessions[s].row \in ApprovalRequest
  BY <1>1 DEF Requesting
<1>. QED
  BY <1>2 DEF ApprovalRequest, ReconInv, SessionsCreated

\* What a completion loaded.
LEMMA CompletionFacts ==
    ASSUME ReconInv, NEW s \in Sessions,
           held[s].at \in {"read_hypothesis", "commit_completion"}
    PROVE  /\ held[s].execution \in DOMAIN executions
           /\ executions[held[s].execution] \in Execution
           /\ executions[held[s].execution].hypothesis \in Subjects
           /\ Created(executions[held[s].execution].hypothesis)
<1>1. held[s] \in Held
  BY DEF ReconInv, ReconTypeOK
<1>2. held[s].execution \in DOMAIN executions
  BY <1>1 DEF Held, Nothing
<1>3. executions[held[s].execution] \in Execution
  BY <1>2, ElementOfSeq DEF ReconInv, ReconTypeOK
<1>. QED
  BY <1>2, <1>3 DEF Execution, ReconInv, ExecutionsCreated

LEMMA TablesChange == ReconInv /\ [ReconNext]_reconVars => TablesStep
<1> SUFFICES ASSUME ReconInv, [ReconNext]_reconVars
             PROVE  TablesStep
  OBVIOUS
<1>1. ReconTypeOK
  BY DEF ReconInv
<1>2. CASE UNCHANGED <<targets, hypotheses>>
  BY <1>1, <1>2 DEF TablesStep, ReconTypeOK, Created
<1>3. ASSUME NEW target \in Targets, TargetCreate(target)
      PROVE  TablesStep
  BY <1>1, <1>3 DEF TargetCreate, TablesStep, ReconTypeOK, Created
<1>4. ASSUME NEW h \in Subjects, NEW target \in Targets, NEW role \in Roles,
             HypothesisCreate(h, target, role)
      PROVE  TablesStep
  <2>. DEFINE row == [target |-> target, required_role |-> role, status |-> "draft"]
  <2>1. row \in Hypothesis /\ row.target = target
    BY DEF Hypothesis, HypothesisStatus
  <2>2. /\ hypotheses[h] = NoRow
        /\ target \in targets \cap InScope
        /\ hypotheses' = [hypotheses EXCEPT ![h] = row]
        /\ targets' = targets
    BY <1>4 DEF HypothesisCreate
  <2>. HIDE DEF row
  <2>. QED
    BY <1>1, <2>1, <2>2 DEF TablesStep, ReconTypeOK, Created
<1>5. ASSUME NEW s \in Sessions, FileRequest(s)
      PROVE  TablesStep
  <2>1. /\ sessions[s].pc \in RequestPoints
        /\ SetStatus(sessions[s].row.subject, held[s].seen, "pending_approval")
        /\ targets' = targets
    BY <1>5 DEF FileRequest, RequestInsert, RequestSweepInsert, RequestPoints
  <2>2. "pending_approval" \in HypothesisStatus
    BY DEF HypothesisStatus
  <2>. QED
    BY <1>1, <2>1, <2>2, RequestSubject, SetStatusFacts DEF TablesStep, ReconTypeOK
<1>6. ASSUME NEW s \in Sessions, FileDecision(s)
      PROVE  TablesStep
  <2>. DEFINE h == approvals[sessions[s].approval].subject
  <2>1. /\ DecideCommit(s)
        /\ SetStatus(h, hypotheses[h].status, sessions[s].verdict)
        /\ targets' = targets
    BY <1>6 DEF FileDecision
  <2>2. h \in Subjects /\ Created(h) /\ sessions[s].verdict \in HypothesisStatus
    BY <2>1, DecisionSubject
  <2>. HIDE DEF h
  <2>. QED
    BY <1>1, <2>1, <2>2, SetStatusFacts DEF TablesStep, ReconTypeOK
<1>7. ASSUME NEW s \in Sessions, CompleteCommit(s)
      PROVE  TablesStep
  <2>. DEFINE h == executions[held[s].execution].hypothesis
  <2>1. /\ held[s].at = "commit_completion"
        /\ SetStatus(h, held[s].seen, "executed")
        /\ targets' = targets
    BY <1>7 DEF CompleteCommit
  <2>2. h \in Subjects /\ Created(h) /\ "executed" \in HypothesisStatus
    BY <2>1, CompletionFacts DEF HypothesisStatus
  <2>. HIDE DEF h
  <2>. QED
    BY <1>1, <2>1, <2>2, SetStatusFacts DEF TablesStep, ReconTypeOK
<1>8. ASSUME NEW s \in Sessions,
             \/ ReconStart(s)
             \/ WorkflowStep(s) \/ RefuseRequest(s) \/ QueueExecution(s) \/ CompleteRead(s)
             \/ ReconAbort(s)
      PROVE  UNCHANGED <<targets, hypotheses>>
  BY <1>8 DEF ReconStart, OpenRequest, OpenDecision, TryGate, CompleteLoad, WorkflowStep,
     RefuseRequest, QueueExecution, CompleteRead, ReconAbort, rows
<1>9. ReconTick \/ UNCHANGED reconVars => UNCHANGED <<targets, hypotheses>>
  BY DEF ReconTick, reconVars, rows
<1>. QED
  BY <1>2, <1>3, <1>4, <1>5, <1>6, <1>7, <1>8, <1>9 DEF ReconNext, ReconContinue

-----------------------------------------------------------------------------
(* Executions and findings *)

\* What a completion makes of the execution it completes.
Completed(e) == [executions EXCEPT ![e].status = "completed"]

\* A completion sets the status of one execution, and nothing else.
LEMMA CompletedFacts ==
    ASSUME executions \in Seq(Execution), NEW e \in DOMAIN executions
    PROVE  /\ Completed(e) \in Seq(Execution)
           /\ Len(Completed(e)) = Len(executions)
           /\ DOMAIN Completed(e) = DOMAIN executions
           /\ Completed(e)[e].status = "completed"
           /\ \A d \in DOMAIN executions :
                 /\ d # e => Completed(e)[d] = executions[d]
                 /\ Completed(e)[d].hypothesis = executions[d].hypothesis
                 /\ Completed(e)[d].approved_by = executions[d].approved_by
<1>. DEFINE row == [executions[e] EXCEPT !.status = "completed"]
<1>1. executions[e] \in Execution
  BY ElementOfSeq
<1>2. /\ row \in Execution
      /\ row.status = "completed"
      /\ row.hypothesis = executions[e].hypothesis
      /\ row.approved_by = executions[e].approved_by
  BY <1>1 DEF Execution
<1>3. Completed(e) = [executions EXCEPT ![e] = row]
  BY DEF Completed
<1>. HIDE DEF row
<1>4. /\ Completed(e) \in Seq(Execution)
      /\ Len(Completed(e)) = Len(executions)
      /\ \A d \in 1..Len(executions) :
            Completed(e)[d] = IF d = e THEN row ELSE executions[d]
  BY <1>2, <1>3, ExceptSeq
<1>5. DOMAIN Completed(e) = DOMAIN executions
  BY <1>4
<1>. QED
  BY <1>2, <1>4, <1>5

\* What a cleared session queues.
LEMMA QueueFacts ==
    ASSUME ReconInv, NEW s \in Sessions, QueueExecution(s)
    PROVE  \E row \in Execution :
              /\ row.hypothesis = sessions[s].subject
              /\ row.approved_by = sessions[s].approver
              /\ row.status = "queued"
              /\ Created(row.hypothesis)
              /\ sessions[s].pc = "cleared"
              /\ executions' = Append(executions, row)
              /\ findings' = findings
<1>. DEFINE row == [hypothesis  |-> sessions[s].subject,
                    approved_by |-> sessions[s].approver,
                    status      |-> "queued"]
<1>1. /\ sessions[s].pc = "cleared"
      /\ executions' = Append(executions, row)
      /\ findings' = findings
  BY DEF QueueExecution, GateProceed
<1>2. sessions[s] \in AtGate
  BY <1>1, SessionKinds DEF ReconInv, Inv
<1>3. row \in Execution
  BY <1>2 DEF AtGate, Execution
<1>4. /\ row.hypothesis = sessions[s].subject
      /\ row.approved_by = sessions[s].approver
      /\ row.status = "queued"
  OBVIOUS
<1>5. Created(sessions[s].subject)
  BY <1>1 DEF ReconInv, SessionsCreated, GatePoints
<1>. HIDE DEF row
<1>. QED
  BY <1>1, <1>3, <1>4, <1>5

\* What a completion writes.
LEMMA CompleteFacts ==
    ASSUME ReconInv, NEW s \in Sessions, CompleteCommit(s)
    PROVE  \E e \in DOMAIN executions :
              /\ executions' = Completed(e)
              /\ findings' = Append(findings, e)
              /\ UNCHANGED vars
<1>1. held[s].at = "commit_completion"
  BY DEF CompleteCommit
<1>2. held[s].execution \in DOMAIN executions
  BY <1>1, CompletionFacts
<1>. QED
  BY <1>2 DEF CompleteCommit, Completed

\* Only queueing and completion write these tables.
LEMMA PipelineSteps ==
    ASSUME [ReconNext]_reconVars
    PROVE  \/ UNCHANGED <<executions, findings>>
           \/ \E s \in Sessions : QueueExecution(s) \/ CompleteCommit(s)
BY DEF ReconNext, ReconTick, TargetCreate, HypothesisCreate, ReconStart, ReconContinue,
       OpenRequest, OpenDecision, TryGate, CompleteLoad, WorkflowStep, FileRequest,
       RefuseRequest, FileDecision, CompleteRead, ReconAbort, reconVars, rows

\* What a step may do to them.
PipelineStep ==
    /\ executions' \in Seq(Execution)
    /\ Len(executions') >= Len(executions)
    /\ \A e \in DOMAIN executions :
          /\ executions'[e].hypothesis = executions[e].hypothesis
          /\ executions'[e].approved_by = executions[e].approved_by
    /\ \A e \in DOMAIN executions' \ DOMAIN executions :
          Created(executions'[e].hypothesis)
    /\ findings' \in Seq(DOMAIN executions')

LEMMA PipelineChange ==
    ASSUME ReconInv, [ReconNext]_reconVars
    PROVE  PipelineStep /\ CompletedIffReported'
<1>1. /\ executions \in Seq(Execution)
      /\ findings \in Seq(DOMAIN executions)
      /\ CompletedIffReported
  BY DEF ReconInv, ReconTypeOK
<1>2. CASE UNCHANGED <<executions, findings>>
  BY <1>1, <1>2 DEF PipelineStep, CompletedIffReported
<1>3. ASSUME NEW s \in Sessions, QueueExecution(s)
      PROVE  PipelineStep /\ CompletedIffReported'
  <2>1. PICK row \in Execution :
          /\ row.status = "queued"
          /\ Created(row.hypothesis)
          /\ executions' = Append(executions, row)
          /\ findings' = findings
    BY <1>3, QueueFacts
  <2>2. /\ executions' \in Seq(Execution)
        /\ Len(executions') = Len(executions) + 1
        /\ DOMAIN executions' = 1..(Len(executions) + 1)
        /\ DOMAIN executions = 1..Len(executions)
        /\ Len(executions) \in Nat
        /\ executions'[Len(executions) + 1] = row
        /\ \A e \in DOMAIN executions : executions'[e] = executions[e]
    BY <1>1, <2>1, AppendProperties
  <2>3. findings' \in Seq(DOMAIN executions')
    <3>1. DOMAIN executions \subseteq DOMAIN executions'
      BY <2>2
    <3>. QED
      BY <1>1, <2>1, <3>1
  <2>4. PipelineStep
    BY <2>1, <2>2, <2>3 DEF PipelineStep
  <2>5. \A f \in DOMAIN findings : findings[f] \in DOMAIN executions
    BY <1>1, ElementOfSeq
  <2>6. CompletedIffReported'
    BY <1>1, <2>1, <2>2, <2>5 DEF CompletedIffReported
  <2>. QED
    BY <2>4, <2>6
<1>4. ASSUME NEW s \in Sessions, CompleteCommit(s)
      PROVE  PipelineStep /\ CompletedIffReported'
  <2>1. PICK e \in DOMAIN executions :
          executions' = Completed(e) /\ findings' = Append(findings, e)
    BY <1>4, CompleteFacts
  <2>2. /\ executions' \in Seq(Execution)
        /\ Len(executions') = Len(executions)
        /\ DOMAIN executions' = DOMAIN executions
        /\ executions'[e].status = "completed"
        /\ \A d \in DOMAIN executions :
              /\ d # e => executions'[d] = executions[d]
              /\ executions'[d].hypothesis = executions[d].hypothesis
              /\ executions'[d].approved_by = executions[d].approved_by
    BY <1>1, <2>1, CompletedFacts
  <2>3. /\ findings' \in Seq(DOMAIN executions)
        /\ DOMAIN findings' = 1..(Len(findings) + 1)
        /\ DOMAIN findings = 1..Len(findings)
        /\ Len(findings) \in Nat
        /\ findings'[Len(findings) + 1] = e
        /\ \A f \in DOMAIN findings : findings'[f] = findings[f]
    BY <1>1, <2>1, AppendProperties
  <2>4. PipelineStep
    BY <1>1, <2>2, <2>3 DEF PipelineStep
  <2>5. ASSUME NEW d \in DOMAIN executions
        PROVE  executions'[d].status = "completed"
                  <=> \E f \in DOMAIN findings' : findings'[f] = d
    <3>1. executions[d].status = "completed"
             <=> \E f \in DOMAIN findings : findings[f] = d
      BY <1>1 DEF CompletedIffReported
    <3>2. CASE d = e
      <4>1. Len(findings) + 1 \in DOMAIN findings'
        BY <2>3
      <4>. QED
        BY <2>2, <2>3, <3>2, <4>1
    <3>3. CASE d # e
      <4>1. \A f \in DOMAIN findings' :
               f \in DOMAIN findings \/ findings'[f] = e
        BY <2>3
      <4>2. DOMAIN findings \subseteq DOMAIN findings'
        BY <2>3
      <4>3. executions'[d] = executions[d]
        BY <2>2, <3>3
      <4>. QED
        BY <2>3, <3>1, <3>3, <4>1, <4>2, <4>3
    <3>. QED
      BY <3>2, <3>3
  <2>6. CompletedIffReported'
    BY <2>2, <2>5 DEF CompletedIffReported
  <2>. QED
    BY <2>4, <2>6
<1>. QED
  BY <1>2, <1>3, <1>4, PipelineSteps

-----------------------------------------------------------------------------
(* What a session holds *)

\* Every step leaves each session holding something well formed.
LEMMA HeldChange ==
    ASSUME ReconInv, [ReconNext]_reconVars, DOMAIN executions \subseteq DOMAIN executions'
    PROVE  held' \in [Sessions -> Held']
<1>1. held \in [Sessions -> Held]
  BY DEF ReconInv, ReconTypeOK
<1>2. Held \subseteq Held'
  BY DEF Held
<1>3. ASSUME NEW s \in Sessions, NEW rowsRead \in Held, Hold(s, rowsRead)
      PROVE  held' \in [Sessions -> Held']
  BY <1>1, <1>2, <1>3 DEF Hold
<1>4. Nothing \in Held
  BY DEF Held
<1>5. ASSUME NEW s \in Sessions, NEW user \in Users, NEW h \in Subjects,
             NEW lifetime \in Lifetimes, OpenRequest(s, user, h, lifetime)
      PROVE  held' \in [Sessions -> Held']
  <2>1. hypotheses[h].status \in HypothesisStatus
    BY <1>5 DEF OpenRequest, ReconInv, ReconTypeOK, Hypothesis
  <2>2. [at |-> "request", seen |-> hypotheses[h].status] \in Held
    BY <2>1 DEF Held
  <2>. QED
    BY <1>3, <1>5, <2>2 DEF OpenRequest
<1>6. ASSUME NEW s \in Sessions, NEW e \in DOMAIN executions, CompleteLoad(s, e)
      PROVE  held' \in [Sessions -> Held']
  <2>1. [at |-> "read_hypothesis", execution |-> e] \in Held
    BY DEF Held
  <2>. QED
    BY <1>3, <1>6, <2>1 DEF CompleteLoad
<1>7. ASSUME NEW s \in Sessions, CompleteRead(s)
      PROVE  held' \in [Sessions -> Held']
  <2>. DEFINE e == held[s].execution
              h == executions[e].hypothesis
  <2>1. held[s].at = "read_hypothesis"
    BY <1>7 DEF CompleteRead
  <2>2. e \in DOMAIN executions /\ h \in Subjects /\ Created(h)
    BY <2>1, CompletionFacts
  <2>3. hypotheses[h].status \in HypothesisStatus
    BY <2>2 DEF ReconInv, ReconTypeOK, Created, Hypothesis
  <2>4. [at |-> "commit_completion", execution |-> e, seen |-> hypotheses[h].status]
           \in Held
    BY <2>2, <2>3 DEF Held
  <2>. QED
    BY <1>3, <1>7, <2>4 DEF CompleteRead
<1>8. ASSUME NEW s \in Sessions,
             FileRequest(s) \/ RefuseRequest(s) \/ CompleteCommit(s) \/ ReconAbort(s)
      PROVE  held' \in [Sessions -> Held']
  <2>1. Hold(s, Nothing)
    BY <1>8 DEF FileRequest, RefuseRequest, CompleteCommit, ReconAbort, Release
  <2>. QED
    BY <1>3, <1>4, <2>1
<1>9. CASE UNCHANGED held
  BY <1>1, <1>2, <1>9
<1>10. ASSUME NEW s \in Sessions, ReconStart(s)
       PROVE  held' \in [Sessions -> Held']
  BY <1>5, <1>6, <1>9, <1>10 DEF ReconStart, OpenDecision, TryGate
<1>11. ASSUME NEW s \in Sessions, ReconContinue(s)
       PROVE  held' \in [Sessions -> Held']
  BY <1>7, <1>8, <1>9, <1>11 DEF ReconContinue, WorkflowStep, FileDecision, QueueExecution
<1>. QED
  BY <1>8, <1>9, <1>10, <1>11 DEF ReconNext, ReconTick, TargetCreate, HypothesisCreate,
     reconVars

-----------------------------------------------------------------------------
(* What the sessions and the rows are about *)

\* A step leaves a session asking about the hypothesis it asked about, or takes
\* it to a request or to the gate for a hypothesis that exists.
LEMMA SessionsAsk ==
    ASSUME ReconInv, [ReconNext]_reconVars, NEW s \in Sessions
    PROVE  /\ sessions'[s].pc \in RequestPoints =>
                 \/ /\ sessions[s].pc \in RequestPoints
                    /\ sessions'[s].row.subject = sessions[s].row.subject
                 \/ /\ sessions'[s].row.subject \in Subjects
                    /\ Created(sessions'[s].row.subject)
           /\ sessions'[s].pc \in GatePoints =>
                 \/ /\ sessions[s].pc \in GatePoints
                    /\ sessions'[s].subject = sessions[s].subject
                 \/ /\ sessions'[s].subject \in Subjects
                    /\ Created(sessions'[s].subject)
<1>. DEFINE Asks ==
           /\ sessions'[s].pc \in RequestPoints =>
                 \/ /\ sessions[s].pc \in RequestPoints
                    /\ sessions'[s].row.subject = sessions[s].row.subject
                 \/ /\ sessions'[s].row.subject \in Subjects
                    /\ Created(sessions'[s].row.subject)
           /\ sessions'[s].pc \in GatePoints =>
                 \/ /\ sessions[s].pc \in GatePoints
                    /\ sessions'[s].subject = sessions[s].subject
                 \/ /\ sessions'[s].subject \in Subjects
                    /\ Created(sessions'[s].subject)
<1>1. TypeOK /\ sessions \in [Sessions -> SessionState]
  BY DEF ReconInv, Inv, TypeOK
<1>2. sessions'[s] = sessions[s] => Asks
  OBVIOUS
<1>3. ASSUME NEW t \in Sessions, NEW state, Enter(t, state)
      PROVE  /\ sessions'[t] = state
             /\ t # s => sessions'[s] = sessions[s]
  BY <1>1, <1>3 DEF Enter
<1>4. ASSUME NEW state, Enter(s, state),
             state.pc \notin RequestPoints, state.pc \notin GatePoints
      PROVE  Asks
  BY <1>3, <1>4
<1>5. Return(s) => Asks
  <2>1. Idle.pc \notin RequestPoints /\ Idle.pc \notin GatePoints
    BY DEF Idle, RequestPoints, GatePoints
  <2>. QED
    BY <1>4, <2>1 DEF Return
<1>6. ASSUME NEW user \in Users, NEW h \in Subjects, NEW lifetime \in Lifetimes,
             OpenRequest(s, user, h, lifetime)
      PROVE  Asks
  <2>1. \E state : Enter(s, state) /\ state.pc = "expire_stale" /\ state.row.subject = h
    BY <1>6 DEF OpenRequest, RequestStart
  <2>2. Created(h)
    BY <1>6 DEF OpenRequest, Created
  <2>. QED
    BY <1>3, <2>1, <2>2 DEF RequestPoints, GatePoints
<1>7. ASSUME NEW user \in Users, NEW i \in DOMAIN approvals,
             NEW verdict \in {"approved", "rejected"}, OpenDecision(s, user, i, verdict)
      PROVE  Asks
  <2>1. \E state : Enter(s, state) /\ state.pc = Disposition(i, user)
    BY <1>7 DEF OpenDecision, DecideLoad
  <2>2. Disposition(i, user) \notin RequestPoints /\ Disposition(i, user) \notin GatePoints
    BY DEF Disposition, RequestPoints, GatePoints
  <2>. QED
    BY <1>4, <2>1, <2>2
<1>8. ASSUME NEW user \in Users, NEW h \in Subjects, TryGate(s, user, h)
      PROVE  Asks
  <2>1. \E state : Enter(s, state) /\ state.pc \in GatePoints /\ state.subject = h
    <3>. DEFINE Answer(pc, ids, i, approver) ==
                  [pc |-> pc, user |-> user, subject |-> h, overdue |-> ids,
                   approval |-> i, approver |-> approver]
    <3>1. \E pc \in GatePoints : \E ids, i, approver : Enter(s, Answer(pc, ids, i, approver))
      <4>1. CASE GateDeny(s, user, h)
        <5>1. \E ids, i, approver : Enter(s, Answer("denied", ids, i, approver))
          BY <4>1 DEF GateDeny
        <5>. QED
          BY <5>1 DEF GatePoints
      <4>2. CASE GateAllow(s, user, h)
        <5>1. \E ids, i, approver : Enter(s, Answer("cleared", ids, i, approver))
          BY <4>2 DEF GateAllow
        <5>. QED
          BY <5>1 DEF GatePoints
      <4>. QED
        BY <1>8, <4>1, <4>2 DEF TryGate
    <3>2. \A pc, ids, i, approver : /\ Answer(pc, ids, i, approver).pc = pc
                                    /\ Answer(pc, ids, i, approver).subject = h
      OBVIOUS
    <3>. HIDE DEF Answer
    <3>. QED
      BY <3>1, <3>2
  <2>2. Created(h)
    BY <1>8 DEF TryGate, Created
  <2>. QED
    BY <1>3, <2>1, <2>2 DEF RequestPoints, GatePoints
<1>9. CASE RequestLoadStale(s) \/ RequestProceed(s)
  <2>1. sessions[s].pc \in RequestPoints /\ sessions[s] \in Requesting
    BY <1>1, <1>9, SessionKinds DEF RequestLoadStale, RequestProceed, RequestPoints
  <2>2. sessions[s].row \in ApprovalRequest
    BY <2>1 DEF Requesting
  <2>3. \E state : /\ Enter(s, state)
                   /\ state.pc \in RequestPoints
                   /\ state.row.subject = sessions[s].row.subject
    <3>1. CASE RequestLoadStale(s)
      <4>. DEFINE stale == {i \in Pending(sessions[s].row.subject) : Overdue(i)}
                  state == [sessions[s] EXCEPT
                              !.pc = IF stale = {} THEN "check_pending" ELSE "sweep",
                              !.overdue = stale]
      <4>1. Enter(s, state)
        BY <3>1 DEF RequestLoadStale
      <4>2. state.pc \in RequestPoints /\ state.row = sessions[s].row
        BY <2>1 DEF Requesting, RequestPoints
      <4>. HIDE DEF state
      <4>. QED
        BY <4>1, <4>2
    <3>2. CASE RequestProceed(s)
      <4>. DEFINE row == [sessions[s].row EXCEPT !.created_at = readings + 1]
                  state == [sessions[s] EXCEPT !.pc = "insert", !.row = row]
      <4>1. row.subject = sessions[s].row.subject
        BY <2>2 DEF ApprovalRequest
      <4>2. Enter(s, [sessions[s] EXCEPT !.pc = "insert",
                                         !.row.created_at = readings + 1])
        BY <3>2 DEF RequestProceed
      <4>3. Enter(s, state)
        BY <2>1, <4>2 DEF Requesting
      <4>4. state.pc = "insert" /\ state.row = row
        BY <2>1 DEF Requesting
      <4>. HIDE DEF state, row
      <4>. QED
        BY <4>1, <4>3, <4>4 DEF RequestPoints
    <3>. QED
      BY <1>9, <3>1, <3>2
  <2>. QED
    BY <1>3, <2>1, <2>3 DEF RequestPoints, GatePoints
<1>10. CASE \/ RequestConflict(s) \/ RequestInsert(s) \/ RequestSweepConflict(s)
            \/ RequestSweepInsert(s) \/ DecideExpire(s) \/ DecideBlock(s)
            \/ DecideCommit(s) \/ GateCommitDenial(s) \/ GateProceed(s) \/ Abort(s)
  BY <1>5, <1>10 DEF RequestConflict, RequestInsert, RequestSweepConflict,
     RequestSweepInsert, DecideExpire, DecideBlock, DecideCommit, GateCommitDenial,
     GateProceed, Abort
<1>11. UNCHANGED sessions => Asks
  BY <1>2
<1>12. ReconStart(s) => Asks
  BY <1>6, <1>7, <1>8, <1>11 DEF ReconStart, CompleteLoad, vars
<1>13. ReconContinue(s) \/ ReconAbort(s) => Asks
  BY <1>9, <1>10, <1>11 DEF ReconContinue, WorkflowStep, FileRequest, RefuseRequest,
     FileDecision, QueueExecution, CompleteRead, CompleteCommit, ReconAbort, vars
<1>14. ASSUME NEW t \in Sessions, ReconStart(t) \/ ReconContinue(t) \/ ReconAbort(t), t # s
       PROVE  Asks
  <2>1. UNCHANGED sessions \/ \E state : Enter(t, state)
    BY <1>14 DEF ReconStart, ReconContinue, ReconAbort, OpenRequest, OpenDecision, TryGate,
       CompleteLoad, WorkflowStep, FileRequest, RefuseRequest, FileDecision,
       QueueExecution, CompleteRead, CompleteCommit, vars, Return, RequestStart,
       RequestLoadStale, RequestConflict, RequestProceed, RequestInsert,
       RequestSweepConflict, RequestSweepInsert, DecideLoad, DecideExpire, DecideBlock,
       DecideCommit, GateDeny, GateAllow, GateCommitDenial, GateProceed, Abort
  <2>. QED
    BY <1>2, <1>3, <1>14, <2>1
<1>15. ReconTick \/ (\E target \in Targets : TargetCreate(target)) \/ UNCHANGED reconVars
       \/ (\E h \in Subjects, target \in Targets, role \in Roles :
              HypothesisCreate(h, target, role))
          => UNCHANGED sessions
  BY DEF ReconTick, Tick, TargetCreate, HypothesisCreate, reconVars, vars
<1>. HIDE DEF Asks
<1>16. Asks
  BY <1>11, <1>12, <1>13, <1>14, <1>15 DEF ReconNext
<1>. QED
  BY <1>16 DEF Asks

LEMMA SessionsStayCreated ==
    ASSUME ReconInv, TablesStep, [ReconNext]_reconVars, TypeOK'
    PROVE  SessionsCreated'
<1> SUFFICES ASSUME NEW s \in Sessions
             PROVE  /\ sessions'[s].pc \in RequestPoints =>
                          hypotheses'[sessions'[s].row.subject] # NoRow
                    /\ sessions'[s].pc \in GatePoints =>
                          hypotheses'[sessions'[s].subject] # NoRow
  BY DEF SessionsCreated, Created
<1>1. sessions[s].pc \in RequestPoints =>
         sessions[s].row.subject \in Subjects /\ Created(sessions[s].row.subject)
  BY RequestSubject
<1>2. sessions[s].pc \in GatePoints =>
         sessions[s].subject \in Subjects /\ Created(sessions[s].subject)
  <2>1. sessions[s].pc \in GatePoints => sessions[s] \in AtGate
    BY SessionKinds DEF ReconInv, Inv, GatePoints
  <2>. QED
    BY <2>1 DEF AtGate, ReconInv, SessionsCreated
<1>3. \A h \in Subjects : Created(h) => hypotheses'[h] # NoRow
  BY DEF TablesStep
<1>. QED
  BY <1>1, <1>2, <1>3, SessionsAsk

\* A row that a step adds is about the subject of some session's request.
LEMMA NewRows ==
    ASSUME Inv, [Next]_vars, NEW i \in DOMAIN approvals', i \notin DOMAIN approvals
    PROVE  \E s \in Sessions : /\ sessions[s].pc \in RequestPoints
                               /\ approvals'[i].subject = sessions[s].row.subject
<1>1. TypeOK
  BY DEF Inv
<1>2. ~UNCHANGED <<approvals, audit>>
  OBVIOUS
<1>3. ASSUME NEW s \in Sessions, RequestInsert(s)
      PROVE  /\ sessions[s].pc \in RequestPoints
             /\ approvals'[i].subject = sessions[s].row.subject
  <2>1. sessions[s].row \in ApprovalRequest /\ approvals' = Append(approvals, sessions[s].row)
    BY <1>1, <1>3, InsertFacts
  <2>2. i = Len(approvals) + 1
    BY <1>1, <2>1, AppendProperties DEF TypeOK
  <2>3. approvals'[i] = sessions[s].row
    BY <1>1, <2>1, <2>2, AppendProperties DEF TypeOK
  <2>. QED
    BY <1>3, <2>3 DEF RequestInsert, RequestPoints
<1>4. ASSUME NEW s \in Sessions, RequestSweepInsert(s)
      PROVE  /\ sessions[s].pc \in RequestPoints
             /\ approvals'[i].subject = sessions[s].row.subject
  <2>1. PICK row \in ApprovalRequest :
          /\ SameTerms(row, sessions[s].row)
          /\ approvals' = Append(Expired(sessions[s].overdue), row)
    BY <1>1, <1>4, SweepFacts
  <2>2. /\ Expired(sessions[s].overdue) \in Seq(ApprovalRequest)
        /\ Len(Expired(sessions[s].overdue)) = Len(approvals)
    BY <1>1, ExpiredType DEF TypeOK
  <2>3. i = Len(approvals) + 1
    BY <1>1, <2>1, <2>2, AppendProperties DEF TypeOK
  <2>4. approvals'[i] = row
    BY <1>1, <2>1, <2>2, <2>3, AppendProperties DEF TypeOK
  <2>. QED
    BY <1>4, <2>1, <2>4 DEF RequestSweepInsert, RequestPoints, SameTerms
<1>5. ASSUME NEW s \in Sessions,
             \/ DecideExpire(s) \/ GateCommitDenial(s) \/ DecideBlock(s) \/ DecideCommit(s)
      PROVE  DOMAIN approvals' = DOMAIN approvals
  BY <1>5 DEF DecideExpire, GateCommitDenial, CommitExpiry, Expired, DecideBlock,
     DecideCommit, Decided
<1>. QED
  BY <1>2, <1>3, <1>4, <1>5, WritingSteps

LEMMA RowsStayCreated ==
    ASSUME ReconInv, TablesStep, [Next]_vars
    PROVE  RowsCreated'
<1>1. TypeOK /\ Keeps
  BY StepKeeps DEF ReconInv, Inv
<1>2. \A h \in Subjects : Created(h) => hypotheses'[h] # NoRow
  BY DEF TablesStep
<1>3. ASSUME NEW i \in DOMAIN approvals
      PROVE  hypotheses'[approvals'[i].subject] # NoRow
  <2>1. approvals[i] \in ApprovalRequest
    BY <1>1, ElementOfSeq DEF TypeOK
  <2>2. approvals[i].subject \in Subjects /\ Created(approvals[i].subject)
    BY <2>1 DEF ApprovalRequest, ReconInv, RowsCreated
  <2>. QED
    BY <1>1, <1>2, <2>2 DEF Keeps, SameTerms
<1>4. ASSUME NEW i \in DOMAIN approvals', i \notin DOMAIN approvals
      PROVE  hypotheses'[approvals'[i].subject] # NoRow
  <2>1. PICK s \in Sessions : /\ sessions[s].pc \in RequestPoints
                              /\ approvals'[i].subject = sessions[s].row.subject
    BY <1>4, NewRows DEF ReconInv
  <2>2. sessions[s].row.subject \in Subjects /\ Created(sessions[s].row.subject)
    BY <2>1, RequestSubject
  <2>. QED
    BY <1>2, <2>1, <2>2
<1>. QED
  BY <1>3, <1>4 DEF RowsCreated, Created

-----------------------------------------------------------------------------
(* The grants in the trail *)

\* The only entry that grants an approval is the one a decision adds.
LEMMA NewGrants ==
    ASSUME Inv, [Next]_vars, NEW k \in DOMAIN audit', k \notin DOMAIN audit,
           audit'[k].decision = "approved"
    PROVE  \E s \in Sessions :
              /\ DecideCommit(s)
              /\ k = Len(audit) + 1
              /\ audit'[k].approval = sessions[s].approval
              /\ audit'[k].actor = sessions[s].user
<1>1. TypeOK /\ audit \in Seq(AuditEntry)
  BY DEF Inv, TypeOK
<1>2. ~UNCHANGED <<approvals, audit>>
  OBVIOUS
<1>3. ASSUME NEW log \in Seq(AuditEntry), NEW entry \in AuditEntry,
             audit' = Append(log, entry), k \notin DOMAIN log
      PROVE  k = Len(log) + 1 /\ audit'[k] = entry
  BY <1>3, AppendProperties
<1>4. ASSUME NEW entries \in Seq(AuditEntry), NEW log, log = audit \o entries,
             NEW j \in DOMAIN log, j \notin DOMAIN audit
      PROVE  \E m \in DOMAIN entries : log[j] = entries[m]
  <2>1. /\ Len(log) = Len(audit) + Len(entries)
        /\ DOMAIN log = 1..Len(log)
        /\ \A m \in 1..Len(log) : m > Len(audit) => log[m] = entries[m - Len(audit)]
    BY <1>1, <1>4, ConcatProperties
  <2>2. j - Len(audit) \in DOMAIN entries
    BY <1>1, <1>4, <2>1
  <2>. QED
    BY <1>1, <1>4, <2>1, <2>2
<1>5. ASSUME NEW ids \in SUBSET DOMAIN approvals, NEW entries \in ExpiryEntries(ids)
      PROVE  entries \in Seq(AuditEntry) /\ \A m \in DOMAIN entries : entries[m].decision = "expired"
  BY <1>1, <1>5, RowSetsFinite, ExpiryEntriesType DEF TypeOK, ExpiryEntry
<1>6. ASSUME NEW s \in Sessions, RequestInsert(s)
      PROVE  FALSE
  <2>1. /\ RequestedEntry(Len(approvals) + 1, sessions[s].row) \in AuditEntry
        /\ audit' = Append(audit, RequestedEntry(Len(approvals) + 1, sessions[s].row))
    BY <1>1, <1>6, InsertFacts
  <2>2. audit'[k].decision = "pending"
    BY <1>1, <1>3, <2>1 DEF RequestedEntry
  <2>. QED
    BY <2>2
<1>7. ASSUME NEW s \in Sessions, RequestSweepInsert(s)
      PROVE  FALSE
  <2>1. PICK row \in ApprovalRequest, entries \in ExpiryEntries(sessions[s].overdue) :
          /\ sessions[s].overdue \in SUBSET DOMAIN approvals
          /\ RequestedEntry(Len(approvals) + 1, row) \in AuditEntry
          /\ audit' = Append(audit \o entries, RequestedEntry(Len(approvals) + 1, row))
    BY <1>1, <1>7, SweepFacts
  <2>. DEFINE log == audit \o entries
  <2>2. /\ entries \in Seq(AuditEntry)
        /\ \A m \in DOMAIN entries : entries[m].decision = "expired"
    BY <1>5, <2>1
  <2>3. log \in Seq(AuditEntry)
    BY <1>1, <2>2, ConcatProperties
  <2>4. CASE k \in DOMAIN log
    <3>1. log[k].decision = "expired"
      BY <1>4, <2>2, <2>4
    <3>2. audit'[k] = log[k]
      BY <2>1, <2>3, <2>4, AppendKeeps
    <3>. QED
      BY <3>1, <3>2
  <2>5. CASE k \notin DOMAIN log
    <3>1. audit'[k] = RequestedEntry(Len(approvals) + 1, row)
      BY <1>3, <2>1, <2>3, <2>5
    <3>. QED
      BY <3>1 DEF RequestedEntry
  <2>. QED
    BY <2>4, <2>5
<1>8. ASSUME NEW s \in Sessions, DecideExpire(s) \/ GateCommitDenial(s)
      PROVE  FALSE
  <2>1. PICK ids \in SUBSET DOMAIN approvals : CommitExpiry(ids)
    BY <1>1, <1>8, ExpiryFacts
  <2>2. PICK entries \in ExpiryEntries(ids) : audit' = audit \o entries
    BY <2>1 DEF CommitExpiry
  <2>3. /\ entries \in Seq(AuditEntry)
        /\ \A m \in DOMAIN entries : entries[m].decision = "expired"
    BY <1>5
  <2>4. audit'[k].decision = "expired"
    BY <1>4, <2>2, <2>3
  <2>. QED
    BY <2>4
<1>9. ASSUME NEW s \in Sessions, DecideBlock(s)
      PROVE  FALSE
  <2>1. PICK entry \in AuditEntry : entry.decision = "blocked" /\ audit' = Append(audit, entry)
    BY <1>1, <1>9, BlockFacts
  <2>. QED
    BY <1>1, <1>3, <2>1
<1>10. ASSUME NEW s \in Sessions, DecideCommit(s)
       PROVE  /\ k = Len(audit) + 1
              /\ audit'[k].approval = sessions[s].approval
              /\ audit'[k].actor = sessions[s].user
  <2>1. PICK i, user, verdict :
          /\ i = sessions[s].approval
          /\ user = sessions[s].user
          /\ audit' = Append(audit, [decision |-> verdict, approval |-> i,
                                     actor |-> user])
          /\ [decision |-> verdict, approval |-> i, actor |-> user] \in AuditEntry
    BY <1>1, <1>10, DecisionFacts
  <2>. QED
    BY <1>1, <1>3, <2>1
<1>. QED
  BY <1>2, <1>6, <1>7, <1>8, <1>9, <1>10, WritingSteps

LEMMA GrantsKeepRows ==
    ASSUME Inv, GrantsHaveRows, [Next]_vars
    PROVE  GrantsHaveRows'
<1>1. TypeOK /\ Keeps
  BY StepKeeps DEF Inv
<1>2. ASSUME NEW k \in DOMAIN audit', audit'[k].decision = "approved"
      PROVE  audit'[k].approval \in DOMAIN approvals'
  <2>1. CASE k \in DOMAIN audit
    BY <1>1, <1>2, <2>1 DEF Keeps, GrantsHaveRows
  <2>2. CASE k \notin DOMAIN audit
    <3>1. PICK s \in Sessions :
            DecideCommit(s) /\ audit'[k].approval = sessions[s].approval
      BY <1>2, <2>2, NewGrants
    <3>2. sessions[s].approval \in DOMAIN approvals
      BY <1>1, <3>1, DecisionFacts
    <3>. QED
      BY <1>1, <3>1, <3>2 DEF Keeps
  <2>. QED
    BY <2>1, <2>2
<1>. QED
  BY <1>2 DEF GrantsHaveRows

-----------------------------------------------------------------------------
(* The invariance theorems *)

LEMMA ReconInvInit == ReconInit => ReconInv
<1> SUFFICES ASSUME ReconInit
             PROVE  ReconInv
  OBVIOUS
<1>1. Init => Inv
  BY InvInit
<1>2. /\ Init
      /\ approvals = <<>> /\ audit = <<>> /\ executions = <<>> /\ findings = <<>>
      /\ sessions = [s \in Sessions |-> Idle]
      /\ targets = {} /\ hypotheses = [h \in Subjects |-> NoRow]
      /\ held = [s \in Sessions |-> Nothing]
  BY DEF ReconInit, Init
<1>3. ReconTypeOK
  BY <1>1, <1>2 DEF Inv, ReconTypeOK, Held
<1>4. SessionsCreated
  BY <1>2 DEF SessionsCreated, Idle, RequestPoints, GatePoints
<1>. QED
  BY <1>1, <1>2, <1>3, <1>4 DEF ReconInv, RowsCreated, ExecutionsCreated, HypothesesInScope,
     GrantsHaveRows, CompletedIffReported, Created

\* One step of the pipeline keeps the inductive invariant.
LEMMA ReconInvStep == ReconInv /\ [ReconNext]_reconVars => ReconInv'
<1> SUFFICES ASSUME ReconInv, [ReconNext]_reconVars
             PROVE  ReconInv'
  OBVIOUS
<1>1. [Next]_vars
  BY WorkflowRunsBeneath DEF ReconInv
<1>2. Inv' /\ TypeOK'
  BY <1>1, InvStep DEF ReconInv, Inv
<1>3. TablesStep /\ PipelineStep /\ CompletedIffReported'
  BY TablesChange, PipelineChange
<1>4. /\ executions \in Seq(Execution) /\ executions' \in Seq(Execution)
      /\ DOMAIN executions \subseteq DOMAIN executions'
  BY <1>3 DEF PipelineStep, ReconInv, ReconTypeOK
<1>5. held' \in [Sessions -> Held']
  BY <1>4, HeldChange
<1>6. ReconTypeOK'
  BY <1>2, <1>3, <1>5 DEF ReconTypeOK, TablesStep, PipelineStep
<1>7. RowsCreated' /\ SessionsCreated' /\ GrantsHaveRows'
  BY <1>1, <1>2, <1>3, RowsStayCreated, SessionsStayCreated, GrantsKeepRows DEF ReconInv
<1>8. ExecutionsCreated'
  <2>1. ASSUME NEW e \in DOMAIN executions
        PROVE  hypotheses'[executions'[e].hypothesis] # NoRow
    <3>1. executions[e] \in Execution
      BY <1>4, ElementOfSeq
    <3>2. executions[e].hypothesis \in Subjects /\ Created(executions[e].hypothesis)
      BY <3>1 DEF Execution, ReconInv, ExecutionsCreated
    <3>. QED
      BY <1>3, <3>2 DEF TablesStep, PipelineStep
  <2>2. ASSUME NEW e \in DOMAIN executions', e \notin DOMAIN executions
        PROVE  hypotheses'[executions'[e].hypothesis] # NoRow
    <3>1. executions'[e] \in Execution
      BY <1>4, ElementOfSeq
    <3>2. executions'[e].hypothesis \in Subjects /\ Created(executions'[e].hypothesis)
      BY <1>3, <2>2, <3>1 DEF Execution, PipelineStep
    <3>. QED
      BY <1>3, <3>2 DEF TablesStep
  <2>. QED
    BY <2>1, <2>2 DEF ExecutionsCreated, Created
<1>9. HypothesesInScope'
  BY <1>3 DEF TablesStep, HypothesesInScope, ReconInv, Created
<1>. QED
  BY <1>2, <1>3, <1>6, <1>7, <1>8, <1>9 DEF ReconInv

\* The inductive invariant holds of every behaviour of the pipeline.
THEOREM ReconInvariance == ReconSpec => []ReconInv
<1>. QED
  BY ReconInvInit, ReconInvStep, PTL DEF ReconSpec

\* Every behaviour of the pipeline is a behaviour of the approval workflow, so
\* what was proved of the workflow holds of the pipeline.
THEOREM WorkflowCarriesOver == ReconSpec => Spec
<1>1. ReconInit => Init
  BY DEF ReconInit
<1>2. ReconInv /\ [ReconNext]_reconVars => [Next]_vars
  BY WorkflowRunsBeneath DEF ReconInv
<1>. QED
  BY <1>1, <1>2, ReconInvariance, PTL DEF ReconSpec, Spec

\* Every table of the pipeline keeps its type, and no finding or session refers
\* to an execution that was not queued (recon models.py).
THEOREM ReconTypeCorrect == ReconSpec => []ReconTypeOK
<1>1. ReconInv => ReconTypeOK
  BY DEF ReconInv
<1>. QED
  BY <1>1, ReconInvariance, PTL

\* A hypothesis is only ever executed against a target in scope
\* (TargetService.create, HypothesisService.create).
THEOREM ExecutionsInScope == ReconSpec => []ExecutionsStayInScope
<1>1. ReconInv => ExecutionsStayInScope
  <2> SUFFICES ASSUME ReconInv, NEW e \in DOMAIN executions
               PROVE  /\ Created(executions[e].hypothesis)
                      /\ hypotheses[executions[e].hypothesis].target \in targets \cap InScope
    BY DEF ExecutionsStayInScope, Created
  <2>1. executions[e] \in Execution
    BY ElementOfSeq DEF ReconInv, ReconTypeOK
  <2>2. executions[e].hypothesis \in Subjects /\ Created(executions[e].hypothesis)
    BY <2>1 DEF Execution, ReconInv, ExecutionsCreated
  <2>. QED
    BY <2>2 DEF ReconInv, HypothesesInScope
<1>. QED
  BY <1>1, ReconInvariance, PTL

\* An execution is completed exactly when a finding came of it, although
\* completions overwrite each other (ExecutionService.complete).
THEOREM CompletionsReport == ReconSpec => []CompletedIffReported
<1>1. ReconInv => CompletedIffReported
  BY DEF ReconInv
<1>. QED
  BY <1>1, ReconInvariance, PTL

-----------------------------------------------------------------------------
(* The pipeline implements the abstract gate *)

\* The executions as the abstract gate sees them.
Named ==
    [e \in DOMAIN executions |-> [hypothesis  |-> executions[e].hypothesis,
                                  approved_by |-> executions[e].approved_by]]

GrantedEntries == {k \in DOMAIN audit : audit[k].decision = "approved"}

GrantOf(k) ==
    [hypothesis    |-> approvals[audit[k].approval].subject,
     requested_by  |-> approvals[audit[k].approval].requested_by,
     required_rank |-> role_rank(approvals[audit[k].approval].required_role),
     approver      |-> audit[k].actor]

LEMMA GrantsAreOfEntries == Grants = {GrantOf(k) : k \in GrantedEntries}
BY DEF Grants, GrantOf, GrantedEntries

\* No step changes or withdraws a grant.
LEMMA GrantsKept ==
    ASSUME Inv, GrantsHaveRows, [Next]_vars, NEW k \in GrantedEntries
    PROVE  k \in GrantedEntries' /\ GrantOf(k)' = GrantOf(k)
<1>1. Keeps
  BY StepKeeps DEF Inv
<1>2. k \in DOMAIN audit' /\ audit'[k] = audit[k] /\ audit[k].decision = "approved"
  BY <1>1 DEF Keeps, GrantedEntries
<1>3. /\ audit[k].approval \in DOMAIN approvals
      /\ SameTerms(approvals'[audit[k].approval], approvals[audit[k].approval])
  BY <1>1, <1>2 DEF Keeps, GrantsHaveRows, GrantedEntries
<1>. QED
  BY <1>2, <1>3 DEF GrantedEntries, GrantOf, SameTerms

\* A grant that a step adds is a proper one.
LEMMA GrantsProper ==
    ASSUME Inv, TypeOK', [Next]_vars, NEW k \in GrantedEntries', k \notin GrantedEntries
    PROVE  k = Len(audit) + 1 /\ GrantOf(k)' \in Gate!Grant
<1>1. TypeOK /\ Keeps
  BY StepKeeps DEF Inv
<1>2. k \notin DOMAIN audit
  BY <1>1 DEF Keeps, GrantedEntries
<1>3. PICK s \in Sessions :
        /\ DecideCommit(s)
        /\ k = Len(audit) + 1
        /\ audit'[k].approval = sessions[s].approval
        /\ audit'[k].actor = sessions[s].user
  BY <1>2, NewGrants DEF GrantedEntries
<1>. DEFINE i == sessions[s].approval
            user == sessions[s].user
<1>4. i \in DOMAIN approvals /\ user \in Users /\ sessions[s].pc = "commit_decision"
  BY <1>1, <1>3, DecisionFacts
<1>5. Qualified(user, approvals[i])
  BY <1>4 DEF Inv, CallsOK, CallOK
<1>6. i \in DOMAIN approvals' /\ SameTerms(approvals'[i], approvals[i])
  BY <1>1, <1>4 DEF Keeps
<1>7. approvals'[i] \in ApprovalRequest
  BY <1>6, ElementOfSeq DEF TypeOK
<1>8. Qualified(user, approvals'[i])
  BY <1>5, <1>6, QualifiedKept
<1>9. GrantOf(k)' = [hypothesis    |-> approvals'[i].subject,
                     requested_by  |-> approvals'[i].requested_by,
                     required_rank |-> role_rank(approvals'[i].required_role),
                     approver      |-> user]
  BY <1>3 DEF GrantOf
<1>10. role_rank(approvals'[i].required_role) \in Nat
  BY DEF role_rank
<1>. HIDE DEF i, user
<1>. QED
  BY <1>3, <1>4, <1>7, <1>8, <1>9, <1>10 DEF Gate!Grant, Qualified, ApprovalRequest

\* A step of the workflow leaves the grants as they are, or adds a proper one.
LEMMA GrantsStep ==
    ASSUME Inv, GrantsHaveRows, TypeOK', [Next]_vars
    PROVE  \/ Grants' = Grants
           \/ \E g \in Gate!Grant : g \notin Grants /\ Grants' = Grants \cup {g}
<1>1. Grants' = {GrantOf(k)' : k \in GrantedEntries'}
  BY DEF Grants, GrantOf, GrantedEntries
<1>2. Grants = {GrantOf(k) : k \in GrantedEntries}
  BY GrantsAreOfEntries
<1>3. \A k \in GrantedEntries : k \in GrantedEntries' /\ GrantOf(k)' = GrantOf(k)
  BY GrantsKept
<1>4. CASE GrantedEntries' \subseteq GrantedEntries
  <2>1. Grants' = {GrantOf(k)' : k \in GrantedEntries}
    BY <1>1, <1>3, <1>4
  <2>. QED
    BY <1>2, <1>3, <2>1
<1>5. CASE ~(GrantedEntries' \subseteq GrantedEntries)
  <2>1. PICK n \in GrantedEntries' : n \notin GrantedEntries
    BY <1>5
  <2>2. /\ GrantOf(n)' \in Gate!Grant
        /\ \A k \in GrantedEntries' : k \in GrantedEntries \/ k = n
    BY <2>1, GrantsProper
  <2>3. \A x : x \in Grants' <=> x \in Grants \/ x = GrantOf(n)'
    <3>1. \A x : x \in Grants' <=> \E k \in GrantedEntries' : x = GrantOf(k)'
      BY <1>1
    <3>2. \A x : x \in Grants <=> \E k \in GrantedEntries : x = GrantOf(k)
      BY <1>2
    <3>. QED
      BY <1>3, <2>1, <2>2, <3>1, <3>2
  <2>4. Grants' = Grants \cup {GrantOf(n)'}
    BY <2>3
  <2>. QED
    BY <2>2, <2>4
<1>. QED
  BY <1>4, <1>5

\* Queueing appends to the executions as the gate sees them, completion leaves
\* them as they are.
LEMMA NamedAppend ==
    ASSUME executions \in Seq(Execution), NEW row \in Execution,
           executions' = Append(executions, row)
    PROVE  Named' = Append(Named, [hypothesis  |-> row.hypothesis,
                                   approved_by |-> row.approved_by])
<1>. DEFINE Name(x) == [hypothesis |-> x.hypothesis, approved_by |-> x.approved_by]
            S == [hypothesis : Subjects, approved_by : Users \cup {Nobody}]
            n == Len(executions)
<1>1. /\ executions' \in Seq(Execution)
      /\ Len(executions') = n + 1
      /\ n \in Nat
      /\ DOMAIN executions = 1..n /\ DOMAIN executions' = 1..(n + 1)
      /\ executions'[n + 1] = row
      /\ \A e \in 1..n : executions'[e] = executions[e]
  BY AppendProperties
<1>2. /\ Named = [e \in 1..n |-> Name(executions[e])]
      /\ Named' = [e \in 1..(n + 1) |-> Name(executions'[e])]
  BY <1>1 DEF Named
<1>3. \A x \in Execution : Name(x) \in S
  BY DEF Execution
<1>4. /\ \A e \in 1..n : executions[e] \in Execution
      /\ \A e \in 1..(n + 1) : executions'[e] \in Execution
  BY <1>1, ElementOfSeq
<1>. HIDE DEF Name, S
<1>5. Named \in [1..n -> S] /\ Named' \in [1..(n + 1) -> S]
  BY <1>2, <1>3, <1>4
<1>. HIDE DEF n
<1>6. Named \in Seq(S) /\ Named' \in Seq(S) /\ Len(Named) = n /\ Len(Named') = n + 1
  BY <1>1, <1>5
<1>7. /\ Append(Named, Name(row)) \in Seq(S)
      /\ Len(Append(Named, Name(row))) = n + 1
      /\ Append(Named, Name(row))[n + 1] = Name(row)
      /\ \A e \in 1..n : Append(Named, Name(row))[e] = Named[e]
  BY <1>1, <1>3, <1>6, AppendProperties
<1>8. \A e \in 1..(n + 1) : Named'[e] = Append(Named, Name(row))[e]
  BY <1>1, <1>2, <1>7
<1>9. Named' = Append(Named, Name(row))
  BY <1>6, <1>7, <1>8, SeqEqual
<1>. QED
  BY <1>9 DEF Name

LEMMA NamedCompleted ==
    ASSUME executions \in Seq(Execution), NEW e \in DOMAIN executions,
           executions' = Completed(e)
    PROVE  Named' = Named
<1>1. /\ DOMAIN executions' = DOMAIN executions
      /\ \A d \in DOMAIN executions :
            /\ executions'[d].hypothesis = executions[d].hypothesis
            /\ executions'[d].approved_by = executions[d].approved_by
  BY CompletedFacts
<1>. QED
  BY <1>1 DEF Named

\* Every step of the pipeline is a step of the gate, or none.
LEMMA GateStep ==
    ASSUME ReconInv, TypeOK', [ReconNext]_reconVars
    PROVE  [Gate!GateNext]_(Gate!gateVars)
<1>1. Inv /\ GrantsHaveRows /\ [Next]_vars /\ executions \in Seq(Execution)
  BY WorkflowRunsBeneath DEF ReconInv, ReconTypeOK
<1>2. CASE UNCHANGED <<executions, findings>>
  <2>1. Named' = Named /\ findings' = findings
    BY <1>2 DEF Named
  <2>2. CASE Grants' = Grants
    BY <2>1, <2>2 DEF Named, Gate!gateVars
  <2>3. CASE \E g \in Gate!Grant : g \notin Grants /\ Grants' = Grants \cup {g}
    <3>1. Gate!Authorize
      <4>1. \E g \in Grants' \ Grants : g \in Gate!Grant /\ Grants' = Grants \cup {g}
        BY <2>3
      <4>. QED
        BY <2>1, <4>1 DEF Named, Gate!Authorize
    <3>. QED
      BY <3>1 DEF Gate!GateNext
  <2>. QED
    BY <1>1, <2>2, <2>3, GrantsStep
<1>3. ASSUME NEW s \in Sessions, QueueExecution(s)
      PROVE  Gate!GateNext
  <2>1. PICK row \in Execution :
          /\ row.hypothesis = sessions[s].subject
          /\ row.approved_by = sessions[s].approver
          /\ sessions[s].pc = "cleared"
          /\ executions' = Append(executions, row)
          /\ findings' = findings
    BY <1>3, QueueFacts
  <2>2. approvals' = approvals /\ audit' = audit
    BY <1>3 DEF QueueExecution, GateProceed
  <2>3. Grants' = Grants
    BY <2>2 DEF Grants
  <2>4. PICK k \in DOMAIN audit :
          /\ approvals[sessions[s].approval].subject = sessions[s].subject
          /\ audit[k] = [decision |-> "approved", approval |-> sessions[s].approval,
                         actor |-> sessions[s].approver]
    BY <1>1, <2>1 DEF Inv, CallsOK, CallOK
  <2>5. k \in GrantedEntries /\ GrantOf(k) \in Grants
    BY <2>4, GrantsAreOfEntries DEF GrantedEntries
  <2>6. /\ GrantOf(k).hypothesis = row.hypothesis
        /\ GrantOf(k).approver = row.approved_by
    BY <2>1, <2>4 DEF GrantOf
  <2>7. Named' = Append(Named, [hypothesis  |-> row.hypothesis,
                                approved_by |-> row.approved_by])
    BY <1>1, <2>1, NamedAppend
  <2>8. \E g \in Grants : Named' = Append(Named, [hypothesis  |-> g.hypothesis,
                                                  approved_by |-> g.approver])
    BY <2>5, <2>6, <2>7
  <2>9. Gate!Execute
    BY <2>1, <2>3, <2>8 DEF Named, Gate!Execute
  <2>. QED
    BY <2>9 DEF Gate!GateNext
<1>4. ASSUME NEW s \in Sessions, CompleteCommit(s)
      PROVE  Gate!GateNext
  <2>1. PICK e \in DOMAIN executions :
          /\ executions' = Completed(e)
          /\ findings' = Append(findings, e)
          /\ UNCHANGED vars
    BY <1>4, CompleteFacts
  <2>2. Named' = Named
    BY <1>1, <2>1, NamedCompleted
  <2>3. Grants' = Grants
    BY <2>1 DEF Grants, vars
  <2>4. e \in DOMAIN Named
    BY DEF Named
  <2>5. Gate!Report
    BY <2>1, <2>2, <2>3, <2>4 DEF Named, Gate!Report
  <2>. QED
    BY <2>5 DEF Gate!GateNext
<1>. QED
  BY <1>2, <1>3, <1>4, PipelineSteps

\* "Nothing executes without approval": the pipeline implements the abstract
\* gate, whatever the interleaving of its requests (routes.py, services.py).
THEOREM PipelineImplementsGate == ReconSpec => NothingExecutesWithoutApproval
<1>1. ReconInit => Gate!GateInit
  <2> SUFFICES ASSUME ReconInit
               PROVE  Gate!GateInit
    OBVIOUS
  <2>1. audit = <<>> /\ executions = <<>> /\ findings = <<>>
    BY DEF ReconInit, Init
  <2>2. Grants = {}
    BY <2>1 DEF Grants
  <2>3. Named = <<>>
    BY <2>1 DEF Named
  <2>. QED
    BY <2>1, <2>2, <2>3 DEF Named, Gate!GateInit
<1>2. ReconInv /\ TypeOK' /\ [ReconNext]_reconVars => [Gate!GateNext]_(Gate!gateVars)
  BY GateStep
<1>3. ReconInv => TypeOK
  BY DEF ReconInv, Inv
<1>. QED
  BY <1>1, <1>2, <1>3, ReconInvariance, PTL
     DEF ReconSpec, NothingExecutesWithoutApproval, Gate!GateSpec

-----------------------------------------------------------------------------
(* What the status of a hypothesis says *)

\* Every entry of the trail is about a row.
EntriesHaveRows == \A k \in DOMAIN audit : audit[k].approval \in DOMAIN approvals

\* A request in its session still holds the status it loaded; a hypothesis
\* that had left "draft" by then is not back in it.
RequestsHold ==
    \A s \in Sessions : sessions[s].pc \in RequestPoints =>
        /\ held[s].at = "request"
        /\ held[s].seen # "draft" => hypotheses[sessions[s].row.subject].status # "draft"

\* StatusIsEarned, status by status.
Reported(h) == \E f \in DOMAIN findings : executions[findings[f]].hypothesis = h

Earned(h) ==
    /\ hypotheses[h].status \in {"approved", "rejected"} => Logged(h, hypotheses[h].status)
    /\ hypotheses[h].status = "pending_approval" => Logged(h, "pending")
    /\ hypotheses[h].status = "executed" => Reported(h)
    /\ hypotheses[h].status = "draft" => ~Logged(h, "pending")

EarnedInv ==
    /\ ReconInv
    /\ EntriesHaveRows
    /\ RequestsHold
    /\ \A h \in Subjects : Created(h) => Earned(h)

-----------------------------------------------------------------------------
(* What a step writes in the trail *)

LEMMA ReconWritingSteps ==
    ASSUME [ReconNext]_reconVars
    PROVE  \/ UNCHANGED <<approvals, audit>>
           \/ \E s \in Sessions :
                 \/ FileRequest(s) \/ FileDecision(s)
                 \/ DecideExpire(s) \/ GateCommitDenial(s) \/ DecideBlock(s)
<1>1. ASSUME NEW s \in Sessions, ReconStart(s)
      PROVE  UNCHANGED <<approvals, audit>>
  BY <1>1 DEF ReconStart, OpenRequest, RequestStart, OpenDecision, DecideLoad, TryGate,
              GateDeny, GateAllow, CompleteLoad, vars
<1>2. ASSUME NEW s \in Sessions, ReconContinue(s)
      PROVE  \/ UNCHANGED <<approvals, audit>>
             \/ FileRequest(s) \/ FileDecision(s)
             \/ DecideExpire(s) \/ GateCommitDenial(s) \/ DecideBlock(s)
  <2>1. CASE WorkflowStep(s)
    BY <2>1 DEF WorkflowStep, RequestLoadStale, RequestProceed
  <2>2. CASE RefuseRequest(s)
    BY <2>2 DEF RefuseRequest, RequestConflict, RequestSweepConflict
  <2>3. CASE QueueExecution(s) \/ CompleteRead(s) \/ CompleteCommit(s)
    BY <2>3 DEF QueueExecution, GateProceed, CompleteRead, CompleteCommit, vars
  <2>4. QED
    BY <1>2, <2>1, <2>2, <2>3 DEF ReconContinue
<1>3. ASSUME NEW s \in Sessions, ReconAbort(s)
      PROVE  UNCHANGED <<approvals, audit>>
  BY <1>3 DEF ReconAbort, Abort, vars
<1>4. CASE \/ ReconTick \/ UNCHANGED reconVars
           \/ \E target \in Targets : TargetCreate(target)
           \/ \E h \in Subjects, target \in Targets, role \in Roles :
                 HypothesisCreate(h, target, role)
  BY <1>4 DEF ReconTick, Tick, TargetCreate, HypothesisCreate, reconVars, vars
<1>5. QED
  BY <1>1, <1>2, <1>3, <1>4 DEF ReconNext

\* A request adds one entry for its own row.
LEMMA InsertLogs ==
    ASSUME Inv, NEW s \in Sessions, RequestInsert(s) \/ RequestSweepInsert(s)
    PROVE  LET i == Len(approvals) + 1
           IN  /\ i \in DOMAIN approvals'
               /\ approvals'[i].subject = sessions[s].row.subject
               /\ \E k \in DOMAIN audit' :
                     audit'[k].decision = "pending" /\ audit'[k].approval = i
               /\ \A k \in DOMAIN audit' \ DOMAIN audit :
                     \/ audit'[k].approval = i
                     \/ audit'[k].decision # "pending" /\ audit'[k].approval \in DOMAIN approvals
<1>1. TypeOK /\ audit \in Seq(AuditEntry) /\ approvals \in Seq(ApprovalRequest)
  BY DEF Inv, TypeOK
<1>2. CASE RequestInsert(s)
  <2> DEFINE entry == RequestedEntry(Len(approvals) + 1, sessions[s].row)
  <2>1. /\ sessions[s].row \in ApprovalRequest /\ entry \in AuditEntry
        /\ approvals' = Append(approvals, sessions[s].row)
        /\ audit' = Append(audit, entry)
    BY <1>1, <1>2, InsertFacts
  <2>2. entry.decision = "pending" /\ entry.approval = Len(approvals) + 1
    BY DEF RequestedEntry
  <2> HIDE DEF entry
  <2>3. /\ Len(approvals) + 1 \in DOMAIN approvals'
        /\ approvals'[Len(approvals) + 1] = sessions[s].row
    BY <1>1, <2>1, AppendProperties
  <2>4. /\ DOMAIN audit' = 1..(Len(audit) + 1) /\ DOMAIN audit = 1..Len(audit)
        /\ Len(audit) \in Nat /\ audit'[Len(audit) + 1] = entry
    BY <1>1, <2>1, AppendProperties
  <2>5. \A k \in DOMAIN audit' \ DOMAIN audit : audit'[k] = entry
    BY <2>4
  <2>6. Len(audit) + 1 \in DOMAIN audit'
    BY <2>4
  <2>7. QED
    BY <2>2, <2>3, <2>4, <2>5, <2>6
<1>3. CASE RequestSweepInsert(s)
  <2>1. PICK row \in ApprovalRequest, entries \in ExpiryEntries(sessions[s].overdue) :
          /\ sessions[s].overdue \in SUBSET DOMAIN approvals
          /\ entries \in Seq(AuditEntry)
          /\ RequestedEntry(Len(approvals) + 1, row) \in AuditEntry
          /\ SameTerms(row, sessions[s].row)
          /\ approvals' = Append(Expired(sessions[s].overdue), row)
          /\ audit' = Append(audit \o entries, RequestedEntry(Len(approvals) + 1, row))
    BY <1>1, <1>3, SweepFacts
  <2> DEFINE entry == RequestedEntry(Len(approvals) + 1, row)
             log == audit \o entries
  <2>2. entry.decision = "pending" /\ entry.approval = Len(approvals) + 1
    BY DEF RequestedEntry
  <2>3. /\ Expired(sessions[s].overdue) \in Seq(ApprovalRequest)
        /\ Len(Expired(sessions[s].overdue)) = Len(approvals)
    BY <1>1, ExpiredType
  <2>4. /\ Len(approvals) + 1 \in DOMAIN approvals'
        /\ approvals'[Len(approvals) + 1] = row
    BY <1>1, <2>1, <2>3, AppendProperties
  <2>5. /\ log \in Seq(AuditEntry) /\ DOMAIN log = 1..Len(log)
        /\ Len(log) = Len(audit) + Len(entries)
        /\ \A m \in 1..Len(log) : m > Len(audit) => log[m] = entries[m - Len(audit)]
    BY <1>1, <2>1, ConcatProperties
  <2>6. \A m \in DOMAIN entries :
           entries[m].decision = "expired" /\ entries[m].approval \in DOMAIN approvals
    <3>1. IsFiniteSet(sessions[s].overdue) /\ sessions[s].overdue \in SUBSET Nat
      BY <1>1, <2>1, RowSetsFinite
    <3>2. \A m \in DOMAIN entries : \E i \in sessions[s].overdue : entries[m] = ExpiryEntry(i)
      BY <3>1, ExpiryEntriesType
    <3>3. QED
      BY <2>1, <3>2 DEF ExpiryEntry
  <2>7. audit' = Append(log, entry) /\ entry \in AuditEntry
    BY <2>1
  <2>8. /\ DOMAIN audit = 1..Len(audit) /\ Len(audit) \in Nat
        /\ DOMAIN entries = 1..Len(entries) /\ Len(entries) \in Nat
    BY <1>1, <2>1
  <2> HIDE DEF entry, log
  <2>9. /\ DOMAIN audit' = 1..(Len(log) + 1) /\ Len(log) \in Nat
        /\ audit'[Len(log) + 1] = entry
        /\ \A m \in 1..Len(log) : audit'[m] = log[m]
    BY <2>5, <2>7, AppendProperties
  <2>10. ASSUME NEW k \in DOMAIN audit' \ DOMAIN audit
         PROVE  audit'[k] = entry \/ \E m \in DOMAIN entries : audit'[k] = entries[m]
    <3>1. CASE k = Len(log) + 1
      BY <2>9, <3>1
    <3>2. CASE k # Len(log) + 1
      <4>1. k \in 1..Len(log) /\ k > Len(audit)
        BY <2>8, <2>9, <2>10, <3>2
      <4>2. k - Len(audit) \in DOMAIN entries /\ audit'[k] = entries[k - Len(audit)]
        BY <2>5, <2>8, <2>9, <4>1
      <4>3. QED
        BY <4>2
    <3>3. QED
      BY <3>1, <3>2
  <2>11. Len(log) + 1 \in DOMAIN audit'
    BY <2>9
  <2>12. row.subject = sessions[s].row.subject
    BY <2>1 DEF SameTerms
  <2>13. QED
    BY <2>2, <2>4, <2>6, <2>9, <2>10, <2>11, <2>12
<1>4. QED
  BY <1>2, <1>3

\* A decision adds one entry for the row it decides.
LEMMA DecisionLogs ==
    ASSUME Inv, NEW s \in Sessions, DecideCommit(s)
    PROVE  /\ sessions[s].approval \in DOMAIN approvals
           /\ sessions[s].verdict \in {"approved", "rejected"}
           /\ \E k \in DOMAIN audit' : /\ audit'[k].decision = sessions[s].verdict
                                       /\ audit'[k].approval = sessions[s].approval
           /\ \A k \in DOMAIN audit' \ DOMAIN audit :
                 audit'[k].decision # "pending" /\ audit'[k].approval \in DOMAIN approvals
<1>1. TypeOK /\ audit \in Seq(AuditEntry)
  BY DEF Inv, TypeOK
<1>2. PICK i \in DOMAIN approvals, user \in Users, verdict \in {"approved", "rejected"} :
         /\ i = sessions[s].approval /\ verdict = sessions[s].verdict
         /\ audit' = Append(audit, [decision |-> verdict, approval |-> i, actor |-> user])
         /\ [decision |-> verdict, approval |-> i, actor |-> user] \in AuditEntry
  BY <1>1, DecisionFacts
<1> DEFINE entry == [decision |-> verdict, approval |-> i, actor |-> user]
<1>3. entry.decision = verdict /\ entry.approval = i /\ audit' = Append(audit, entry)
      /\ entry \in AuditEntry
  BY <1>2
<1> HIDE DEF entry
<1>4. /\ DOMAIN audit' = 1..(Len(audit) + 1) /\ DOMAIN audit = 1..Len(audit)
      /\ Len(audit) \in Nat /\ audit'[Len(audit) + 1] = entry
  BY <1>1, <1>3, AppendProperties
<1>5. Len(audit) + 1 \in DOMAIN audit' /\ \A k \in DOMAIN audit' \ DOMAIN audit : audit'[k] = entry
  BY <1>4
<1>6. QED
  BY <1>2, <1>3, <1>4, <1>5

\* Expiries and refusals add no request.
LEMMA OthersLog ==
    ASSUME Inv, NEW s \in Sessions, DecideExpire(s) \/ GateCommitDenial(s) \/ DecideBlock(s)
    PROVE  \A k \in DOMAIN audit' \ DOMAIN audit :
              audit'[k].decision # "pending" /\ audit'[k].approval \in DOMAIN approvals
<1>1. TypeOK /\ audit \in Seq(AuditEntry) /\ approvals \in Seq(ApprovalRequest)
  BY DEF Inv, TypeOK
<1>2. CASE DecideBlock(s)
  <2> DEFINE entry == [decision |-> "blocked", approval |-> sessions[s].approval,
                       actor |-> sessions[s].user]
  <2>1. sessions[s] \in Deciding
    BY <1>1, <1>2, SessionKinds DEF DecideBlock
  <2>2. /\ entry \in AuditEntry /\ entry.approval \in DOMAIN approvals
        /\ entry.decision # "pending" /\ audit' = Append(audit, entry)
    BY <1>1, <1>2, <2>1 DEF DecideBlock, Deciding, AuditEntry
  <2> HIDE DEF entry
  <2>3. /\ DOMAIN audit' = 1..(Len(audit) + 1) /\ DOMAIN audit = 1..Len(audit)
        /\ Len(audit) \in Nat /\ audit'[Len(audit) + 1] = entry
    BY <1>1, <2>2, AppendProperties
  <2>4. QED
    BY <2>2, <2>3
<1>3. CASE DecideExpire(s) \/ GateCommitDenial(s)
  <2>1. PICK ids \in SUBSET DOMAIN approvals : CommitExpiry(ids)
    BY <1>1, <1>3, ExpiryFacts
  <2>2. PICK entries \in ExpiryEntries(ids) : audit' = audit \o entries
    BY <2>1 DEF CommitExpiry
  <2>3. /\ entries \in Seq(AuditEntry)
        /\ \A m \in DOMAIN entries :
              entries[m].decision = "expired" /\ entries[m].approval \in DOMAIN approvals
    BY <1>1, RowSetsFinite, ExpiryEntriesType DEF ExpiryEntry
  <2>4. /\ DOMAIN audit' = 1..Len(audit') /\ Len(audit') = Len(audit) + Len(entries)
        /\ \A m \in 1..Len(audit') : m > Len(audit) => audit'[m] = entries[m - Len(audit)]
    BY <1>1, <2>2, <2>3, ConcatProperties
  <2>5. /\ DOMAIN audit = 1..Len(audit) /\ Len(audit) \in Nat
        /\ DOMAIN entries = 1..Len(entries) /\ Len(entries) \in Nat
    BY <1>1, <2>3
  <2>6. ASSUME NEW k \in DOMAIN audit' \ DOMAIN audit
        PROVE  audit'[k].decision # "pending" /\ audit'[k].approval \in DOMAIN approvals
    <3>1. k \in 1..Len(audit') /\ k > Len(audit)
      BY <2>4, <2>5, <2>6
    <3>2. k - Len(audit) \in DOMAIN entries /\ audit'[k] = entries[k - Len(audit)]
      BY <2>4, <2>5, <3>1
    <3>3. QED
      BY <2>3, <3>2
  <2>7. QED
    BY <2>6
<1>4. QED
  BY <1>2, <1>3

\* What a new entry of the trail may be, and the request it may be for.
LEMMA NewEntries ==
    ASSUME ReconInv, [ReconNext]_reconVars, NEW k \in DOMAIN audit', k \notin DOMAIN audit
    PROVE  \/ /\ audit'[k].decision # "pending"
              /\ audit'[k].approval \in DOMAIN approvals
           \/ \E s \in Sessions :
                 /\ FileRequest(s)
                 /\ audit'[k].approval = Len(approvals) + 1
                 /\ Len(approvals) + 1 \in DOMAIN approvals'
                 /\ approvals'[Len(approvals) + 1].subject = sessions[s].row.subject
<1>1. Inv
  BY DEF ReconInv
<1>2. PICK s \in Sessions :
         \/ FileRequest(s) \/ FileDecision(s)
         \/ DecideExpire(s) \/ GateCommitDenial(s) \/ DecideBlock(s)
  BY ReconWritingSteps
<1>3. CASE FileRequest(s)
  <2>1. RequestInsert(s) \/ RequestSweepInsert(s)
    BY <1>3 DEF FileRequest
  <2>2. QED
    BY <1>1, <1>3, <2>1, InsertLogs
<1>4. CASE FileDecision(s)
  <2>1. DecideCommit(s)
    BY <1>4 DEF FileDecision
  <2>2. QED
    BY <1>1, <2>1, DecisionLogs
<1>5. CASE DecideExpire(s) \/ GateCommitDenial(s) \/ DecideBlock(s)
  BY <1>1, <1>5, OthersLog
<1>6. QED
  BY <1>2, <1>3, <1>4, <1>5

LEMMA EntriesKeepRows ==
    ASSUME ReconInv, EntriesHaveRows, [ReconNext]_reconVars
    PROVE  Keeps /\ EntriesHaveRows'
<1>1. Keeps
  BY WorkflowRunsBeneath, StepKeeps DEF ReconInv, Inv
<1>2. ASSUME NEW k \in DOMAIN audit'
      PROVE  audit'[k].approval \in DOMAIN approvals'
  <2>1. CASE k \in DOMAIN audit
    BY <1>1, <2>1 DEF Keeps, EntriesHaveRows
  <2>2. CASE k \notin DOMAIN audit
    BY <1>1, <2>2, NewEntries DEF Keeps
  <2>3. QED
    BY <2>1, <2>2
<1>3. QED
  BY <1>1, <1>2 DEF EntriesHaveRows

\* What the trail has recorded of a hypothesis stays recorded.
LEMMA LoggedStays ==
    ASSUME EntriesHaveRows, Keeps, NEW h, NEW decision, Logged(h, decision)
    PROVE  Logged(h, decision)'
<1>1. PICK k \in DOMAIN audit : /\ audit[k].decision = decision
                                /\ approvals[audit[k].approval].subject = h
  BY DEF Logged
<1>2. audit[k].approval \in DOMAIN approvals
  BY DEF EntriesHaveRows
<1>3. k \in DOMAIN audit' /\ audit'[k] = audit[k]
  BY DEF Keeps
<1>4. approvals'[audit'[k].approval].subject = h
  BY <1>1, <1>2, <1>3 DEF Keeps, SameTerms
<1>5. QED
  BY <1>1, <1>3, <1>4 DEF Logged

-----------------------------------------------------------------------------
(* What a step writes on a hypothesis *)

\* The ways a hypothesis gets the status it has after a step.
StatusStep(h) ==
    \/ Created(h) /\ hypotheses'[h].status = hypotheses[h].status
    \/ ~Created(h) /\ hypotheses'[h].status = "draft" /\ UNCHANGED vars
    \/ \E s \in Sessions :
          /\ FileRequest(s) /\ h = sessions[s].row.subject
          /\ hypotheses'[h].status = "pending_approval"
    \/ \E s \in Sessions :
          /\ FileDecision(s) /\ h = approvals[sessions[s].approval].subject
          /\ hypotheses'[h].status = sessions[s].verdict
    \/ \E s \in Sessions :
          /\ CompleteCommit(s) /\ h = executions[held[s].execution].hypothesis
          /\ hypotheses'[h].status = "executed"

\* Writing a status touches one hypothesis, and may find it written already.
LEMMA SetStatusWrites ==
    ASSUME ReconTypeOK, NEW g \in Subjects, Created(g), NEW seen, NEW status,
           SetStatus(g, seen, status), NEW h \in Subjects, hypotheses'[h] # NoRow
    PROVE  \/ Created(h) /\ hypotheses'[h] = hypotheses[h]
           \/ h = g /\ seen # status /\ hypotheses'[h].status = status
<1>1. hypotheses[g] \in Hypothesis /\ hypotheses \in [Subjects -> Hypothesis \cup {NoRow}]
  BY DEF ReconTypeOK, Created
<1>2. CASE seen = status
  BY <1>2 DEF SetStatus, Created
<1>3. CASE seen # status
  <2>1. hypotheses' = [hypotheses EXCEPT ![g].status = status]
    BY <1>3 DEF SetStatus
  <2>2. h # g => hypotheses'[h] = hypotheses[h]
    BY <1>1, <2>1
  <2>3. hypotheses'[g].status = status
    BY <1>1, <2>1 DEF Hypothesis
  <2>4. QED
    BY <1>3, <2>2, <2>3 DEF Created
<1>4. QED
  BY <1>2, <1>3

LEMMA StatusChange ==
    ASSUME ReconInv, [ReconNext]_reconVars, NEW h \in Subjects, hypotheses'[h] # NoRow
    PROVE  StatusStep(h)
<1>1. ReconTypeOK
  BY DEF ReconInv
<1>2. CASE UNCHANGED hypotheses
  BY <1>2 DEF StatusStep, Created
<1>3. ASSUME NEW g \in Subjects, NEW target \in Targets, NEW role \in Roles,
             HypothesisCreate(g, target, role)
      PROVE  StatusStep(h)
  <2>1. /\ hypotheses' = [hypotheses EXCEPT ![g] = [target        |-> target,
                                                    required_role |-> role,
                                                    status        |-> "draft"]]
        /\ hypotheses[g] = NoRow /\ UNCHANGED vars
    BY <1>3 DEF HypothesisCreate
  <2>2. CASE h = g
    BY <1>1, <2>1, <2>2 DEF StatusStep, Created, ReconTypeOK
  <2>3. CASE h # g
    BY <1>1, <2>1, <2>3 DEF StatusStep, Created, ReconTypeOK
  <2>4. QED
    BY <2>2, <2>3
<1>4. ASSUME NEW s \in Sessions, FileRequest(s)
      PROVE  StatusStep(h)
  <2>1. sessions[s].pc \in RequestPoints
    BY <1>4 DEF FileRequest, RequestInsert, RequestSweepInsert, RequestPoints
  <2>2. sessions[s].row.subject \in Subjects /\ Created(sessions[s].row.subject)
    BY <2>1, RequestSubject
  <2>3. SetStatus(sessions[s].row.subject, held[s].seen, "pending_approval")
    BY <1>4 DEF FileRequest
  <2>4. QED
    BY <1>1, <1>4, <2>2, <2>3, SetStatusWrites DEF StatusStep
<1>5. ASSUME NEW s \in Sessions, FileDecision(s)
      PROVE  StatusStep(h)
  <2>1. PICK g : g = approvals[sessions[s].approval].subject
    OBVIOUS
  <2>2. SetStatus(g, hypotheses[g].status, sessions[s].verdict) /\ DecideCommit(s)
    BY <1>5, <2>1 DEF FileDecision
  <2>3. g \in Subjects /\ Created(g)
    BY <2>1, <2>2, DecisionSubject
  <2>4. QED
    BY <1>1, <1>5, <2>1, <2>2, <2>3, SetStatusWrites DEF StatusStep
<1>6. ASSUME NEW s \in Sessions, CompleteCommit(s)
      PROVE  StatusStep(h)
  <2>1. PICK g : g = executions[held[s].execution].hypothesis
    OBVIOUS
  <2>2. SetStatus(g, held[s].seen, "executed") /\ held[s].at = "commit_completion"
    BY <1>6, <2>1 DEF CompleteCommit
  <2>3. g \in Subjects /\ Created(g)
    BY <2>1, <2>2, CompletionFacts
  <2>4. QED
    BY <1>1, <1>6, <2>1, <2>2, <2>3, SetStatusWrites DEF StatusStep
<1>7. ASSUME NEW s \in Sessions, ReconStart(s) \/ ReconAbort(s)
      PROVE  UNCHANGED hypotheses
  BY <1>7 DEF ReconStart, OpenRequest, OpenDecision, TryGate, CompleteLoad, ReconAbort, rows
<1>8. ASSUME NEW s \in Sessions, ReconContinue(s)
      PROVE  StatusStep(h)
  <2>1. CASE WorkflowStep(s) \/ RefuseRequest(s) \/ QueueExecution(s) \/ CompleteRead(s)
    BY <1>2, <2>1 DEF WorkflowStep, RefuseRequest, QueueExecution, CompleteRead, rows
  <2>2. QED
    BY <1>4, <1>5, <1>6, <1>8, <2>1 DEF ReconContinue
<1>9. CASE ReconTick \/ UNCHANGED reconVars \/ \E target \in Targets : TargetCreate(target)
  BY <1>2, <1>9 DEF ReconTick, TargetCreate, reconVars, rows
<1>10. QED
  BY <1>2, <1>3, <1>7, <1>8, <1>9 DEF ReconNext

\* A hypothesis that has left "draft" never returns to it.
LEMMA DraftIsLeft ==
    ASSUME ReconInv, [ReconNext]_reconVars, NEW h \in Subjects, Created(h),
           hypotheses[h].status # "draft"
    PROVE  hypotheses'[h].status # "draft"
<1>1. hypotheses'[h] # NoRow
  BY TablesChange DEF TablesStep
<1>2. StatusStep(h)
  BY <1>1, StatusChange
<1>3. ASSUME NEW s \in Sessions, FileDecision(s)
      PROVE  sessions[s].verdict # "draft"
  <2>1. DecideCommit(s) /\ Inv
    BY <1>3 DEF FileDecision, ReconInv
  <2>2. QED
    BY <2>1, DecisionLogs
<1>4. QED
  BY <1>2, <1>3 DEF StatusStep

-----------------------------------------------------------------------------
(* What a request holds *)

\* Where a session with a request under way got it from.
Holding(s) ==
    \/ /\ sessions[s].pc \in RequestPoints
       /\ sessions'[s].row.subject = sessions[s].row.subject
       /\ held'[s] = held[s]
    \/ \E h \in Subjects :
          /\ sessions'[s].row.subject = h /\ UNCHANGED hypotheses
          /\ held'[s] = [at |-> "request", seen |-> hypotheses[h].status]

LEMMA HoldingStep ==
    ASSUME ReconInv, RequestsHold, [ReconNext]_reconVars, NEW s \in Sessions,
           sessions'[s].pc \in RequestPoints
    PROVE  Holding(s)
<1>1. /\ sessions \in [Sessions -> SessionState] /\ held \in [Sessions -> Held]
      /\ TypeOK
  BY DEF ReconInv, ReconTypeOK, TypeOK
<1>2. Idle.pc \notin RequestPoints
  BY DEF Idle, RequestPoints
<1>3. CASE sessions'[s] = sessions[s] /\ held'[s] = held[s]
  BY <1>3 DEF Holding
<1>4. ASSUME NEW t \in Sessions, NEW state, Enter(t, state)
      PROVE  IF t = s THEN sessions'[s] = state ELSE sessions'[s] = sessions[s]
  BY <1>1, <1>4 DEF Enter
<1>5. ASSUME NEW t \in Sessions, NEW rowsRead, Hold(t, rowsRead)
      PROVE  IF t = s THEN held'[s] = rowsRead ELSE held'[s] = held[s]
  BY <1>1, <1>5 DEF Hold
<1>6. ASSUME NEW t \in Sessions, Return(t)
      PROVE  t # s /\ sessions'[s] = sessions[s]
  BY <1>2, <1>4, <1>6 DEF Return
<1>7. ASSUME NEW t \in Sessions, NEW user \in Users, NEW h \in Subjects,
             NEW lifetime \in Lifetimes, OpenRequest(t, user, h, lifetime)
      PROVE  Holding(s)
  <2>1. /\ Hold(t, [at |-> "request", seen |-> hypotheses[h].status])
        /\ UNCHANGED hypotheses
        /\ RequestStart(t, user, h, hypotheses[h].required_role, lifetime)
    BY <1>7 DEF OpenRequest, rows
  <2>2. PICK state : Enter(t, state) /\ state.row.subject = h
    BY <2>1 DEF RequestStart
  <2>3. QED
    BY <1>3, <1>4, <1>5, <2>1, <2>2 DEF Holding
<1>8. ASSUME NEW t \in Sessions, NEW user \in Users,
             \/ \E i \in DOMAIN approvals, verdict \in {"approved", "rejected"} :
                   OpenDecision(t, user, i, verdict)
             \/ \E h \in Subjects : TryGate(t, user, h)
      PROVE  Holding(s)
  <2>1. PICK state : Enter(t, state) /\ state.pc \notin RequestPoints
    <3>1. ASSUME NEW h \in Subjects, TryGate(t, user, h)
          PROVE  \E state : Enter(t, state) /\ state.pc \notin RequestPoints
      <4> DEFINE state(pc, ids, i, approver) ==
                    [pc |-> pc, user |-> user, subject |-> h, overdue |-> ids,
                     approval |-> i, approver |-> approver]
      <4>1. \E pc \in GatePoints : \E ids, i, approver : Enter(t, state(pc, ids, i, approver))
        <5>1. CASE GateAllow(t, user, h)
          BY <5>1 DEF GateAllow, GatePoints
        <5>2. CASE GateDeny(t, user, h)
          <6>1. \/ Enter(t, state("denied", {}, 0, Nobody))
                \/ \E i \in Latest(h) :
                      Enter(t, state("denied", IF Overdue(i) THEN {i} ELSE {}, i, Nobody))
            BY <5>2 DEF GateDeny
          <6>2. QED
            BY <6>1 DEF GatePoints
        <5>3. QED
          BY <3>1, <5>1, <5>2 DEF TryGate
      <4>2. \A pc \in GatePoints : \A ids, i, approver :
               state(pc, ids, i, approver).pc \notin RequestPoints
        BY DEF GatePoints, RequestPoints
      <4>3. QED
        BY <4>1, <4>2
    <3>2. ASSUME NEW i \in DOMAIN approvals, NEW verdict \in {"approved", "rejected"},
                 OpenDecision(t, user, i, verdict)
          PROVE  \E state : Enter(t, state) /\ state.pc \notin RequestPoints
      BY <3>2 DEF OpenDecision, DecideLoad, Disposition, RequestPoints
    <3>3. QED
      BY <1>8, <3>1, <3>2
  <2>2. held' = held
    BY <1>8 DEF OpenDecision, TryGate
  <2>3. QED
    BY <1>3, <1>4, <2>1, <2>2
<1>9. ASSUME NEW t \in Sessions, NEW e \in DOMAIN executions, CompleteLoad(t, e)
      PROVE  Holding(s)
  <2>1. sessions' = sessions /\ sessions[t] = Idle
    BY <1>9 DEF CompleteLoad, vars
  <2>2. t # s
    BY <1>2, <2>1
  <2>3. held'[s] = held[s]
    BY <1>5, <1>9, <2>2 DEF CompleteLoad
  <2>4. QED
    BY <1>3, <2>1, <2>3
<1>10. ASSUME NEW t \in Sessions, WorkflowStep(t)
       PROVE  Holding(s)
  <2>1. held' = held
    BY <1>10 DEF WorkflowStep
  <2>2. CASE DecideExpire(t) \/ DecideBlock(t) \/ GateCommitDenial(t)
    BY <1>3, <1>6, <2>1, <2>2 DEF DecideExpire, DecideBlock, GateCommitDenial
  <2>3. CASE RequestLoadStale(t) \/ RequestProceed(t)
    <3>1. sessions[t].pc \in RequestPoints /\ sessions[t] \in Requesting
      BY <1>1, <2>3, SessionKinds DEF RequestLoadStale, RequestProceed, RequestPoints
    <3>2. PICK state : Enter(t, state) /\ state.row.subject = sessions[t].row.subject
      <4>1. CASE RequestLoadStale(t)
        <5>1. PICK pc, overdue : Enter(t, [sessions[t] EXCEPT !.pc = pc, !.overdue = overdue])
          BY <4>1 DEF RequestLoadStale
        <5>2. [sessions[t] EXCEPT !.pc = pc, !.overdue = overdue].row = sessions[t].row
          BY <3>1 DEF Requesting
        <5>3. QED
          BY <5>1, <5>2
      <4>2. CASE RequestProceed(t)
        <5>1. Enter(t, [sessions[t] EXCEPT !.pc = "insert", !.row.created_at = readings + 1])
          BY <4>2 DEF RequestProceed
        <5>2. [sessions[t] EXCEPT !.pc = "insert", !.row.created_at = readings + 1].row.subject
                 = sessions[t].row.subject
          BY <3>1 DEF Requesting, ApprovalRequest
        <5>3. QED
          BY <5>1, <5>2
      <4>3. QED
        BY <2>3, <4>1, <4>2
    <3>3. QED
      BY <1>3, <1>4, <2>1, <3>1, <3>2 DEF Holding
  <2>4. QED
    BY <1>10, <2>2, <2>3 DEF WorkflowStep
<1>11. ASSUME NEW t \in Sessions, FileRequest(t) \/ RefuseRequest(t)
       PROVE  Holding(s)
  <2>1. Return(t) /\ Release(t)
    BY <1>11 DEF FileRequest, RefuseRequest, RequestInsert, RequestSweepInsert,
                 RequestConflict, RequestSweepConflict
  <2>2. QED
    BY <1>3, <1>5, <1>6, <2>1 DEF Release
<1>12. ASSUME NEW t \in Sessions, FileDecision(t) \/ QueueExecution(t)
       PROVE  Holding(s)
  BY <1>3, <1>6, <1>12 DEF FileDecision, DecideCommit, QueueExecution, GateProceed
<1>13. ASSUME NEW t \in Sessions, CompleteRead(t) \/ CompleteCommit(t)
       PROVE  Holding(s)
  <2>1. sessions' = sessions /\ held[t].at # "request"
    BY <1>13 DEF CompleteRead, CompleteCommit, vars
  <2>2. t # s
    BY <2>1 DEF RequestsHold
  <2>3. held'[s] = held[s]
    BY <1>5, <1>13, <2>2 DEF CompleteRead, CompleteCommit, Release
  <2>4. QED
    BY <1>3, <2>1, <2>3
<1>14. ASSUME NEW t \in Sessions, ReconAbort(t)
       PROVE  Holding(s)
  <2>1. t # s /\ sessions'[s] = sessions[s]
    <3>1. CASE Abort(t)
      BY <1>6, <3>1 DEF Abort
    <3>2. CASE sessions[t] = Idle /\ UNCHANGED vars
      BY <1>2, <3>2 DEF vars
    <3>3. QED
      BY <1>14, <3>1, <3>2 DEF ReconAbort
  <2>2. held'[s] = held[s]
    BY <1>5, <1>14, <2>1 DEF ReconAbort, Release
  <2>3. QED
    BY <1>3, <2>1, <2>2
<1>15. CASE \/ ReconTick \/ UNCHANGED reconVars
            \/ \E target \in Targets : TargetCreate(target)
            \/ \E h \in Subjects, target \in Targets, role \in Roles :
                  HypothesisCreate(h, target, role)
  <2>1. sessions' = sessions /\ held' = held
    BY <1>15 DEF ReconTick, Tick, TargetCreate, HypothesisCreate, reconVars, vars
  <2>2. QED
    BY <1>3, <2>1
<1>16. ASSUME NEW t \in Sessions, ReconStart(t)
       PROVE  Holding(s)
  BY <1>7, <1>8, <1>9, <1>16 DEF ReconStart
<1>17. ASSUME NEW t \in Sessions, ReconContinue(t)
       PROVE  Holding(s)
  BY <1>10, <1>11, <1>12, <1>13, <1>17 DEF ReconContinue
<1>18. QED
  BY <1>14, <1>15, <1>16, <1>17 DEF ReconNext

LEMMA RequestsKeepHolding ==
    ASSUME ReconInv, RequestsHold, [ReconNext]_reconVars
    PROVE  RequestsHold'
<1> SUFFICES ASSUME NEW s \in Sessions, sessions'[s].pc \in RequestPoints
             PROVE  /\ held'[s].at = "request"
                    /\ held'[s].seen # "draft" =>
                          hypotheses'[sessions'[s].row.subject].status # "draft"
  BY DEF RequestsHold
<1>1. Holding(s)
  BY HoldingStep
<1>2. CASE /\ sessions[s].pc \in RequestPoints
           /\ sessions'[s].row.subject = sessions[s].row.subject
           /\ held'[s] = held[s]
  <2>1. sessions[s].row.subject \in Subjects /\ Created(sessions[s].row.subject)
    BY <1>2, RequestSubject
  <2>2. QED
    BY <1>2, <2>1, DraftIsLeft DEF RequestsHold
<1>3. ASSUME NEW h \in Subjects, sessions'[s].row.subject = h, UNCHANGED hypotheses,
             held'[s] = [at |-> "request", seen |-> hypotheses[h].status]
      PROVE  /\ held'[s].at = "request"
             /\ held'[s].seen # "draft" =>
                   hypotheses'[sessions'[s].row.subject].status # "draft"
  BY <1>3
<1>4. QED
  BY <1>1, <1>2, <1>3 DEF Holding

-----------------------------------------------------------------------------
(* Every status is earned *)

\* A finding stays, and the execution it came of keeps its hypothesis.
LEMMA ReportedStays ==
    ASSUME ReconInv, [ReconNext]_reconVars, NEW h, Reported(h)
    PROVE  Reported(h)'
<1>1. /\ findings \in Seq(DOMAIN executions) /\ executions \in Seq(Execution)
      /\ PipelineStep
  BY PipelineChange DEF ReconInv, ReconTypeOK
<1>2. PICK f \in DOMAIN findings : executions[findings[f]].hypothesis = h
  BY DEF Reported
<1>3. findings[f] \in DOMAIN executions
  BY <1>1, <1>2, ElementOfSeq
<1>4. f \in DOMAIN findings' /\ findings'[f] = findings[f]
  <2>1. CASE UNCHANGED findings
    BY <1>2, <2>1
  <2>2. CASE ~UNCHANGED findings
    <3>1. PICK s \in Sessions : QueueExecution(s) \/ CompleteCommit(s)
      BY <2>2, PipelineSteps
    <3>2. CompleteCommit(s) /\ held[s].execution \in DOMAIN executions
      BY <2>2, <3>1, CompletionFacts DEF QueueExecution, CompleteCommit
    <3>3. findings' = Append(findings, held[s].execution)
      BY <3>2 DEF CompleteCommit
    <3>4. QED
      BY <1>1, <1>2, <3>2, <3>3, AppendKeeps
  <2>3. QED
    BY <2>1, <2>2
<1>5. executions'[findings'[f]].hypothesis = h
  BY <1>1, <1>2, <1>3, <1>4 DEF PipelineStep
<1>6. QED
  BY <1>4, <1>5 DEF Reported

\* A request that the trail gains is one for a hypothesis that leaves "draft".
LEMMA DraftIsUnlogged ==
    ASSUME EarnedInv, [ReconNext]_reconVars, NEW h \in Subjects, Created(h),
           hypotheses[h].status = "draft", hypotheses'[h].status = "draft"
    PROVE  ~Logged(h, "pending")'
<1> SUFFICES ASSUME NEW k \in DOMAIN audit', audit'[k].decision = "pending",
                    approvals'[audit'[k].approval].subject = h
             PROVE  FALSE
  BY DEF Logged
<1>1. Keeps /\ ReconInv
  BY EntriesKeepRows DEF EarnedInv
<1>2. CASE k \in DOMAIN audit
  <2>1. audit'[k] = audit[k] /\ audit[k].approval \in DOMAIN approvals
    BY <1>1, <1>2 DEF Keeps, EarnedInv, EntriesHaveRows
  <2>2. approvals[audit[k].approval].subject = h
    BY <1>1, <2>1 DEF Keeps, SameTerms
  <2>3. Logged(h, "pending")
    BY <1>2, <2>1, <2>2 DEF Logged
  <2>4. QED
    BY <2>3 DEF EarnedInv, Earned
<1>3. CASE k \notin DOMAIN audit
  <2>1. PICK s \in Sessions : FileRequest(s) /\ h = sessions[s].row.subject
    BY <1>1, <1>3, NewEntries
  <2>2. sessions[s].pc \in RequestPoints
    BY <2>1 DEF FileRequest, RequestInsert, RequestSweepInsert, RequestPoints
  <2>3. held[s].seen = "draft"
    BY <2>1, <2>2 DEF EarnedInv, RequestsHold
  <2>4. SetStatus(h, "draft", "pending_approval")
    BY <2>1, <2>3 DEF FileRequest
  <2>5. hypotheses[h] \in Hypothesis /\ hypotheses \in [Subjects -> Hypothesis \cup {NoRow}]
    BY <1>1 DEF ReconInv, ReconTypeOK, Created
  <2>6. hypotheses'[h].status = "pending_approval"
    BY <2>4, <2>5 DEF SetStatus, Hypothesis
  <2>7. QED
    BY <2>6
<1>4. QED
  BY <1>2, <1>3

LEMMA EarnedStays ==
    ASSUME EarnedInv, [ReconNext]_reconVars, NEW h \in Subjects, hypotheses'[h] # NoRow
    PROVE  Earned(h)'
<1>1. ReconInv /\ EntriesHaveRows /\ Keeps /\ EntriesHaveRows' /\ Inv
  BY EntriesKeepRows DEF EarnedInv, ReconInv
<1>2. StatusStep(h)
  BY <1>1, StatusChange
<1>3. CASE Created(h) /\ hypotheses'[h].status = hypotheses[h].status
  <2>1. Earned(h)
    BY <1>3 DEF EarnedInv
  <2>2. \A decision : Logged(h, decision) => Logged(h, decision)'
    BY <1>1, LoggedStays
  <2>3. Reported(h) => Reported(h)'
    BY <1>1, ReportedStays
  <2>4. hypotheses'[h].status = "draft" => ~Logged(h, "pending")'
    BY <1>3, DraftIsUnlogged
  <2>5. hypotheses'[h].status \in {"approved", "rejected"} => Logged(h, hypotheses[h].status)'
    <3>1. PICK status : status = hypotheses[h].status
      OBVIOUS
    <3>2. status \in {"approved", "rejected"} => Logged(h, status)'
      BY <2>1, <2>2, <3>1 DEF Earned
    <3>3. QED
      BY <1>3, <3>1, <3>2 DEF Logged
  <2>6. hypotheses'[h].status = "pending_approval" => Logged(h, "pending")'
    BY <1>3, <2>1, <2>2 DEF Earned
  <2>7. hypotheses'[h].status = "executed" => Reported(h)'
    BY <1>3, <2>1, <2>3 DEF Earned
  <2>8. QED
    BY <2>4, <2>5, <2>6, <2>7 DEF Earned
<1>4. CASE ~Created(h) /\ hypotheses'[h].status = "draft" /\ UNCHANGED vars
  <2>1. audit' = audit /\ approvals' = approvals
    BY <1>4 DEF vars
  <2>2. ~Logged(h, "pending")'
    BY <1>1, <1>4, <2>1 DEF Logged, EntriesHaveRows, ReconInv, RowsCreated
  <2>3. QED
    BY <1>4, <2>2 DEF Earned
<1>5. ASSUME NEW s \in Sessions, FileRequest(s), h = sessions[s].row.subject,
             hypotheses'[h].status = "pending_approval"
      PROVE  Earned(h)'
  <2>1. RequestInsert(s) \/ RequestSweepInsert(s)
    BY <1>5 DEF FileRequest
  <2>2. Logged(h, "pending")'
    BY <1>1, <1>5, <2>1, InsertLogs DEF Logged
  <2>3. QED
    BY <1>5, <2>2 DEF Earned
<1>6. ASSUME NEW s \in Sessions, FileDecision(s),
             h = approvals[sessions[s].approval].subject,
             hypotheses'[h].status = sessions[s].verdict
      PROVE  Earned(h)'
  <2>1. DecideCommit(s)
    BY <1>6 DEF FileDecision
  <2>2. /\ sessions[s].approval \in DOMAIN approvals
        /\ sessions[s].verdict \in {"approved", "rejected"}
        /\ \E k \in DOMAIN audit' : /\ audit'[k].decision = sessions[s].verdict
                                    /\ audit'[k].approval = sessions[s].approval
    BY <1>1, <2>1, DecisionLogs
  <2>3. approvals'[sessions[s].approval].subject = h
    BY <1>1, <1>6, <2>2 DEF Keeps, SameTerms
  <2>4. Logged(h, hypotheses[h].status)'
    BY <1>6, <2>2, <2>3 DEF Logged
  <2>5. QED
    BY <1>6, <2>2, <2>4 DEF Earned
<1>7. ASSUME NEW s \in Sessions, CompleteCommit(s),
             h = executions[held[s].execution].hypothesis,
             hypotheses'[h].status = "executed"
      PROVE  Earned(h)'
  <2>1. held[s].execution \in DOMAIN executions /\ findings \in Seq(DOMAIN executions)
    BY <1>1, <1>7, CompletionFacts DEF CompleteCommit, ReconInv, ReconTypeOK
  <2>2. findings' = Append(findings, held[s].execution)
    BY <1>7 DEF CompleteCommit
  <2>3. /\ Len(findings) + 1 \in DOMAIN findings'
        /\ findings'[Len(findings) + 1] = held[s].execution
    BY <2>1, <2>2, AppendProperties
  <2>4. executions'[held[s].execution].hypothesis = h
    BY <1>1, <1>7, <2>1, PipelineChange DEF PipelineStep
  <2>5. Reported(h)'
    BY <2>3, <2>4 DEF Reported
  <2>6. QED
    BY <1>7, <2>5 DEF Earned
<1>8. QED
  BY <1>2, <1>3, <1>4, <1>5, <1>6, <1>7 DEF StatusStep

LEMMA EarnedInitially == ReconInit => EarnedInv
<1> SUFFICES ASSUME ReconInit
             PROVE  EarnedInv
  OBVIOUS
<1>1. ReconInv
  BY ReconInvInit
<1>2. /\ audit = <<>> /\ sessions = [s \in Sessions |-> Idle]
      /\ hypotheses = [h \in Subjects |-> NoRow]
  BY DEF ReconInit, Init
<1>3. QED
  BY <1>1, <1>2 DEF EarnedInv, EntriesHaveRows, RequestsHold, RequestPoints, Idle, Created

LEMMA EarnedStep ==
    ASSUME EarnedInv, [ReconNext]_reconVars
    PROVE  EarnedInv'
<1>1. ReconInv'
  BY ReconInvStep DEF EarnedInv
<1>2. EntriesHaveRows' /\ RequestsHold'
  BY EntriesKeepRows, RequestsKeepHolding DEF EarnedInv
<1>3. \A h \in Subjects : hypotheses'[h] # NoRow => Earned(h)'
  BY EarnedStays
<1>4. QED
  BY <1>1, <1>2, <1>3 DEF EarnedInv, Created

\* The status of a hypothesis is one that the trail or a finding gave it,
\* however requests, decisions and completions interleave (services.py).
THEOREM StatusesAreEarned == ReconSpec => []StatusIsEarned
<1>1. ReconSpec => []EarnedInv
  BY EarnedInitially, EarnedStep, PTL DEF ReconSpec
<1>2. EarnedInv => StatusIsEarned
  <2> SUFFICES ASSUME EarnedInv, NEW h \in Subjects, hypotheses[h] # NoRow
               PROVE  CASE hypotheses[h].status \in {"approved", "rejected"} ->
                              Logged(h, hypotheses[h].status)
                        [] hypotheses[h].status = "pending_approval" -> Logged(h, "pending")
                        [] hypotheses[h].status = "executed" ->
                              \E f \in DOMAIN findings : executions[findings[f]].hypothesis = h
                        [] hypotheses[h].status = "draft" -> ~Logged(h, "pending")
    BY DEF StatusIsEarned
  <2>1. hypotheses[h].status \in HypothesisStatus
    BY DEF EarnedInv, ReconInv, ReconTypeOK, Hypothesis
  <2>2. Earned(h)
    BY DEF EarnedInv, Created
  <2>3. QED
    BY <2>1, <2>2 DEF Earned, Reported, HypothesisStatus
<1>3. QED
  BY <1>1, <1>2, PTL

-----------------------------------------------------------------------------
(* Requests served one at a time: the status a request loaded is still that   *)
(* of its hypothesis when it writes, and so is that of an execution.          *)

SeenIsCurrent ==
    \A s \in Sessions : sessions[s].pc \in RequestPoints =>
        held[s].seen = hypotheses[sessions[s].row.subject].status

Completing(s) == held[s].at \in {"read_hypothesis", "commit_completion"}

CompletionsAreOpen ==
    \A s \in Sessions : Completing(s) => executions[held[s].execution].status # "completed"

MirrorInv ==
    /\ EarnedInv
    /\ SerialInv
    /\ SeenIsCurrent
    /\ MirrorAgrees

\* The status that a request holds is that of its hypothesis.
LEMMA SeenStaysCurrent ==
    ASSUME EarnedInv, ReconOneAtATime, ReconOneAtATime', SeenIsCurrent, [ReconNext]_reconVars
    PROVE  SeenIsCurrent'
<1> SUFFICES ASSUME NEW s \in Sessions, sessions'[s].pc \in RequestPoints
             PROVE  held'[s].seen = hypotheses'[sessions'[s].row.subject].status
  BY DEF SeenIsCurrent
<1>1. ReconInv /\ RequestsHold
  BY DEF EarnedInv
<1>2. Holding(s)
  BY <1>1, HoldingStep
<1>3. ASSUME NEW h \in Subjects, sessions'[s].row.subject = h, UNCHANGED hypotheses,
             held'[s] = [at |-> "request", seen |-> hypotheses[h].status]
      PROVE  held'[s].seen = hypotheses'[sessions'[s].row.subject].status
  BY <1>3
<1>4. CASE /\ sessions[s].pc \in RequestPoints
           /\ sessions'[s].row.subject = sessions[s].row.subject
           /\ held'[s] = held[s]
  <2>1. PICK h : h = sessions[s].row.subject
    OBVIOUS
  <2>2. h \in Subjects /\ Created(h)
    BY <1>1, <1>4, <2>1, RequestSubject
  <2>3. hypotheses'[h] # NoRow /\ StatusStep(h)
    BY <1>1, <2>2, TablesChange, StatusChange DEF TablesStep
  <2>4. Busy(s) /\ Busy(s)'
    BY <1>4 DEF Busy, Idle, RequestPoints
  <2>5. ASSUME NEW t \in Sessions, FileRequest(t) \/ FileDecision(t) \/ CompleteCommit(t)
        PROVE  FALSE
    <3>1. Busy(t)
      BY <2>5 DEF Busy, FileRequest, RequestInsert, RequestSweepInsert, FileDecision,
                  DecideCommit, CompleteCommit, Idle, Nothing
    <3>2. t = s
      BY <2>4, <3>1 DEF ReconOneAtATime
    <3>3. CASE FileRequest(s) \/ FileDecision(s)
      <4>1. Return(s)
        BY <3>3 DEF FileRequest, RequestInsert, RequestSweepInsert, FileDecision, DecideCommit
      <4>2. sessions'[s] = Idle
        BY <1>1, <4>1 DEF Return, Enter, ReconInv, ReconTypeOK, TypeOK
      <4>3. QED
        BY <4>2 DEF Idle, RequestPoints
    <3>4. CASE CompleteCommit(s)
      BY <1>1, <1>4, <3>4 DEF CompleteCommit, RequestsHold
    <3>5. QED
      BY <2>5, <3>2, <3>3, <3>4
  <2>6. hypotheses'[h].status = hypotheses[h].status
    BY <2>2, <2>3, <2>5 DEF StatusStep
  <2>7. QED
    BY <1>4, <2>1, <2>6 DEF SeenIsCurrent
<1>5. QED
  BY <1>2, <1>3, <1>4 DEF Holding

\* MirrorAgrees, for an approval and a hypothesis of these statuses.
Mirrors(approval, status) ==
    /\ approval \in {"pending", "expired"} => status \in {"pending_approval", "executed"}
    /\ approval \in {"approved", "rejected"} => status \in {approval, "executed"}

MirrorsAll ==
    \A h \in Subjects : hypotheses[h] # NoRow =>
        \A i \in Latest(h) : Mirrors(approvals[i].status, hypotheses[h].status)

LEMMA MirrorsAreAgreement == TypeOK => (MirrorAgrees <=> MirrorsAll)
<1> SUFFICES ASSUME TypeOK PROVE MirrorAgrees <=> MirrorsAll
  OBVIOUS
<1>1. \A h : \A i \in Latest(h) : approvals[i].status \in ApprovalStatus
  <2>1. \A i \in DOMAIN approvals : approvals[i] \in ApprovalRequest
    BY ElementOfSeq DEF TypeOK
  <2>2. QED
    BY <2>1 DEF ApprovalRequest, Latest
<1>2. QED
  BY <1>1 DEF MirrorAgrees, MirrorsAll, Mirrors, ApprovalStatus

\* Rows that keep their subject and their stamp keep their place.
LEMMA LatestStays ==
    ASSUME DOMAIN approvals' = DOMAIN approvals,
           \A i \in DOMAIN approvals :
              /\ approvals'[i].subject = approvals[i].subject
              /\ approvals'[i].created_at = approvals[i].created_at,
           NEW h
    PROVE  Latest(h)' = Latest(h)
BY DEF Latest

\* A request filed becomes the latest approval, and pending, as the hypothesis.
LEMMA RequestMirrors ==
    ASSUME MirrorInv, MirrorsAll, NEW s \in Sessions, FileRequest(s)
    PROVE  MirrorsAll'
<1>1. ReconInv /\ ReconTypeOK /\ SerialInv /\ TypeOK
  BY DEF MirrorInv, EarnedInv, ReconInv, ReconTypeOK
<1>2. PICK g : g = sessions[s].row.subject
  OBVIOUS
<1>3. sessions[s].pc \in RequestPoints /\ (RequestInsert(s) \/ RequestSweepInsert(s))
  BY DEF FileRequest, RequestInsert, RequestSweepInsert, RequestPoints
<1>4. Opens(g)
  BY <1>1, <1>2, <1>3, OpeningRequest
<1>5. g \in Subjects /\ Created(g) /\ SetStatus(g, hypotheses[g].status, "pending_approval")
  BY <1>1, <1>2, <1>3, RequestSubject DEF FileRequest, MirrorInv, SeenIsCurrent
<1>6. ASSUME NEW h \in Subjects, hypotheses'[h] # NoRow, NEW i \in Latest(h)'
      PROVE  Mirrors(approvals'[i].status, hypotheses'[h].status)
  <2>1. \/ Created(h) /\ hypotheses'[h] = hypotheses[h]
        \/ h = g /\ hypotheses'[h].status = "pending_approval"
    BY <1>1, <1>5, <1>6, SetStatusWrites
  <2>2. CASE h = g
    <3>1. approvals'[i].status = "pending"
      BY <1>4, <1>6, <2>2 DEF Opens
    <3>2. hypotheses'[h].status = "pending_approval"
      BY <1>1, <1>5, <2>1, <2>2 DEF SetStatus, ReconTypeOK, Created, Hypothesis
    <3>3. QED
      BY <3>1, <3>2 DEF Mirrors
  <2>3. CASE h # g
    <3>1. i \in Latest(h) /\ approvals'[i] = approvals[i]
      BY <1>4, <1>6, <2>3 DEF Opens, Latest
    <3>2. Created(h) /\ hypotheses'[h] = hypotheses[h]
      BY <2>1, <2>3
    <3>3. QED
      BY <3>1, <3>2 DEF MirrorsAll, Created
  <2>4. QED
    BY <2>2, <2>3
<1>7. QED
  BY <1>6 DEF MirrorsAll

\* A decision is about the latest approval, since that one was open.
LEMMA DecisionMirrors ==
    ASSUME MirrorInv, MirrorsAll, NEW s \in Sessions, FileDecision(s)
    PROVE  MirrorsAll'
<1>1. ReconInv /\ ReconTypeOK /\ SerialInv /\ TypeOK /\ DecideCommit(s)
  BY DEF MirrorInv, EarnedInv, ReconInv, ReconTypeOK, FileDecision
<1>2. PICK k \in DOMAIN approvals, user \in Users, verdict \in {"approved", "rejected"} :
         /\ k = sessions[s].approval /\ verdict = sessions[s].verdict
         /\ sessions[s].pc = "commit_decision"
         /\ approvals' = Decided(k, user, verdict)
  BY <1>1, DecisionFacts
<1>3. PICK g : g = approvals[k].subject
  OBVIOUS
<1>4. g \in Subjects /\ Created(g) /\ SetStatus(g, hypotheses[g].status, sessions[s].verdict)
  BY <1>1, <1>2, <1>3, DecisionSubject DEF FileDecision
<1>5. sessions[s].verdict = verdict
  BY <1>2
<1>6. Latest(g) = {k}
  <2>1. approvals[k].status = "pending"
    BY <1>1, <1>2 DEF SerialInv, Fresh
  <2>2. QED
    BY <1>1, <1>3, <1>4, <2>1 DEF SerialInv, OpenIsLatest, Pending
<1>7. /\ \A h : Latest(h)' = Latest(h)
      /\ approvals'[k].status = verdict
      /\ \A j \in DOMAIN approvals : j # k => approvals'[j] = approvals[j]
  <2>1. DOMAIN Decided(k, user, verdict) = DOMAIN approvals
    BY DEF Decided
  <2>2. QED
    BY <1>1, <1>2, <2>1, DecidedType, LatestStays DEF TypeOK, SameTerms
<1>8. ASSUME NEW h \in Subjects, hypotheses'[h] # NoRow, NEW i \in Latest(h)'
      PROVE  Mirrors(approvals'[i].status, hypotheses'[h].status)
  <2>1. \/ Created(h) /\ hypotheses'[h] = hypotheses[h]
        \/ h = g /\ hypotheses'[h].status = verdict
    BY <1>1, <1>4, <1>5, <1>8, SetStatusWrites
  <2>2. CASE h = g
    <3>1. approvals'[i].status = verdict
      BY <1>6, <1>7, <1>8, <2>2
    <3>2. hypotheses'[h].status = verdict
      BY <1>1, <1>4, <1>5, <2>1, <2>2 DEF SetStatus, ReconTypeOK, Created, Hypothesis
    <3>3. QED
      BY <3>1, <3>2 DEF Mirrors
  <2>3. CASE h # g
    <3>1. i \in Latest(h) /\ i # k /\ approvals'[i] = approvals[i]
      BY <1>3, <1>7, <1>8, <2>3 DEF Latest
    <3>2. Created(h) /\ hypotheses'[h] = hypotheses[h]
      BY <2>1, <2>3
    <3>3. QED
      BY <3>1, <3>2 DEF MirrorsAll, Created
  <2>4. QED
    BY <2>2, <2>3
<1>9. QED
  BY <1>8 DEF MirrorsAll

\* Nothing else changes an approval but its expiry, which no hypothesis shows.
LEMMA OthersMirror ==
    ASSUME MirrorInv, MirrorsAll, [ReconNext]_reconVars,
           \A s \in Sessions : ~FileRequest(s) /\ ~FileDecision(s)
    PROVE  MirrorsAll'
<1>1. ReconInv /\ ReconTypeOK /\ SerialInv /\ TypeOK
  BY DEF MirrorInv, EarnedInv, ReconInv, ReconTypeOK
<1>2. /\ \A h : Latest(h)' = Latest(h)
      /\ \A i \in DOMAIN approvals :
            \/ approvals'[i] = approvals[i]
            \/ approvals[i].status = "pending" /\ approvals'[i].status = "expired"
  <2>1. CASE UNCHANGED approvals
    BY <2>1, LatestStays
  <2>2. ASSUME NEW s \in Sessions, DecideBlock(s)
        PROVE  UNCHANGED approvals
    BY <2>2 DEF DecideBlock
  <2>3. ASSUME NEW s \in Sessions, DecideExpire(s) \/ GateCommitDenial(s)
        PROVE  <1>2
    <3>1. PICK ids \in SUBSET DOMAIN approvals :
             /\ ids = IF sessions[s].pc = "denied" THEN sessions[s].overdue
                                                  ELSE {sessions[s].approval}
             /\ sessions[s].pc \in {"denied", "commit_expiry"}
             /\ approvals' = Expired(ids)
      BY <1>1, <2>3, ExpiryFacts DEF CommitExpiry
    <3>2. \A i \in ids : approvals[i].status = "pending"
      BY <1>1, <3>1 DEF SerialInv, Fresh
    <3>3. \A h : Latest(h)' = Latest(h)
      BY <1>1, <3>1, ExpiredType, ExpiredRows, LatestStays DEF TypeOK, SameTerms
    <3>4. QED
      BY <1>1, <3>1, <3>2, <3>3, ExpiredType DEF TypeOK
  <2>4. QED
    BY <2>1, <2>2, <2>3, ReconWritingSteps
<1>3. ASSUME NEW h \in Subjects, hypotheses'[h] # NoRow, NEW i \in Latest(h)'
      PROVE  Mirrors(approvals'[i].status, hypotheses'[h].status)
  <2>1. i \in Latest(h) /\ i \in DOMAIN approvals /\ approvals[i].subject = h
    BY <1>2, <1>3 DEF Latest
  <2>2. Created(h)
    BY <1>1, <2>1 DEF ReconInv, RowsCreated
  <2>3. hypotheses'[h].status \in {hypotheses[h].status, "executed"}
    BY <1>1, <1>3, <2>2, StatusChange DEF StatusStep
  <2>4. Mirrors(approvals[i].status, hypotheses[h].status)
    BY <2>1, <2>2 DEF MirrorsAll, Created
  <2>5. approvals[i].status \in ApprovalStatus
    <3>1. approvals[i] \in ApprovalRequest
      BY <1>1, <2>1, ElementOfSeq DEF TypeOK
    <3>2. QED
      BY <3>1 DEF ApprovalRequest
  <2>6. QED
    BY <1>2, <2>1, <2>3, <2>4, <2>5 DEF Mirrors, ApprovalStatus
<1>4. QED
  BY <1>3 DEF MirrorsAll

LEMMA MirrorStep ==
    ASSUME MirrorInv, ReconOneAtATime, ReconOneAtATime', [ReconNext]_reconVars
    PROVE  MirrorInv'
<1>1. EarnedInv' /\ SeenIsCurrent'
  BY EarnedStep, SeenStaysCurrent DEF MirrorInv
<1>2. SerialInv'
  <2>1. [Next]_vars
    BY WorkflowRunsBeneath DEF MirrorInv, EarnedInv, ReconInv
  <2>2. OneAtATime /\ OneAtATime'
    BY DEF ReconOneAtATime, OneAtATime, Busy
  <2>3. QED
    BY <2>1, <2>2, SerialInvStep DEF MirrorInv
<1>3. TypeOK /\ TypeOK'
  BY <1>1 DEF MirrorInv, EarnedInv, ReconInv, ReconTypeOK
<1>4. MirrorsAll
  BY <1>3, MirrorsAreAgreement DEF MirrorInv
<1>5. MirrorsAll'
  BY <1>4, RequestMirrors, DecisionMirrors, OthersMirror
<1>6. (TypeOK => (MirrorAgrees <=> MirrorsAll))'
  BY MirrorsAreAgreement, PTL
<1>7. QED
  BY <1>1, <1>2, <1>3, <1>5, <1>6 DEF MirrorInv

LEMMA MirrorInitially == ReconInit => MirrorInv
<1> SUFFICES ASSUME ReconInit PROVE MirrorInv
  OBVIOUS
<1>1. EarnedInv /\ SerialInv
  BY EarnedInitially, SerialInvInit DEF ReconInit
<1>2. /\ sessions = [s \in Sessions |-> Idle]
      /\ hypotheses = [h \in Subjects |-> NoRow]
  BY DEF ReconInit, Init
<1>3. QED
  BY <1>1, <1>2 DEF MirrorInv, SeenIsCurrent, RequestPoints, Idle, MirrorAgrees

\* If no two requests overlap, a hypothesis shows its latest approval until it
\* is executed (ApprovalService: "mirrors its decisions").
THEOREM StatusMirrorsApproval == ReconSpec /\ []ReconOneAtATime => []MirrorAgrees
<1>1. ReconSpec /\ []ReconOneAtATime => []MirrorInv
  BY MirrorInitially, MirrorStep, PTL DEF ReconSpec
<1>2. MirrorInv => MirrorAgrees
  BY DEF MirrorInv
<1>3. QED
  BY <1>1, <1>2, PTL

\* An execution is queued about a hypothesis whose latest approval, which the
\* queueing session read, allows it, and which shows it.
LEMMA QueuedIsApproved ==
    ASSUME MirrorInv, [ReconNext]_reconVars, NEW e \in DOMAIN executions' \ DOMAIN executions
    PROVE  LET h == executions'[e].hypothesis
           IN  /\ hypotheses[h].status \in {"approved", "executed"}
               /\ \E i \in Latest(h) : approvals[i].status = "approved"
<1>1. ReconInv /\ SerialInv /\ TypeOK /\ MirrorsAll
  BY MirrorsAreAgreement DEF MirrorInv, EarnedInv, ReconInv, ReconTypeOK
<1>2. executions \in Seq(Execution)
  BY <1>1 DEF ReconInv, ReconTypeOK
<1>3. PICK s \in Sessions : QueueExecution(s)
  <2>1. ASSUME NEW t \in Sessions, CompleteCommit(t)
        PROVE  DOMAIN executions' = DOMAIN executions
    BY <1>2, <2>1 DEF CompleteCommit
  <2>2. QED
    BY <2>1, PipelineSteps
<1>4. PICK row \in Execution :
         /\ row.hypothesis = sessions[s].subject
         /\ Created(row.hypothesis)
         /\ sessions[s].pc = "cleared"
         /\ executions' = Append(executions, row)
  BY <1>1, <1>3, QueueFacts
<1>5. executions'[e] = row
  BY <1>2, <1>4
<1>6. PICK h \in Subjects : h = row.hypothesis
  BY <1>4 DEF Execution
<1>7. /\ sessions[s].approval \in Latest(h)
      /\ approvals[sessions[s].approval].status = "approved"
  BY <1>1, <1>4, <1>6 DEF SerialInv, Fresh
<1>8. Mirrors("approved", hypotheses[h].status)
  BY <1>1, <1>4, <1>6, <1>7 DEF MirrorsAll, Created
<1>9. QED
  BY <1>5, <1>6, <1>7, <1>8 DEF Mirrors

\* If no two requests overlap, an execution is queued only while the latest
\* decision about its hypothesis allows it, and the hypothesis says so
\* (ExecutionService: "a valid human approval exists").
THEOREM QueuedOnApproval == ReconSpec /\ []ReconOneAtATime => QueuedWhileApproved
<1>1. ReconSpec /\ []ReconOneAtATime => []MirrorInv
  BY MirrorInitially, MirrorStep, PTL DEF ReconSpec
<1>2. MirrorInv /\ [ReconNext]_reconVars =>
         [\A e \in DOMAIN executions' \ DOMAIN executions :
             LET h == executions'[e].hypothesis
             IN  /\ hypotheses[h].status \in {"approved", "executed"}
                 /\ \E i \in Latest(h) : approvals[i].status = "approved"]_reconVars
  BY QueuedIsApproved
<1>3. QED
  BY <1>1, <1>2, PTL DEF ReconSpec, QueuedWhileApproved

-----------------------------------------------------------------------------
(* One finding of an execution: it is open for as long as it is being         *)
(* completed, and an execution that is open has no finding.                   *)

OneFindingInv ==
    /\ ReconInv
    /\ CompletionsAreOpen
    /\ OneFindingPerExecution

LEMMA CompletionsStayOpen ==
    ASSUME ReconInv, CompletionsAreOpen, ReconOneAtATime, [ReconNext]_reconVars
    PROVE  CompletionsAreOpen'
<1> SUFFICES ASSUME NEW s \in Sessions, Completing(s)'
             PROVE  executions'[held'[s].execution].status # "completed"
  BY DEF CompletionsAreOpen
<1>1. /\ held \in [Sessions -> Held] /\ executions \in Seq(Execution)
  BY DEF ReconInv, ReconTypeOK
<1>2. ASSUME NEW t \in Sessions, NEW rowsRead, Hold(t, rowsRead)
      PROVE  IF t = s THEN held'[s] = rowsRead ELSE held'[s] = held[s]
  BY <1>1, <1>2 DEF Hold
<1>3. CASE held'[s] = held[s] /\ UNCHANGED executions
  BY <1>3 DEF CompletionsAreOpen, Completing
<1>4. ASSUME NEW t \in Sessions, QueueExecution(t)
      PROVE  executions'[held'[s].execution].status # "completed"
  <2>1. held'[s] = held[s] /\ Completing(s)
    BY <1>4 DEF QueueExecution, Completing
  <2>2. held[s].execution \in DOMAIN executions
    BY <2>1, CompletionFacts DEF Completing
  <2>3. executions'[held[s].execution] = executions[held[s].execution]
    BY <1>1, <1>4, <2>2, QueueFacts, AppendKeeps
  <2>4. QED
    BY <2>1, <2>3 DEF CompletionsAreOpen
<1>5. ASSUME NEW t \in Sessions, CompleteCommit(t)
      PROVE  FALSE
  <2>1. held'[s] = IF t = s THEN Nothing ELSE held[s]
    BY <1>2, <1>5 DEF CompleteCommit, Release
  <2>2. s # t /\ Completing(s)
    BY <2>1 DEF Completing, Nothing
  <2>3. Busy(s) /\ Busy(t)
    BY <1>5, <2>2 DEF Busy, Completing, CompleteCommit, Nothing
  <2>4. QED
    BY <2>2, <2>3 DEF ReconOneAtATime
<1>6. ASSUME NEW t \in Sessions, CompleteRead(t)
      PROVE  executions'[held'[s].execution].status # "completed"
  <2>1. executions' = executions
    BY <1>6 DEF CompleteRead, rows
  <2>2. CASE t # s
    BY <1>2, <1>3, <1>6, <2>1, <2>2 DEF CompleteRead
  <2>3. CASE t = s
    <3>1. held'[s].execution = held[s].execution /\ Completing(s)
      BY <1>2, <1>6, <2>3 DEF CompleteRead, Completing
    <3>2. QED
      BY <2>1, <3>1 DEF CompletionsAreOpen
  <2>4. QED
    BY <2>2, <2>3
<1>7. ASSUME NEW t \in Sessions, NEW e \in DOMAIN executions, CompleteLoad(t, e)
      PROVE  executions'[held'[s].execution].status # "completed"
  <2>1. /\ executions' = executions /\ executions[e].status # "completed"
        /\ Hold(t, [at |-> "read_hypothesis", execution |-> e])
    BY <1>7 DEF CompleteLoad, rows
  <2>2. CASE t # s
    BY <1>2, <1>3, <2>1, <2>2
  <2>3. CASE t = s
    BY <1>2, <2>1, <2>3
  <2>4. QED
    BY <2>2, <2>3
<1>8. ASSUME NEW t \in Sessions,
             \/ \E rowsRead : /\ Hold(t, rowsRead)
                              /\ rowsRead.at \notin {"read_hypothesis", "commit_completion"}
             \/ UNCHANGED held,
             UNCHANGED executions
      PROVE  executions'[held'[s].execution].status # "completed"
  BY <1>2, <1>3, <1>8 DEF Completing
<1>9. ASSUME NEW t \in Sessions, FileRequest(t) \/ RefuseRequest(t) \/ ReconAbort(t)
      PROVE  executions'[held'[s].execution].status # "completed"
  <2>1. Hold(t, Nothing) /\ UNCHANGED executions
    BY <1>9 DEF FileRequest, RefuseRequest, ReconAbort, Release, rows
  <2>2. QED
    BY <1>8, <2>1 DEF Nothing
<1>10. ASSUME NEW t \in Sessions, NEW user \in Users, NEW h \in Subjects,
              NEW lifetime \in Lifetimes, OpenRequest(t, user, h, lifetime)
       PROVE  executions'[held'[s].execution].status # "completed"
  BY <1>8, <1>10 DEF OpenRequest, rows
<1>11. ASSUME UNCHANGED <<held, executions>>
       PROVE  executions'[held'[s].execution].status # "completed"
  BY <1>3, <1>11
<1>12. ASSUME NEW t \in Sessions, ReconStart(t)
       PROVE  executions'[held'[s].execution].status # "completed"
  BY <1>7, <1>10, <1>11, <1>12 DEF ReconStart, OpenDecision, TryGate, rows
<1>13. ASSUME NEW t \in Sessions, ReconContinue(t)
       PROVE  executions'[held'[s].execution].status # "completed"
  BY <1>4, <1>5, <1>6, <1>9, <1>11, <1>13 DEF ReconContinue, WorkflowStep, FileDecision, rows
<1>14. CASE \/ ReconTick \/ UNCHANGED reconVars
            \/ \E target \in Targets : TargetCreate(target)
            \/ \E h \in Subjects, target \in Targets, role \in Roles :
                  HypothesisCreate(h, target, role)
  BY <1>11, <1>14 DEF ReconTick, TargetCreate, HypothesisCreate, reconVars, rows
<1>15. QED
  BY <1>9, <1>12, <1>13, <1>14 DEF ReconNext

LEMMA OneFindingStep ==
    ASSUME OneFindingInv, ReconOneAtATime, [ReconNext]_reconVars
    PROVE  OneFindingInv'
<1>1. ReconInv' /\ CompletionsAreOpen'
  BY ReconInvStep, CompletionsStayOpen DEF OneFindingInv
<1>2. OneFindingPerExecution'
  <2>1. CASE UNCHANGED findings
    BY <2>1 DEF OneFindingInv, OneFindingPerExecution
  <2>2. ASSUME NEW s \in Sessions, CompleteCommit(s)
        PROVE  OneFindingPerExecution'
    <3>1. /\ held[s].execution \in DOMAIN executions
          /\ executions[held[s].execution].status # "completed"
      BY <2>2, CompletionFacts DEF CompleteCommit, OneFindingInv, CompletionsAreOpen, Completing
    <3>2. \A f \in DOMAIN findings : findings[f] # held[s].execution
      BY <3>1 DEF OneFindingInv, ReconInv, CompletedIffReported
    <3>3. findings' = Append(findings, held[s].execution) /\ findings \in Seq(DOMAIN executions)
      BY <2>2 DEF CompleteCommit, OneFindingInv, ReconInv, ReconTypeOK
    <3>4. /\ DOMAIN findings' = DOMAIN findings \cup {Len(findings) + 1}
          /\ findings'[Len(findings) + 1] = held[s].execution
          /\ \A f \in DOMAIN findings : findings'[f] = findings[f]
      BY <3>1, <3>3
    <3>5. QED
      BY <3>2, <3>4 DEF OneFindingInv, OneFindingPerExecution
  <2>3. QED
    BY <2>1, <2>2, PipelineSteps DEF QueueExecution
<1>3. QED
  BY <1>1, <1>2 DEF OneFindingInv

\* If no two requests overlap, an execution is completed once: it never has a
\* second finding (ExecutionService.complete, its 409).
THEOREM OneCompletion == ReconSpec /\ []ReconOneAtATime => []OneFindingPerExecution
<1>1. ReconInit => OneFindingInv
  <2>1. ReconInit => ReconInv
    BY ReconInvInit
  <2>2. ReconInit => held = [s \in Sessions |-> Nothing] /\ findings = <<>>
    BY DEF ReconInit
  <2>3. QED
    BY <2>1, <2>2 DEF OneFindingInv, CompletionsAreOpen, Completing, Nothing,
                      OneFindingPerExecution
<1>2. ReconSpec /\ []ReconOneAtATime => []OneFindingInv
  BY <1>1, OneFindingStep, PTL DEF ReconSpec
<1>3. OneFindingInv => OneFindingPerExecution
  BY DEF OneFindingInv
<1>4. QED
  BY <1>2, <1>3, PTL
=============================================================================
