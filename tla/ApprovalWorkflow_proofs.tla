----------------------- MODULE ApprovalWorkflow_proofs -----------------------
(***************************************************************************)
(* Proofs about ApprovalWorkflow, for every set of users, subjects and     *)
(* concurrent sessions, and every value of the bounds.                     *)
(***************************************************************************)
EXTENDS ApprovalWorkflow, TLAPS, FiniteSetTheorems, SequenceTheorems

-----------------------------------------------------------------------------
(* Type correctness *)

\* The terms under which an approval was requested.
SameTerms(row1, row2) ==
    /\ row1.subject = row2.subject
    /\ row1.required_role = row2.required_role
    /\ row1.requested_by = row2.requested_by
    /\ row1.expires_at = row2.expires_at

\* Expiring rows sets the status of those rows, and nothing else.
LEMMA ExpiredType ==
    ASSUME approvals \in Seq(ApprovalRequest), NEW ids
    PROVE  /\ Expired(ids) \in Seq(ApprovalRequest)
           /\ Len(Expired(ids)) = Len(approvals)
           /\ \A i \in DOMAIN approvals :
                 /\ i \notin ids => Expired(ids)[i] = approvals[i]
                 /\ i \in ids => Expired(ids)[i].status = "expired"
                 /\ SameTerms(Expired(ids)[i], approvals[i])
                 /\ Expired(ids)[i].created_at = approvals[i].created_at
<1>1. /\ DOMAIN approvals = 1..Len(approvals)
      /\ Len(approvals) \in Nat
  OBVIOUS
<1>2. ASSUME NEW i \in 1..Len(approvals)
      PROVE  /\ Expired(ids)[i] \in ApprovalRequest
             /\ i \notin ids => Expired(ids)[i] = approvals[i]
             /\ i \in ids => Expired(ids)[i].status = "expired"
             /\ SameTerms(Expired(ids)[i], approvals[i])
             /\ Expired(ids)[i].created_at = approvals[i].created_at
  <2>. DEFINE row == [approvals[i] EXCEPT !.status = "expired"]
  <2>1. approvals[i] \in ApprovalRequest
    BY ElementOfSeq
  <2>2. /\ row \in ApprovalRequest /\ row.status = "expired"
        /\ SameTerms(row, approvals[i]) /\ row.created_at = approvals[i].created_at
    BY <2>1 DEF ApprovalRequest, ApprovalStatus, SameTerms
  <2>3. Expired(ids)[i] = IF i \in ids THEN row ELSE approvals[i]
    BY <1>1 DEF Expired
  <2>. HIDE DEF row
  <2>. QED
    BY <2>1, <2>2, <2>3 DEF SameTerms
<1>3. Expired(ids) \in [1..Len(approvals) -> ApprovalRequest]
  <2>1. Expired(ids) = [i \in 1..Len(approvals) |-> Expired(ids)[i]]
    BY <1>1 DEF Expired
  <2>. QED
    BY <2>1, <1>2
<1>4. Expired(ids) \in Seq(ApprovalRequest)
  BY <1>1, <1>3, IsASeq
<1>5. Len(Expired(ids)) = Len(approvals)
  BY <1>1, <1>3, <1>4, LenProperties
<1>. QED
  BY <1>1, <1>2, <1>4, <1>5

\* The entries of a set of expiries are audit entries, whatever their order.
LEMMA ExpiryEntriesType ==
    ASSUME NEW ids \in SUBSET Nat, NEW entries \in ExpiryEntries(ids),
           IsFiniteSet(ids)
    PROVE  /\ entries \in Seq(AuditEntry)
           /\ \A k \in DOMAIN entries : \E i \in ids : entries[k] = ExpiryEntry(i)
<1>1. PICK order \in SetToSeqs(ids) :
        entries = [k \in DOMAIN order |-> ExpiryEntry(order[k])]
  BY DEF ExpiryEntries
<1>2. Cardinality(ids) \in Nat
  BY FS_CardinalityType
<1>3. order \in [1..Cardinality(ids) -> ids]
  BY <1>1 DEF SetToSeqs
<1>4. \A i \in ids : ExpiryEntry(i) \in AuditEntry
  BY DEF ExpiryEntry, AuditEntry, ApprovalStatus
<1>5. entries \in [1..Cardinality(ids) -> AuditEntry]
  BY <1>1, <1>3, <1>4
<1>6. entries \in Seq(AuditEntry)
  BY <1>2, <1>5, IsASeq
<1>7. ASSUME NEW k \in DOMAIN entries
      PROVE  \E i \in ids : entries[k] = ExpiryEntry(i)
  BY <1>1, <1>3
<1>. QED
  BY <1>6, <1>7

\* A sweep's set of rows is finite, since the table is.
LEMMA RowSetsFinite ==
    ASSUME approvals \in Seq(ApprovalRequest), NEW ids \in SUBSET DOMAIN approvals
    PROVE  IsFiniteSet(ids) /\ ids \in SUBSET Nat
<1>1. DOMAIN approvals = 1..Len(approvals) /\ Len(approvals) \in Nat
  OBVIOUS
<1>2. IsFiniteSet(1..Len(approvals))
  BY <1>1, FS_Interval
<1>. QED
  BY <1>1, <1>2, FS_Subset

LEMMA CommitExpiryType ==
    ASSUME TypeOK, NEW ids \in SUBSET DOMAIN approvals, CommitExpiry(ids)
    PROVE  /\ approvals' \in Seq(ApprovalRequest)
           /\ Len(approvals') >= Len(approvals)
           /\ audit' \in Seq(AuditEntry)
<1>1. PICK entries \in ExpiryEntries(ids) : audit' = audit \o entries
  BY DEF CommitExpiry
<1>2. entries \in Seq(AuditEntry)
  BY RowSetsFinite, ExpiryEntriesType DEF TypeOK
<1>3. audit' \in Seq(AuditEntry)
  BY <1>1, <1>2 DEF TypeOK
<1>. QED
  BY <1>3, ExpiredType DEF CommitExpiry, TypeOK

\* What a session holds stays well formed while the table grows, and an
\* update of one session leaves the others as they are.
LEMMA SessionsType ==
    ASSUME TypeOK, approvals' \in Seq(ApprovalRequest), Len(approvals') >= Len(approvals),
           NEW s \in Sessions, NEW state, state \in SessionState', Enter(s, state)
    PROVE  sessions' \in [Sessions -> SessionState']
<1>1. DOMAIN approvals \subseteq DOMAIN approvals'
  BY DEF TypeOK
<1>2. SessionState \subseteq SessionState'
  BY <1>1 DEF SessionState, Idle, Requesting, Deciding, AtGate, ApprovalRequest,
              ApprovalStatus
<1>. QED
  BY <1>2 DEF Enter, TypeOK

\* A decision sets the status and the approver of one row, and nothing else.
LEMMA DecidedType ==
    ASSUME approvals \in Seq(ApprovalRequest), NEW i \in DOMAIN approvals,
           NEW user \in Users, NEW verdict \in {"approved", "rejected"}
    PROVE  /\ Decided(i, user, verdict) \in Seq(ApprovalRequest)
           /\ Len(Decided(i, user, verdict)) = Len(approvals)
           /\ \A j \in DOMAIN approvals :
                 j # i => Decided(i, user, verdict)[j] = approvals[j]
           /\ Decided(i, user, verdict)[i].status = verdict
           /\ Decided(i, user, verdict)[i].approver = user
           /\ \A j \in DOMAIN approvals :
                 /\ j \in DOMAIN Decided(i, user, verdict)
                 /\ SameTerms(Decided(i, user, verdict)[j], approvals[j])
                 /\ Decided(i, user, verdict)[j].created_at = approvals[j].created_at
<1>. DEFINE row == [approvals[i] EXCEPT !.status = verdict, !.approver = user]
<1>1. approvals[i] \in ApprovalRequest
  BY ElementOfSeq
<1>2. row \in ApprovalRequest
  BY <1>1 DEF ApprovalRequest, ApprovalStatus
<1>3. /\ row.status = verdict /\ row.approver = user
      /\ SameTerms(row, approvals[i]) /\ row.created_at = approvals[i].created_at
  BY <1>1 DEF ApprovalRequest, SameTerms
<1>4. Decided(i, user, verdict) = [approvals EXCEPT ![i] = row]
  BY DEF Decided
<1>. HIDE DEF row
<1>5. /\ Decided(i, user, verdict) \in Seq(ApprovalRequest)
      /\ Len(Decided(i, user, verdict)) = Len(approvals)
      /\ \A j \in 1..Len(approvals) :
            Decided(i, user, verdict)[j] = IF j = i THEN row ELSE approvals[j]
  BY <1>2, <1>4, ExceptSeq
<1>6. DOMAIN Decided(i, user, verdict) = DOMAIN approvals
  BY <1>5
<1>. QED
  BY <1>3, <1>5, <1>6 DEF SameTerms

\* The row that a request inserts is well formed once it is stamped.
LEMMA StampedRowType ==
    ASSUME TypeOK, NEW s \in Sessions, sessions[s] \in Requesting
    PROVE  /\ [sessions[s].row EXCEPT !.created_at = readings + 1] \in ApprovalRequest
           /\ sessions[s].row \in ApprovalRequest
<1>1. sessions[s].row \in ApprovalRequest
  BY DEF Requesting
<1>2. readings + 1 \in Nat
  BY DEF TypeOK
<1>. QED
  BY <1>1, <1>2 DEF ApprovalRequest

\* The control point of a session tells what it holds.
LEMMA SessionKinds ==
    ASSUME TypeOK, NEW s \in Sessions
    PROVE  /\ sessions[s].pc \in {"expire_stale", "check_pending", "insert", "sweep"}
                 => sessions[s] \in Requesting
           /\ sessions[s].pc \in {"commit_expiry", "commit_block", "commit_decision"}
                 => sessions[s] \in Deciding
           /\ sessions[s].pc \in {"denied", "cleared"} => sessions[s] \in AtGate
<1>1. sessions[s] \in SessionState
  BY DEF TypeOK
<1>2. /\ \A x \in Requesting : x.pc \in {"expire_stale", "check_pending", "insert", "sweep"}
      /\ \A x \in Deciding : x.pc \in {"commit_expiry", "commit_block", "commit_decision"}
      /\ \A x \in AtGate : x.pc \in {"denied", "cleared"}
      /\ Idle.pc = "idle"
  BY DEF Requesting, Deciding, AtGate, Idle
<1>. QED
  BY <1>1, <1>2 DEF SessionState

\* The two ways a handler leaves its session: with the table as it was, or
\* returning to idle after an update of the table.
LEMMA EnterType ==
    ASSUME TypeOK, UNCHANGED approvals,
           NEW s \in Sessions, NEW state \in SessionState, Enter(s, state)
    PROVE  sessions' \in [Sessions -> SessionState']
<1>1. SessionState' = SessionState
  BY DEF SessionState, Requesting, Deciding, AtGate
<1>. QED
  BY <1>1 DEF Enter, TypeOK

LEMMA ReturnType ==
    ASSUME TypeOK, approvals' \in Seq(ApprovalRequest),
           Len(approvals') >= Len(approvals), NEW s \in Sessions, Return(s)
    PROVE  sessions' \in [Sessions -> SessionState']
BY SessionsType DEF Return, SessionState

-----------------------------------------------------------------------------
(* What each writing step writes, with types *)

\* Only six kinds of steps write to the database.
LEMMA WritingSteps ==
    ASSUME [Next]_vars
    PROVE  \/ UNCHANGED <<approvals, audit>>
           \/ \E s \in Sessions :
                 \/ RequestInsert(s) \/ RequestSweepInsert(s) \/ DecideExpire(s)
                 \/ GateCommitDenial(s) \/ DecideBlock(s) \/ DecideCommit(s)
BY DEF Next, Tick, Start, Continue, vars, RequestStart, RequestLoadStale,
       RequestConflict, RequestProceed, RequestSweepConflict, DecideLoad,
       GateDeny, GateAllow, GateProceed, Abort

LEMMA InsertFacts ==
    ASSUME TypeOK, NEW s \in Sessions, RequestInsert(s)
    PROVE  /\ sessions[s].row \in ApprovalRequest
           /\ RequestedEntry(Len(approvals) + 1, sessions[s].row) \in AuditEntry
           /\ approvals' = Append(approvals, sessions[s].row)
           /\ audit' = Append(audit, RequestedEntry(Len(approvals) + 1, sessions[s].row))
<1>1. sessions[s] \in Requesting
  BY SessionKinds DEF RequestInsert
<1>2. sessions[s].row \in ApprovalRequest
  BY <1>1, StampedRowType
<1>3. RequestedEntry(Len(approvals) + 1, sessions[s].row) \in AuditEntry
  BY <1>2 DEF RequestedEntry, AuditEntry, ApprovalRequest, ApprovalStatus, TypeOK
<1>. QED
  BY <1>2, <1>3 DEF RequestInsert

LEMMA SweepFacts ==
    ASSUME TypeOK, NEW s \in Sessions, RequestSweepInsert(s)
    PROVE  \E row \in ApprovalRequest, entries \in ExpiryEntries(sessions[s].overdue) :
              /\ sessions[s].overdue \in SUBSET DOMAIN approvals
              /\ entries \in Seq(AuditEntry)
              /\ RequestedEntry(Len(approvals) + 1, row) \in AuditEntry
              /\ row.status = sessions[s].row.status
              /\ row.created_at = readings + 1
              /\ SameTerms(row, sessions[s].row)
              /\ approvals' = Append(Expired(sessions[s].overdue), row)
              /\ audit' = Append(audit \o entries,
                                 RequestedEntry(Len(approvals) + 1, row))
<1>. DEFINE row == [sessions[s].row EXCEPT !.created_at = readings + 1]
            overdue == sessions[s].overdue
<1>1. sessions[s] \in Requesting
  BY SessionKinds DEF RequestSweepInsert
<1>2. row \in ApprovalRequest
  BY <1>1, StampedRowType
<1>3. /\ row.status = sessions[s].row.status /\ SameTerms(row, sessions[s].row)
      /\ row.created_at = readings + 1
  BY <1>1, StampedRowType DEF ApprovalRequest, SameTerms
<1>4. overdue \in SUBSET DOMAIN approvals
  BY <1>1 DEF Requesting
<1>5. PICK entries \in ExpiryEntries(overdue) :
        audit' = Append(audit \o entries, RequestedEntry(Len(approvals) + 1, row))
  BY DEF RequestSweepInsert
<1>6. entries \in Seq(AuditEntry)
  BY <1>4, RowSetsFinite, ExpiryEntriesType DEF TypeOK
<1>7. approvals' = Append(Expired(overdue), row)
  BY DEF RequestSweepInsert
<1>. HIDE DEF row, overdue
<1>8. RequestedEntry(Len(approvals) + 1, row) \in AuditEntry
  BY <1>2 DEF RequestedEntry, AuditEntry, ApprovalRequest, ApprovalStatus, TypeOK
<1>9. \E r \in ApprovalRequest, e \in ExpiryEntries(overdue) :
         /\ overdue \in SUBSET DOMAIN approvals
         /\ e \in Seq(AuditEntry)
         /\ RequestedEntry(Len(approvals) + 1, r) \in AuditEntry
         /\ r.status = sessions[s].row.status
         /\ r.created_at = readings + 1
         /\ SameTerms(r, sessions[s].row)
         /\ approvals' = Append(Expired(overdue), r)
         /\ audit' = Append(audit \o e, RequestedEntry(Len(approvals) + 1, r))
  BY <1>2, <1>3, <1>4, <1>5, <1>6, <1>7, <1>8
<1>. QED
  BY <1>9 DEF overdue

LEMMA ExpiryFacts ==
    ASSUME TypeOK, NEW s \in Sessions, DecideExpire(s) \/ GateCommitDenial(s)
    PROVE  \E ids \in SUBSET DOMAIN approvals :
              /\ ids = IF sessions[s].pc = "denied" THEN sessions[s].overdue
                                                   ELSE {sessions[s].approval}
              /\ sessions[s].pc \in {"denied", "commit_expiry"}
              /\ CommitExpiry(ids)
<1>1. CASE DecideExpire(s)
  <2>1. sessions[s] \in Deciding
    BY <1>1, SessionKinds DEF DecideExpire
  <2>. QED
    BY <1>1, <2>1 DEF DecideExpire, Deciding
<1>2. CASE GateCommitDenial(s)
  <2>1. sessions[s] \in AtGate
    BY <1>2, SessionKinds DEF GateCommitDenial
  <2>. QED
    BY <1>2, <2>1 DEF GateCommitDenial, AtGate
<1>. QED
  BY <1>1, <1>2

LEMMA DecisionFacts ==
    ASSUME TypeOK, NEW s \in Sessions, DecideCommit(s)
    PROVE  \E i \in DOMAIN approvals, user \in Users, verdict \in {"approved", "rejected"} :
              /\ i = sessions[s].approval
              /\ user = sessions[s].user
              /\ verdict = sessions[s].verdict
              /\ sessions[s].pc = "commit_decision"
              /\ approvals' = Decided(i, user, verdict)
              /\ audit' = Append(audit, [decision |-> verdict, approval |-> i,
                                         actor |-> user])
              /\ [decision |-> verdict, approval |-> i, actor |-> user] \in AuditEntry
<1>1. sessions[s] \in Deciding
  BY SessionKinds DEF DecideCommit
<1>2. /\ sessions[s].approval \in DOMAIN approvals
      /\ sessions[s].user \in Users
      /\ sessions[s].verdict \in {"approved", "rejected"}
  BY <1>1 DEF Deciding
<1>3. [decision |-> sessions[s].verdict, approval |-> sessions[s].approval,
       actor |-> sessions[s].user] \in AuditEntry
  BY <1>2 DEF AuditEntry, ApprovalStatus, TypeOK
<1>. QED
  BY <1>2, <1>3 DEF DecideCommit

LEMMA BlockFacts ==
    ASSUME TypeOK, NEW s \in Sessions, DecideBlock(s)
    PROVE  \E entry \in AuditEntry :
              /\ entry.decision = "blocked"
              /\ approvals' = approvals
              /\ audit' = Append(audit, entry)
<1>1. sessions[s] \in Deciding
  BY SessionKinds DEF DecideBlock
<1>2. [decision |-> "blocked", approval |-> sessions[s].approval,
       actor |-> sessions[s].user] \in AuditEntry
  BY <1>1 DEF Deciding, AuditEntry, TypeOK
<1>. QED
  BY <1>2 DEF DecideBlock

-----------------------------------------------------------------------------
\* One step of any handler keeps the types.
LEMMA TypeStep == TypeOK /\ [Next]_vars => TypeOK'
<1> SUFFICES ASSUME TypeOK, [Next]_vars
             PROVE  TypeOK'
  OBVIOUS
<1>1. CASE Tick
  <2>1. SessionState' = SessionState
    BY <1>1 DEF Tick, SessionState, Requesting, Deciding, AtGate
  <2>. QED
    BY <1>1, <2>1 DEF Tick, TypeOK
<1>2. CASE UNCHANGED vars
  <2>1. SessionState' = SessionState
    BY <1>2 DEF vars, SessionState, Requesting, Deciding, AtGate
  <2>. QED
    BY <1>2, <2>1 DEF vars, TypeOK
<1>3. ASSUME NEW s \in Sessions, NEW user \in Users, NEW subject \in Subjects,
             NEW role \in Roles, NEW lifetime \in Lifetimes,
             RequestStart(s, user, subject, role, lifetime)
      PROVE  TypeOK'
  <2>. DEFINE deadline == IF lifetime = NoDeadline THEN NoDeadline ELSE now + lifetime
              row == [subject       |-> subject,
                      required_role |-> role,
                      requested_by  |-> user,
                      created_at    |-> 0,
                      expires_at    |-> deadline,
                      status        |-> "pending",
                      approver      |-> Nobody]
              state == [pc |-> "expire_stale", overdue |-> {}, row |-> row]
  <2>1. deadline \in Nat \cup {NoDeadline}
    BY TimeAssumption DEF TypeOK
  <2>2. row \in ApprovalRequest
    BY <2>1 DEF ApprovalRequest, ApprovalStatus
  <2>3. state \in SessionState
    BY <2>2 DEF SessionState, Requesting
  <2>4. Enter(s, state) /\ UNCHANGED <<now, readings, approvals, audit>>
    BY <1>3 DEF RequestStart
  <2>. QED
    BY <2>3, <2>4, EnterType DEF TypeOK
<1>4. ASSUME NEW s \in Sessions, RequestLoadStale(s)
      PROVE  TypeOK'
  <2>1. sessions[s] \in Requesting
    BY <1>4, SessionKinds DEF RequestLoadStale
  <2>2. PICK stale \in SUBSET DOMAIN approvals :
          Enter(s, [sessions[s] EXCEPT
                      !.pc = IF stale = {} THEN "check_pending" ELSE "sweep",
                      !.overdue = stale])
    BY <1>4 DEF RequestLoadStale, Pending
  <2>3. [sessions[s] EXCEPT
            !.pc = IF stale = {} THEN "check_pending" ELSE "sweep",
            !.overdue = stale] \in Requesting
    BY <2>1 DEF Requesting
  <2>. QED
    BY <1>4, <2>2, <2>3, EnterType DEF RequestLoadStale, TypeOK, SessionState
<1>5. ASSUME NEW s \in Sessions,
             \/ RequestConflict(s) \/ RequestSweepConflict(s)
             \/ GateProceed(s) \/ Abort(s)
      PROVE  TypeOK'
  <2>1. Return(s) /\ UNCHANGED <<now, readings, approvals, audit>>
    BY <1>5 DEF RequestConflict, RequestSweepConflict, GateProceed, Abort
  <2>. QED
    BY <2>1, ReturnType DEF TypeOK
<1>6. ASSUME NEW s \in Sessions, RequestProceed(s)
      PROVE  TypeOK'
  <2>1. sessions[s] \in Requesting
    BY <1>6, SessionKinds DEF RequestProceed
  <2>2. [sessions[s] EXCEPT !.pc = "insert", !.row.created_at = readings + 1]
           \in Requesting
    BY <2>1, StampedRowType DEF Requesting
  <2>. QED
    BY <1>6, <2>2, EnterType DEF RequestProceed, TypeOK, SessionState
<1>7. ASSUME NEW s \in Sessions, RequestInsert(s)
      PROVE  TypeOK'
  <2>1. PICK row \in ApprovalRequest, entry \in AuditEntry :
           approvals' = Append(approvals, row) /\ audit' = Append(audit, entry)
    BY <1>7, InsertFacts
  <2>2. /\ approvals' \in Seq(ApprovalRequest)
        /\ Len(approvals') >= Len(approvals)
        /\ audit' \in Seq(AuditEntry)
    BY <2>1 DEF TypeOK
  <2>. QED
    BY <1>7, <2>2, ReturnType DEF RequestInsert, TypeOK
<1>8. ASSUME NEW s \in Sessions, RequestSweepInsert(s)
      PROVE  TypeOK'
  <2>1. PICK row \in ApprovalRequest, entries \in Seq(AuditEntry) :
          /\ RequestedEntry(Len(approvals) + 1, row) \in AuditEntry
          /\ approvals' = Append(Expired(sessions[s].overdue), row)
          /\ audit' = Append(audit \o entries,
                             RequestedEntry(Len(approvals) + 1, row))
    BY <1>8, SweepFacts
  <2>2. audit' \in Seq(AuditEntry)
    BY <2>1 DEF TypeOK
  <2>3. /\ approvals' \in Seq(ApprovalRequest)
        /\ Len(approvals') >= Len(approvals)
    BY <2>1, ExpiredType DEF TypeOK
  <2>. QED
    BY <1>8, <2>2, <2>3, ReturnType DEF RequestSweepInsert, TypeOK
<1>9. ASSUME NEW s \in Sessions, NEW user \in Users, NEW i \in DOMAIN approvals,
             NEW verdict \in {"approved", "rejected"},
             DecideLoad(s, user, i, verdict)
      PROVE  TypeOK'
  <2>. DEFINE state == [pc |-> Disposition(i, user), user |-> user,
                        approval |-> i, verdict |-> verdict]
  <2>1. Disposition(i, user) \in {"commit_expiry", "commit_block", "commit_decision"}
    BY <1>9 DEF DecideLoad, Disposition
  <2>2. state \in SessionState
    BY <2>1 DEF SessionState, Deciding
  <2>3. Enter(s, state) /\ UNCHANGED <<now, readings, approvals, audit>>
    BY <1>9 DEF DecideLoad
  <2>. QED
    BY <2>2, <2>3, EnterType DEF TypeOK
<1>10. ASSUME NEW s \in Sessions, DecideExpire(s) \/ GateCommitDenial(s)
       PROVE  TypeOK'
  <2>1. PICK ids \in SUBSET DOMAIN approvals : CommitExpiry(ids)
    BY <1>10, ExpiryFacts
  <2>2. Return(s) /\ UNCHANGED <<now, readings>>
    BY <1>10 DEF DecideExpire, GateCommitDenial
  <2>. QED
    BY <2>1, <2>2, CommitExpiryType, ReturnType DEF TypeOK
<1>11. ASSUME NEW s \in Sessions, DecideBlock(s)
       PROVE  TypeOK'
  <2>1. audit' \in Seq(AuditEntry)
    BY <1>11, BlockFacts DEF TypeOK
  <2>. QED
    BY <1>11, <2>1, ReturnType DEF DecideBlock, TypeOK
<1>12. ASSUME NEW s \in Sessions, DecideCommit(s)
       PROVE  TypeOK'
  <2>1. PICK i \in DOMAIN approvals, user \in Users, verdict \in {"approved", "rejected"} :
          /\ approvals' = Decided(i, user, verdict)
          /\ audit' = Append(audit, [decision |-> verdict, approval |-> i,
                                     actor |-> user])
          /\ [decision |-> verdict, approval |-> i, actor |-> user] \in AuditEntry
    BY <1>12, DecisionFacts
  <2>2. audit' \in Seq(AuditEntry)
    BY <2>1 DEF TypeOK
  <2>3. /\ approvals' \in Seq(ApprovalRequest)
        /\ Len(approvals') = Len(approvals)
    BY <2>1, DecidedType DEF TypeOK
  <2>. QED
    BY <1>12, <2>2, <2>3, ReturnType DEF DecideCommit, TypeOK
<1>13. ASSUME NEW s \in Sessions, NEW user \in Users, NEW subject \in Subjects,
              \/ GateDeny(s, user, subject) \/ GateAllow(s, user, subject)
       PROVE  TypeOK'
  <2>1. Latest(subject) \subseteq DOMAIN approvals
    BY DEF Latest
  <2>2. ASSUME NEW i \in DOMAIN approvals
        PROVE  approvals[i].approver \in Users \cup {Nobody}
    <3>1. approvals[i] \in ApprovalRequest
      BY ElementOfSeq DEF TypeOK
    <3>. QED
      BY <3>1 DEF ApprovalRequest
  <2>3. PICK state \in AtGate : Enter(s, state)
    BY <1>13, <2>1, <2>2 DEF GateDeny, GateAllow, AtGate
  <2>4. UNCHANGED <<now, readings, approvals, audit>>
    BY <1>13 DEF GateDeny, GateAllow
  <2>. QED
    BY <2>3, <2>4, EnterType DEF TypeOK, SessionState
<1>. QED
  BY <1>1, <1>2, <1>3, <1>4, <1>5, <1>6, <1>7, <1>8, <1>9, <1>10, <1>11,
     <1>12, <1>13 DEF Next, Start, Continue

\* Every variable keeps its type, and no session refers to a row that is not
\* in the table (ApprovalWorkflow, all handlers).
THEOREM TypeCorrect == Spec => []TypeOK
<1>1. Init => TypeOK
  BY DEF Init, TypeOK, SessionState, Idle
<1>. QED
  BY <1>1, TypeStep, PTL DEF Spec

-----------------------------------------------------------------------------
(* What every step keeps *)

Keeps ==
    /\ now' \in Nat /\ now' >= now
    /\ \A i \in DOMAIN approvals :
          i \in DOMAIN approvals' /\ SameTerms(approvals'[i], approvals[i])
    /\ \A k \in DOMAIN audit : k \in DOMAIN audit' /\ audit'[k] = audit[k]

\* A row or an entry added at the end leaves the earlier ones in place.
LEMMA AppendKeeps ==
    ASSUME NEW S, NEW seq \in Seq(S), NEW e \in S
    PROVE  \A i \in DOMAIN seq : i \in DOMAIN Append(seq, e) /\ Append(seq, e)[i] = seq[i]
OBVIOUS

LEMMA ConcatKeeps ==
    ASSUME NEW S, NEW s1 \in Seq(S), NEW s2 \in Seq(S)
    PROVE  \A i \in DOMAIN s1 : i \in DOMAIN (s1 \o s2) /\ (s1 \o s2)[i] = s1[i]
BY ConcatProperties

LEMMA StepKeeps == TypeOK /\ [Next]_vars => Keeps
<1> SUFFICES ASSUME TypeOK, [Next]_vars
             PROVE  Keeps
  OBVIOUS
<1>. DEFINE RowsKept ==
              \A i \in DOMAIN approvals :
                 i \in DOMAIN approvals' /\ SameTerms(approvals'[i], approvals[i])
            TrailKept == \A k \in DOMAIN audit : k \in DOMAIN audit' /\ audit'[k] = audit[k]
<1>1. now' \in Nat /\ now' >= now
  <2>1. now' = now \/ now' = now + 1
    BY DEF Next, Tick, Start, Continue, vars, RequestStart, RequestLoadStale,
       RequestConflict, RequestProceed, RequestInsert, RequestSweepConflict,
       RequestSweepInsert, DecideLoad, DecideExpire, DecideBlock, DecideCommit,
       GateDeny, GateAllow, GateCommitDenial, GateProceed, Abort
  <2>. QED
    BY <2>1 DEF TypeOK
<1>2. CASE UNCHANGED <<approvals, audit>>
  BY <1>1, <1>2 DEF Keeps, SameTerms
<1>3. ASSUME NEW s \in Sessions, RequestInsert(s)
      PROVE  Keeps
  <2>1. PICK row \in ApprovalRequest, entry \in AuditEntry :
           approvals' = Append(approvals, row) /\ audit' = Append(audit, entry)
    BY <1>3, InsertFacts
  <2>2. RowsKept
    BY <2>1, AppendKeeps DEF TypeOK, SameTerms
  <2>3. TrailKept
    BY <2>1, AppendKeeps DEF TypeOK
  <2>. QED
    BY <1>1, <2>2, <2>3 DEF Keeps
<1>4. ASSUME NEW s \in Sessions, RequestSweepInsert(s)
      PROVE  Keeps
  <2>1. PICK row \in ApprovalRequest, entries \in Seq(AuditEntry), entry \in AuditEntry :
           /\ approvals' = Append(Expired(sessions[s].overdue), row)
           /\ audit' = Append(audit \o entries, entry)
    BY <1>4, SweepFacts
  <2>2. RowsKept
    <3>1. /\ Expired(sessions[s].overdue) \in Seq(ApprovalRequest)
          /\ \A i \in DOMAIN approvals :
                /\ i \in DOMAIN Expired(sessions[s].overdue)
                /\ SameTerms(Expired(sessions[s].overdue)[i], approvals[i])
      BY ExpiredType DEF TypeOK
    <3>. QED
      BY <2>1, <3>1, AppendKeeps
  <2>3. TrailKept
    <3>1. /\ audit \o entries \in Seq(AuditEntry)
          /\ \A k \in DOMAIN audit : k \in DOMAIN (audit \o entries)
                                     /\ (audit \o entries)[k] = audit[k]
      BY ConcatKeeps, ConcatProperties DEF TypeOK
    <3>. QED
      BY <2>1, <3>1, AppendKeeps
  <2>. QED
    BY <1>1, <2>2, <2>3 DEF Keeps
<1>5. ASSUME NEW s \in Sessions, DecideExpire(s) \/ GateCommitDenial(s)
      PROVE  Keeps
  <2>1. PICK ids \in SUBSET DOMAIN approvals : CommitExpiry(ids)
    BY <1>5, ExpiryFacts
  <2>2. PICK entries \in ExpiryEntries(ids) :
           approvals' = Expired(ids) /\ audit' = audit \o entries
    BY <2>1 DEF CommitExpiry
  <2>3. entries \in Seq(AuditEntry)
    BY RowSetsFinite, ExpiryEntriesType DEF TypeOK
  <2>4. RowsKept
    BY <2>2, ExpiredType DEF TypeOK
  <2>5. TrailKept
    BY <2>2, <2>3, ConcatKeeps DEF TypeOK
  <2>. QED
    BY <1>1, <2>4, <2>5 DEF Keeps
<1>6. ASSUME NEW s \in Sessions, DecideBlock(s)
      PROVE  Keeps
  <2>1. PICK entry \in AuditEntry : approvals' = approvals /\ audit' = Append(audit, entry)
    BY <1>6, BlockFacts
  <2>2. TrailKept
    BY <2>1, AppendKeeps DEF TypeOK
  <2>. QED
    BY <1>1, <2>1, <2>2 DEF Keeps, SameTerms
<1>7. ASSUME NEW s \in Sessions, DecideCommit(s)
      PROVE  Keeps
  <2>1. PICK i \in DOMAIN approvals, user \in Users, verdict \in {"approved", "rejected"} :
           /\ approvals' = Decided(i, user, verdict)
           /\ audit' = Append(audit, [decision |-> verdict, approval |-> i,
                                      actor |-> user])
           /\ [decision |-> verdict, approval |-> i, actor |-> user] \in AuditEntry
    BY <1>7, DecisionFacts
  <2>2. RowsKept
    BY <2>1, DecidedType DEF TypeOK
  <2>3. TrailKept
    BY <2>1, AppendKeeps DEF TypeOK
  <2>. QED
    BY <1>1, <2>2, <2>3 DEF Keeps
<1>8. \/ UNCHANGED <<approvals, audit>>
      \/ \E s \in Sessions :
            \/ RequestInsert(s) \/ RequestSweepInsert(s) \/ DecideExpire(s)
            \/ GateCommitDenial(s) \/ DecideBlock(s) \/ DecideCommit(s)
  BY WritingSteps
<1>. QED
  BY <1>2, <1>3, <1>4, <1>5, <1>6, <1>7, <1>8

-----------------------------------------------------------------------------
(* The inductive invariant: what the rows satisfy needs what every session    *)
(* learned from the rows it loaded, which no later step can take back.        *)

\* Due(row), at a given time.
DueAt(row, time) == row.expires_at # NoDeadline /\ row.expires_at <= time

\* What the session `state` learned from the rows and may still rely on.
CallOK(state, rows, log, time) ==
    /\ state.pc \in {"expire_stale", "check_pending", "insert", "sweep"}
          => state.row.status = "pending"
    /\ state.pc \in {"sweep", "denied"} =>
          \A i \in state.overdue : DueAt(rows[i], time)
    /\ state.pc = "commit_expiry" => DueAt(rows[state.approval], time)
    /\ state.pc = "commit_decision" => Qualified(state.user, rows[state.approval])
    /\ state.pc = "cleared" =>
          /\ state.approval \in DOMAIN rows
          /\ rows[state.approval].subject = state.subject
          /\ Qualified(state.approver, rows[state.approval])
          /\ \E k \in DOMAIN log :
                log[k] = [decision |-> "approved", approval |-> state.approval,
                          actor |-> state.approver]

CallsOK == \A s \in Sessions : CallOK(sessions[s], approvals, audit, now)

Inv ==
    /\ TypeOK
    /\ DecidedByQualifiedOther
    /\ ExpiredOnlyWhenDue
    /\ TrailMatchesTable
    /\ CallsOK

\* A deadline that has passed stays passed, and a qualified approver stays so.
LEMMA DueKept ==
    ASSUME TypeOK, Keeps, NEW i \in DOMAIN approvals, DueAt(approvals[i], now)
    PROVE  DueAt(approvals'[i], now') /\ DueAt(approvals[i], now')
<1>1. approvals[i] \in ApprovalRequest
  BY ElementOfSeq DEF TypeOK
<1>2. approvals[i].expires_at \in Nat
  BY <1>1 DEF ApprovalRequest, DueAt
<1>3. approvals'[i].expires_at = approvals[i].expires_at
  BY DEF Keeps, SameTerms
<1>4. approvals[i].expires_at <= now
  BY DEF DueAt
<1>5. approvals[i].expires_at <= now'
  BY <1>2, <1>4 DEF Keeps, TypeOK
<1>. QED
  BY <1>2, <1>3, <1>5, TimeAssumption DEF DueAt

LEMMA QualifiedKept ==
    ASSUME NEW row1, NEW row2, SameTerms(row1, row2), NEW user, Qualified(user, row2)
    PROVE  Qualified(user, row1)
BY DEF SameTerms, Qualified

\* No step of any session takes back what a session learned.
LEMMA CallKept ==
    ASSUME TypeOK, Keeps, NEW state \in SessionState,
           CallOK(state, approvals, audit, now)
    PROVE  CallOK(state, approvals', audit', now')
<1>1. ASSUME state.pc \in {"sweep", "denied"}
      PROVE  \A i \in state.overdue : DueAt(approvals'[i], now')
  <2>1. state.overdue \in SUBSET DOMAIN approvals
    BY <1>1 DEF SessionState, Idle, Requesting, Deciding, AtGate
  <2>. QED
    BY <1>1, <2>1, DueKept DEF CallOK
<1>2. ASSUME state.pc = "commit_expiry"
      PROVE  DueAt(approvals'[state.approval], now')
  <2>1. state.approval \in DOMAIN approvals
    BY <1>2 DEF SessionState, Idle, Requesting, Deciding, AtGate
  <2>. QED
    BY <1>2, <2>1, DueKept DEF CallOK
<1>3. ASSUME state.pc = "commit_decision"
      PROVE  Qualified(state.user, approvals'[state.approval])
  <2>1. state.approval \in DOMAIN approvals
    BY <1>3 DEF SessionState, Idle, Requesting, Deciding, AtGate
  <2>. QED
    BY <1>3, <2>1, QualifiedKept DEF CallOK, Keeps
<1>4. ASSUME state.pc = "cleared"
      PROVE  /\ state.approval \in DOMAIN approvals'
             /\ approvals'[state.approval].subject = state.subject
             /\ Qualified(state.approver, approvals'[state.approval])
             /\ \E k \in DOMAIN audit' :
                   audit'[k] = [decision |-> "approved", approval |-> state.approval,
                                actor |-> state.approver]
  <2>1. /\ state.approval \in DOMAIN approvals
        /\ approvals[state.approval].subject = state.subject
        /\ Qualified(state.approver, approvals[state.approval])
    BY <1>4 DEF CallOK
  <2>2. PICK k \in DOMAIN audit :
           audit[k] = [decision |-> "approved", approval |-> state.approval,
                       actor |-> state.approver]
    BY <1>4 DEF CallOK
  <2>3. /\ state.approval \in DOMAIN approvals'
        /\ SameTerms(approvals'[state.approval], approvals[state.approval])
        /\ k \in DOMAIN audit' /\ audit'[k] = audit[k]
    BY <2>1, <2>2 DEF Keeps
  <2>. QED
    BY <2>1, <2>2, <2>3, QualifiedKept DEF SameTerms
<1>5. state.pc \in {"expire_stale", "check_pending", "insert", "sweep"}
         => state.row.status = "pending"
  BY DEF CallOK
<1>. HIDE DEF Qualified, DueAt
<1>. QED
  BY <1>1, <1>2, <1>3, <1>4, <1>5 DEF CallOK

LEMMA RowsSafe ==
    Inv /\ TypeOK' /\ [Next]_vars => (DecidedByQualifiedOther /\ ExpiredOnlyWhenDue)'
<1> SUFFICES ASSUME Inv, TypeOK', [Next]_vars
             PROVE  (DecidedByQualifiedOther /\ ExpiredOnlyWhenDue)'
  OBVIOUS
<1>. DEFINE Safe(row) ==
              /\ row.status \in {"approved", "rejected"} => Qualified(row.approver, row)
              /\ row.status = "expired" => DueAt(row, now')
<1>1. Keeps
  BY StepKeeps DEF Inv
<1>2. ASSUME NEW i \in DOMAIN approvals
      PROVE  Safe(approvals[i])
  <2>1. approvals[i].status = "expired" => DueAt(approvals[i], now)
    BY DEF Inv, ExpiredOnlyWhenDue, Due, DueAt
  <2>2. DueAt(approvals[i], now) => DueAt(approvals[i], now')
    BY <1>1, DueKept DEF Inv
  <2>. QED
    BY <2>1, <2>2 DEF Inv, DecidedByQualifiedOther
<1>3. ASSUME NEW ids \in SUBSET DOMAIN approvals, NEW i \in DOMAIN approvals,
             \A j \in ids : DueAt(approvals[j], now)
      PROVE  Safe(Expired(ids)[i])
  <2>1. CASE i \notin ids
    BY <1>2, <2>1, ExpiredType DEF Inv, TypeOK
  <2>2. CASE i \in ids
    <3>1. /\ Expired(ids)[i].status = "expired"
          /\ SameTerms(Expired(ids)[i], approvals[i])
      BY <2>2, ExpiredType DEF Inv, TypeOK
    <3>2. DueAt(approvals[i], now')
      BY <1>1, <1>3, <2>2, DueKept DEF Inv
    <3>. QED
      BY <3>1, <3>2 DEF SameTerms, DueAt
  <2>. QED
    BY <2>1, <2>2
<1>. SUFFICES \A i \in DOMAIN approvals' : Safe(approvals'[i])
  BY DEF DecidedByQualifiedOther, ExpiredOnlyWhenDue, Due, DueAt, Qualified
<1>. HIDE DEF Safe
<1>4. CASE UNCHANGED <<approvals, audit>>
  BY <1>2, <1>4
<1>5. ASSUME NEW s \in Sessions, RequestInsert(s)
      PROVE  \A i \in DOMAIN approvals' : Safe(approvals'[i])
  <2>1. PICK row \in ApprovalRequest :
           approvals' = Append(approvals, row) /\ row.status = "pending"
    BY <1>5, InsertFacts DEF Inv, CallsOK, CallOK, RequestInsert
  <2>2. ASSUME NEW i \in DOMAIN approvals'
        PROVE  Safe(approvals'[i])
    <3>1. approvals'[i] = row \/ (i \in DOMAIN approvals /\ approvals'[i] = approvals[i])
      BY <2>1 DEF Inv, TypeOK
    <3>2. Safe(row)
      BY <2>1 DEF Safe
    <3>. QED
      BY <1>2, <3>1, <3>2
  <2>. QED
    BY <2>2
<1>6. ASSUME NEW s \in Sessions, RequestSweepInsert(s)
      PROVE  \A i \in DOMAIN approvals' : Safe(approvals'[i])
  <2>. DEFINE ids == sessions[s].overdue
  <2>1. PICK row \in ApprovalRequest :
           /\ ids \in SUBSET DOMAIN approvals
           /\ approvals' = Append(Expired(ids), row)
           /\ row.status = "pending"
    BY <1>6, SweepFacts DEF Inv, CallsOK, CallOK, RequestSweepInsert
  <2>2. \A j \in ids : DueAt(approvals[j], now)
    BY <1>6 DEF Inv, CallsOK, CallOK, RequestSweepInsert
  <2>3. /\ Expired(ids) \in Seq(ApprovalRequest)
        /\ Len(Expired(ids)) = Len(approvals)
    BY ExpiredType DEF Inv, TypeOK
  <2>. HIDE DEF ids
  <2>4. ASSUME NEW i \in DOMAIN approvals'
        PROVE  Safe(approvals'[i])
    <3>1. \/ approvals'[i] = row
          \/ i \in DOMAIN approvals /\ approvals'[i] = Expired(ids)[i]
      BY <2>1, <2>3 DEF Inv, TypeOK
    <3>2. Safe(row)
      BY <2>1 DEF Safe
    <3>. QED
      BY <1>3, <2>1, <2>2, <3>1, <3>2
  <2>. QED
    BY <2>4
<1>7. ASSUME NEW s \in Sessions, DecideExpire(s) \/ GateCommitDenial(s)
      PROVE  \A i \in DOMAIN approvals' : Safe(approvals'[i])
  <2>1. PICK ids \in SUBSET DOMAIN approvals :
           /\ ids = IF sessions[s].pc = "denied" THEN sessions[s].overdue
                                                ELSE {sessions[s].approval}
           /\ sessions[s].pc \in {"denied", "commit_expiry"}
           /\ CommitExpiry(ids)
    BY <1>7, ExpiryFacts DEF Inv
  <2>2. \A j \in ids : DueAt(approvals[j], now)
    BY <2>1 DEF Inv, CallsOK, CallOK
  <2>3. approvals' = Expired(ids) /\ DOMAIN approvals' = DOMAIN approvals
    BY <2>1 DEF CommitExpiry, Expired
  <2>. QED
    BY <1>3, <2>2, <2>3
<1>8. ASSUME NEW s \in Sessions, DecideBlock(s)
      PROVE  \A i \in DOMAIN approvals' : Safe(approvals'[i])
  BY <1>2, <1>8 DEF DecideBlock
<1>9. ASSUME NEW s \in Sessions, DecideCommit(s)
      PROVE  \A i \in DOMAIN approvals' : Safe(approvals'[i])
  <2>1. PICK i \in DOMAIN approvals, user \in Users, verdict \in {"approved", "rejected"} :
           /\ i = sessions[s].approval
           /\ user = sessions[s].user
           /\ sessions[s].pc = "commit_decision"
           /\ approvals' = Decided(i, user, verdict)
    BY <1>9, DecisionFacts DEF Inv
  <2>2. Qualified(user, approvals[i])
    BY <2>1 DEF Inv, CallsOK, CallOK
  <2>3. /\ DOMAIN approvals' = DOMAIN approvals
        /\ approvals'[i].status = verdict
        /\ approvals'[i].approver = user
        /\ SameTerms(approvals'[i], approvals[i])
        /\ \A j \in DOMAIN approvals : j # i => approvals'[j] = approvals[j]
    BY <2>1, DecidedType DEF Inv, TypeOK
  <2>4. Safe(approvals'[i])
    BY <2>2, <2>3, QualifiedKept DEF Safe
  <2>. QED
    BY <1>2, <2>3, <2>4
<1>. QED
  BY <1>4, <1>5, <1>6, <1>7, <1>8, <1>9, WritingSteps

-----------------------------------------------------------------------------
(* The trail *)

\* An entry about another approval, or a blocked attempt, settles nothing anew.
LEMMA SettlesAfterAppend ==
    ASSUME NEW log \in Seq(AuditEntry), NEW entry \in AuditEntry, NEW i, NEW row,
           Settles(log, i, row), entry.approval = i => entry.decision = "blocked"
    PROVE  Settles(Append(log, entry), i, row)
<1>1. PICK k \in DOMAIN log :
        /\ log[k].approval = i
        /\ log[k].decision = row.status
        /\ row.status \in {"approved", "rejected"} => log[k].actor = row.approver
        /\ \A j \in (k + 1)..Len(log) :
              log[j].approval = i => log[j].decision = "blocked"
  BY DEF Settles
<1>. DEFINE longer == Append(log, entry)
<1>2. /\ Len(longer) = Len(log) + 1
      /\ \A j \in 1..Len(log) : longer[j] = log[j]
      /\ longer[Len(log) + 1] = entry
      /\ DOMAIN longer = 1..(Len(log) + 1)
      /\ k \in 1..Len(log)
      /\ Len(log) \in Nat
  BY AppendProperties
<1>3. ASSUME NEW j \in (k + 1)..Len(longer), longer[j].approval = i
      PROVE  longer[j].decision = "blocked"
  <2>1. j = Len(log) + 1 \/ j \in (k + 1)..Len(log)
    BY <1>2
  <2>. QED
    BY <1>1, <1>2, <1>3, <2>1
<1>4. longer[k] = log[k] /\ k \in DOMAIN longer
  BY <1>2
<1>. HIDE DEF longer
<1>5. Settles(longer, i, row)
  BY <1>1, <1>3, <1>4 DEF Settles
<1>. QED
  BY <1>5 DEF longer

\* An entry that records a row's status settles it.
LEMMA SettledByAppend ==
    ASSUME NEW log \in Seq(AuditEntry), NEW entry \in AuditEntry, NEW row,
           entry.decision = row.status,
           row.status \in {"approved", "rejected"} => entry.actor = row.approver
    PROVE  Settles(Append(log, entry), entry.approval, row)
<1>. DEFINE longer == Append(log, entry)
<1>1. /\ Len(longer) = Len(log) + 1
      /\ longer[Len(log) + 1] = entry
      /\ Len(log) + 1 \in DOMAIN longer
      /\ Len(log) \in Nat
  BY AppendProperties
<1>2. ((Len(log) + 1) + 1)..Len(longer) = {}
  BY <1>1
<1>. HIDE DEF longer
<1>3. Settles(longer, entry.approval, row)
  BY <1>1, <1>2 DEF Settles
<1>. QED
  BY <1>3 DEF longer

\* Nor do entries that are all about other approvals.
LEMMA SettlesAfterConcat ==
    ASSUME NEW log \in Seq(AuditEntry), NEW entries \in Seq(AuditEntry), NEW i, NEW row,
           Settles(log, i, row), \A k \in DOMAIN entries : entries[k].approval # i
    PROVE  Settles(log \o entries, i, row)
<1>1. PICK k \in DOMAIN log :
        /\ log[k].approval = i
        /\ log[k].decision = row.status
        /\ row.status \in {"approved", "rejected"} => log[k].actor = row.approver
        /\ \A j \in (k + 1)..Len(log) :
              log[j].approval = i => log[j].decision = "blocked"
  BY DEF Settles
<1>. DEFINE longer == log \o entries
<1>2. /\ Len(longer) = Len(log) + Len(entries)
      /\ \A j \in 1..Len(log) : longer[j] = log[j]
      /\ \A j \in 1..Len(entries) : longer[Len(log) + j] = entries[j]
      /\ k \in 1..Len(log)
      /\ k \in DOMAIN longer
      /\ Len(log) \in Nat /\ Len(entries) \in Nat
  BY ConcatProperties
<1>3. ASSUME NEW j \in (k + 1)..Len(longer), longer[j].approval = i
      PROVE  longer[j].decision = "blocked"
  <2>1. CASE j \in (k + 1)..Len(log)
    BY <1>1, <1>2, <1>3, <2>1
  <2>2. CASE j > Len(log)
    <3>1. j - Len(log) \in 1..Len(entries) /\ Len(log) + (j - Len(log)) = j
      BY <1>2, <2>2
    <3>2. longer[j] = entries[j - Len(log)]
      BY <1>2, <3>1
    <3>. QED
      BY <1>3, <3>1, <3>2
  <2>. QED
    BY <1>2, <2>1, <2>2
<1>4. longer[k] = log[k] /\ k \in DOMAIN longer
  BY <1>2
<1>. HIDE DEF longer
<1>5. Settles(longer, i, row)
  BY <1>1, <1>3, <1>4 DEF Settles
<1>. QED
  BY <1>5 DEF longer

\* The entries of an expiry name each row of the set, each once.
LEMMA SettledByExpiry ==
    ASSUME NEW log \in Seq(AuditEntry), NEW ids \in SUBSET Nat, IsFiniteSet(ids),
           NEW entries \in ExpiryEntries(ids), NEW i \in ids, NEW row,
           row.status = "expired"
    PROVE  Settles(log \o entries, i, row)
<1>. DEFINE D == 1..Cardinality(ids)
<1>1. PICK order \in SetToSeqs(ids) :
        entries = [k \in DOMAIN order |-> ExpiryEntry(order[k])]
  BY DEF ExpiryEntries
<1>2. order \in [D -> ids] /\ \A k, j \in D : k # j => order[k] # order[j]
  BY <1>1 DEF SetToSeqs
<1>3. order \in Surjection(D, ids)
  <2>1. order \in Injection(D, ids)
    BY <1>2 DEF Injection, IsInjective
  <2>2. Cardinality(D) = Cardinality(ids)
    BY FS_CardinalityType, FS_Interval
  <2>. HIDE DEF D
  <2>. QED
    BY <2>1, <2>2, FS_Injection
<1>4. PICK k \in D : order[k] = i
  BY <1>3 DEF Surjection
<1>5. /\ entries \in Seq(AuditEntry)
      /\ DOMAIN entries = D
      /\ \A j \in D : entries[j] = ExpiryEntry(order[j])
  BY <1>1, <1>2, ExpiryEntriesType
<1>6. /\ Cardinality(ids) \in Nat
      /\ Len(entries) = Cardinality(ids)
  BY <1>5, FS_CardinalityType
<1>. DEFINE longer == log \o entries
            last == Len(log) + k
<1>7. /\ Len(longer) = Len(log) + Len(entries)
      /\ \A j \in 1..Len(entries) : longer[Len(log) + j] = entries[j]
      /\ Len(log) \in Nat
      /\ last \in DOMAIN longer
  <2>1. /\ longer \in Seq(AuditEntry)
        /\ Len(longer) = Len(log) + Len(entries)
        /\ \A j \in 1..Len(entries) : longer[Len(log) + j] = entries[j]
    BY <1>5, ConcatProperties
  <2>2. last \in 1..Len(longer)
    BY <1>4, <1>6, <2>1
  <2>. HIDE DEF longer, last
  <2>3. DOMAIN longer = 1..Len(longer)
    BY <2>1
  <2>. QED
    BY <2>1, <2>2, <2>3
<1>8. longer[last] = ExpiryEntry(i)
  BY <1>4, <1>5, <1>6, <1>7
<1>9. ASSUME NEW j \in (last + 1)..Len(longer)
      PROVE  longer[j].approval # i
  <2>1. /\ j - Len(log) \in D /\ j - Len(log) # k
        /\ Len(log) + (j - Len(log)) = j
    BY <1>6, <1>7
  <2>2. longer[j] = ExpiryEntry(order[j - Len(log)])
    BY <1>5, <1>6, <1>7, <2>1
  <2>. QED
    BY <1>2, <1>4, <2>1, <2>2 DEF ExpiryEntry
<1>. HIDE DEF longer, last
<1>10. Settles(longer, i, row)
  BY <1>7, <1>8, <1>9 DEF Settles, ExpiryEntry
<1>. QED
  BY <1>10 DEF longer

\* Rows that expire together with their entries stay settled, all the others too.
LEMMA TrailAfterExpiry ==
    ASSUME TypeOK, TrailMatchesTable, NEW ids \in SUBSET DOMAIN approvals,
           NEW entries \in ExpiryEntries(ids), NEW i \in DOMAIN approvals
    PROVE  Settles(audit \o entries, i, Expired(ids)[i])
<1>1. IsFiniteSet(ids) /\ ids \in SUBSET Nat
  BY RowSetsFinite DEF TypeOK
<1>2. /\ entries \in Seq(AuditEntry)
      /\ \A k \in DOMAIN entries : \E j \in ids : entries[k] = ExpiryEntry(j)
  BY <1>1, ExpiryEntriesType
<1>3. CASE i \in ids
  <2>1. Expired(ids)[i].status = "expired"
    BY <1>3, ExpiredType DEF TypeOK
  <2>. QED
    BY <1>1, <1>3, <2>1, SettledByExpiry DEF TypeOK
<1>4. CASE i \notin ids
  <2>1. Expired(ids)[i] = approvals[i]
    BY <1>4, ExpiredType DEF TypeOK
  <2>2. \A k \in DOMAIN entries : entries[k].approval # i
    BY <1>2, <1>4 DEF ExpiryEntry
  <2>. QED
    BY <1>2, <2>1, <2>2, SettlesAfterConcat DEF TypeOK, TrailMatchesTable
<1>. QED
  BY <1>3, <1>4

LEMMA TrailSafe ==
    Inv /\ TypeOK' /\ [Next]_vars => TrailMatchesTable'
<1> SUFFICES ASSUME Inv, [Next]_vars
             PROVE  \A i \in DOMAIN approvals' : Settles(audit', i, approvals'[i])
  BY DEF TrailMatchesTable
<1>1. TypeOK /\ TrailMatchesTable
  BY DEF Inv
<1>2. CASE UNCHANGED <<approvals, audit>>
  BY <1>1, <1>2 DEF TrailMatchesTable
<1>3. ASSUME NEW s \in Sessions, RequestInsert(s), NEW i \in DOMAIN approvals'
      PROVE  Settles(audit', i, approvals'[i])
  <2>. DEFINE entry == RequestedEntry(Len(approvals) + 1, sessions[s].row)
  <2>1. /\ sessions[s].row \in ApprovalRequest
        /\ sessions[s].row.status = "pending"
        /\ entry \in AuditEntry
        /\ approvals' = Append(approvals, sessions[s].row)
        /\ audit' = Append(audit, entry)
    BY <1>3, InsertFacts DEF Inv, CallsOK, CallOK, RequestInsert
  <2>2. entry.approval = Len(approvals) + 1 /\ entry.decision = "pending"
    BY DEF RequestedEntry
  <2>. HIDE DEF entry
  <2>3. CASE i = Len(approvals) + 1
    <3>1. approvals'[i] = sessions[s].row
      BY <1>1, <2>1, <2>3 DEF TypeOK
    <3>. QED
      BY <1>1, <2>1, <2>2, <2>3, <3>1, SettledByAppend DEF TypeOK
  <2>4. CASE i # Len(approvals) + 1
    <3>1. i \in DOMAIN approvals /\ approvals'[i] = approvals[i]
      BY <1>1, <1>3, <2>1, <2>4 DEF TypeOK
    <3>. QED
      BY <1>1, <2>1, <2>2, <2>4, <3>1, SettlesAfterAppend DEF TypeOK, TrailMatchesTable
  <2>. QED
    BY <2>3, <2>4
<1>4. ASSUME NEW s \in Sessions, RequestSweepInsert(s), NEW i \in DOMAIN approvals'
      PROVE  Settles(audit', i, approvals'[i])
  <2>. DEFINE ids == sessions[s].overdue
              New(row) == RequestedEntry(Len(approvals) + 1, row)
  <2>1. PICK row \in ApprovalRequest, entries \in ExpiryEntries(ids) :
          /\ ids \in SUBSET DOMAIN approvals
          /\ entries \in Seq(AuditEntry)
          /\ New(row) \in AuditEntry
          /\ row.status = sessions[s].row.status
          /\ approvals' = Append(Expired(ids), row)
          /\ audit' = Append(audit \o entries, New(row))
    BY <1>1, <1>4, SweepFacts
  <2>2. row.status = "pending"
    BY <1>4, <2>1 DEF Inv, CallsOK, CallOK, RequestSweepInsert
  <2>3. New(row).approval = Len(approvals) + 1 /\ New(row).decision = "pending"
    BY DEF RequestedEntry
  <2>. HIDE DEF ids, New
  <2>4. audit \o entries \in Seq(AuditEntry)
    BY <1>1, <2>1 DEF TypeOK
  <2>5. /\ Expired(ids) \in Seq(ApprovalRequest)
        /\ Len(Expired(ids)) = Len(approvals)
    BY <1>1, ExpiredType DEF TypeOK
  <2>6. CASE i = Len(approvals) + 1
    <3>1. approvals'[i] = row
      BY <2>1, <2>5, <2>6
    <3>. QED
      BY <2>1, <2>2, <2>3, <2>4, <2>6, <3>1, SettledByAppend
  <2>7. CASE i # Len(approvals) + 1
    <3>1. i \in DOMAIN approvals /\ approvals'[i] = Expired(ids)[i]
      BY <1>1, <1>4, <2>1, <2>5, <2>7 DEF TypeOK
    <3>2. Settles(audit \o entries, i, Expired(ids)[i])
      BY <1>1, <2>1, <3>1, TrailAfterExpiry
    <3>. QED
      BY <2>1, <2>3, <2>4, <2>7, <3>1, <3>2, SettlesAfterAppend
  <2>. QED
    BY <2>6, <2>7
<1>5. ASSUME NEW s \in Sessions, DecideExpire(s) \/ GateCommitDenial(s),
             NEW i \in DOMAIN approvals'
      PROVE  Settles(audit', i, approvals'[i])
  <2>1. PICK ids \in SUBSET DOMAIN approvals : CommitExpiry(ids)
    BY <1>1, <1>5, ExpiryFacts
  <2>2. PICK entries \in ExpiryEntries(ids) :
          approvals' = Expired(ids) /\ audit' = audit \o entries
    BY <2>1 DEF CommitExpiry
  <2>3. i \in DOMAIN approvals
    BY <1>5, <2>2 DEF Expired
  <2>. QED
    BY <1>1, <2>2, <2>3, TrailAfterExpiry
<1>6. ASSUME NEW s \in Sessions, DecideBlock(s), NEW i \in DOMAIN approvals'
      PROVE  Settles(audit', i, approvals'[i])
  <2>1. PICK entry \in AuditEntry :
          /\ entry.decision = "blocked"
          /\ approvals' = approvals
          /\ audit' = Append(audit, entry)
    BY <1>1, <1>6, BlockFacts
  <2>. QED
    BY <1>1, <1>6, <2>1, SettlesAfterAppend DEF TypeOK, TrailMatchesTable
<1>7. ASSUME NEW s \in Sessions, DecideCommit(s), NEW i \in DOMAIN approvals'
      PROVE  Settles(audit', i, approvals'[i])
  <2>. DEFINE Entry(id, user, verdict) ==
                [decision |-> verdict, approval |-> id, actor |-> user]
  <2>1. PICK id \in DOMAIN approvals, user \in Users, verdict \in {"approved", "rejected"} :
          /\ approvals' = Decided(id, user, verdict)
          /\ audit' = Append(audit, Entry(id, user, verdict))
          /\ Entry(id, user, verdict) \in AuditEntry
    BY <1>1, <1>7, DecisionFacts
  <2>2. /\ i \in DOMAIN approvals
        /\ i # id => approvals'[i] = approvals[i]
        /\ approvals'[id].status = verdict
        /\ approvals'[id].approver = user
    <3>1. DOMAIN approvals' = DOMAIN approvals
      BY <2>1 DEF Decided
    <3>. QED
      BY <1>1, <1>7, <2>1, <3>1, DecidedType DEF TypeOK
  <2>3. PICK entry \in AuditEntry :
          /\ entry = Entry(id, user, verdict)
          /\ entry.approval = id
          /\ entry.decision = verdict
          /\ entry.actor = user
    BY <2>1
  <2>. HIDE DEF Entry
  <2>4. CASE i = id
    BY <1>1, <2>1, <2>2, <2>3, <2>4, SettledByAppend DEF TypeOK
  <2>5. CASE i # id
    BY <1>1, <2>1, <2>2, <2>3, <2>5, SettlesAfterAppend DEF TypeOK, TrailMatchesTable
  <2>. QED
    BY <2>4, <2>5
<1>. QED
  BY <1>2, <1>3, <1>4, <1>5, <1>6, <1>7, WritingSteps

-----------------------------------------------------------------------------
(* What sessions learn *)

\* A session that did nothing, or that returned, relies on nothing new.
LEMMA IdleOK ==
    ASSUME NEW rows, NEW log, NEW time
    PROVE  CallOK(Idle, rows, log, time)
BY DEF CallOK, Idle

LEMMA CallsSafe ==
    Inv /\ TypeOK' /\ [Next]_vars => CallsOK'
<1> SUFFICES ASSUME Inv, TypeOK', [Next]_vars,
                    NEW s \in Sessions
             PROVE  CallOK(sessions'[s], approvals', audit', now')
  BY DEF CallsOK
<1>1. TypeOK /\ Keeps
  BY StepKeeps DEF Inv
<1>2. sessions[s] \in SessionState /\ CallOK(sessions[s], approvals, audit, now)
  BY DEF Inv, CallsOK, TypeOK
<1>3. CallOK(sessions[s], approvals', audit', now')
  BY <1>1, <1>2, CallKept
<1>4. CASE sessions'[s] = sessions[s]
  BY <1>3, <1>4
<1>5. CASE sessions'[s] = Idle
  BY <1>5, IdleOK
<1>6. ASSUME NEW state, sessions' = [sessions EXCEPT ![s] = state]
      PROVE  sessions'[s] = state
  BY <1>1, <1>6 DEF TypeOK
<1>7. ASSUME NEW user \in Users, NEW subject \in Subjects, NEW role \in Roles,
             NEW lifetime \in Lifetimes, RequestStart(s, user, subject, role, lifetime)
      PROVE  CallOK(sessions'[s], approvals', audit', now')
  <2>1. PICK state : /\ sessions' = [sessions EXCEPT ![s] = state]
                     /\ state.pc = "expire_stale"
                     /\ state.row.status = "pending"
    <3>. DEFINE deadline == IF lifetime = NoDeadline THEN NoDeadline ELSE now + lifetime
                row == [subject       |-> subject,
                        required_role |-> role,
                        requested_by  |-> user,
                        created_at    |-> 0,
                        expires_at    |-> deadline,
                        status        |-> "pending",
                        approver      |-> Nobody]
                state == [pc |-> "expire_stale", overdue |-> {}, row |-> row]
    <3>1. sessions' = [sessions EXCEPT ![s] = state]
      BY <1>7 DEF RequestStart, Enter
    <3>2. state.pc = "expire_stale" /\ state.row.status = "pending"
      OBVIOUS
    <3>. HIDE DEF state
    <3>. QED
      BY <3>1, <3>2
  <2>. QED
    BY <1>6, <2>1 DEF CallOK
<1>8. ASSUME RequestLoadStale(s)
      PROVE  CallOK(sessions'[s], approvals', audit', now')
  <2>. DEFINE stale == {i \in Pending(sessions[s].row.subject) : Overdue(i)}
  <2>1. sessions[s] \in Requesting
    BY <1>1, <1>8, SessionKinds DEF RequestLoadStale
  <2>2. PICK state : /\ sessions' = [sessions EXCEPT ![s] = state]
                     /\ state.pc \in {"check_pending", "sweep"}
                     /\ state.overdue = stale
                     /\ state.row = sessions[s].row
    <3>. DEFINE pc == IF stale = {} THEN "check_pending" ELSE "sweep"
                state == [sessions[s] EXCEPT !.pc = pc, !.overdue = stale]
    <3>1. sessions' = [sessions EXCEPT ![s] = state]
      BY <1>8 DEF RequestLoadStale, Enter
    <3>2. state.pc = pc /\ state.overdue = stale /\ state.row = sessions[s].row
      BY <2>1 DEF Requesting
    <3>. HIDE DEF state
    <3>. QED
      BY <3>1, <3>2
  <2>3. \A i \in stale : DueAt(approvals[i], now)
    BY DEF Overdue, Due, DueAt
  <2>4. sessions[s].row.status = "pending"
    BY <1>2, <1>8 DEF CallOK, RequestLoadStale
  <2>5. approvals' = approvals /\ now' = now
    BY <1>8 DEF RequestLoadStale
  <2>. HIDE DEF stale
  <2>. QED
    BY <1>6, <2>2, <2>3, <2>4, <2>5 DEF CallOK
<1>9. ASSUME RequestProceed(s)
      PROVE  CallOK(sessions'[s], approvals', audit', now')
  <2>1. sessions[s] \in Requesting
    BY <1>1, <1>9, SessionKinds DEF RequestProceed
  <2>2. PICK state : /\ sessions' = [sessions EXCEPT ![s] = state]
                     /\ state.pc = "insert"
                     /\ state.row.status = sessions[s].row.status
    <3>. DEFINE state == [sessions[s] EXCEPT !.pc = "insert",
                                             !.row.created_at = readings + 1]
    <3>1. sessions' = [sessions EXCEPT ![s] = state]
      BY <1>9 DEF RequestProceed, Enter
    <3>2. state.pc = "insert" /\ state.row.status = sessions[s].row.status
      BY <2>1 DEF Requesting, ApprovalRequest
    <3>. QED
      BY <3>1, <3>2
  <2>3. sessions[s].row.status = "pending"
    BY <1>2, <1>9 DEF CallOK, RequestProceed
  <2>. QED
    BY <1>6, <2>2, <2>3 DEF CallOK
<1>10. ASSUME NEW user \in Users, NEW i \in DOMAIN approvals,
              NEW verdict \in {"approved", "rejected"}, DecideLoad(s, user, i, verdict)
       PROVE  CallOK(sessions'[s], approvals', audit', now')
  <2>1. PICK state : /\ sessions' = [sessions EXCEPT ![s] = state]
                     /\ state.pc = Disposition(i, user)
                     /\ state.user = user
                     /\ state.approval = i
    <3>. DEFINE state == [pc |-> Disposition(i, user), user |-> user,
                          approval |-> i, verdict |-> verdict]
    <3>1. sessions' = [sessions EXCEPT ![s] = state]
      BY <1>10 DEF DecideLoad, Enter
    <3>2. state.pc = Disposition(i, user) /\ state.user = user /\ state.approval = i
      OBVIOUS
    <3>. HIDE DEF state
    <3>. QED
      BY <3>1, <3>2
  <2>2. Disposition(i, user) = "commit_expiry" => DueAt(approvals[i], now)
    BY DEF Disposition, Overdue, Due, DueAt
  <2>3. Disposition(i, user) = "commit_decision" => Qualified(user, approvals[i])
    <3>1. approvals[i] \in ApprovalRequest
      BY <1>1, ElementOfSeq DEF TypeOK
    <3>2. role_rank(RoleOf[user]) \in Nat /\ role_rank(approvals[i].required_role) \in Nat
      BY DEF role_rank
    <3>. QED
      BY <3>2 DEF Disposition, Qualified
  <2>4. /\ approvals' = approvals /\ now' = now
        /\ Disposition(i, user) \in {"commit_expiry", "commit_block", "commit_decision"}
    BY <1>10 DEF DecideLoad, Disposition
  <2>. QED
    BY <1>6, <2>1, <2>2, <2>3, <2>4 DEF CallOK
<1>11. ASSUME NEW user \in Users, NEW subject \in Subjects, GateDeny(s, user, subject)
       PROVE  CallOK(sessions'[s], approvals', audit', now')
  <2>1. PICK state : /\ sessions' = [sessions EXCEPT ![s] = state]
                     /\ state.pc = "denied"
                     /\ \A j \in state.overdue : Overdue(j)
    <3>. DEFINE Denial(ids, i) ==
                  [pc |-> "denied", user |-> user, subject |-> subject,
                   overdue |-> ids, approval |-> i, approver |-> Nobody]
    <3>1. PICK ids, i : /\ sessions' = [sessions EXCEPT ![s] = Denial(ids, i)]
                        /\ \A j \in ids : Overdue(j)
      <4>. DEFINE Dues(i) == IF Overdue(i) THEN {i} ELSE {}
      <4>1. \/ sessions' = [sessions EXCEPT ![s] = Denial({}, 0)]
            \/ \E i \in Latest(subject) :
                  sessions' = [sessions EXCEPT ![s] = Denial(Dues(i), i)]
        BY <1>11 DEF GateDeny, Enter
      <4>2. /\ \A j \in {} : Overdue(j)
            /\ \A i : \A j \in Dues(i) : Overdue(j)
        OBVIOUS
      <4>. HIDE DEF Dues, Denial
      <4>. QED
        BY <4>1, <4>2
    <3>2. Denial(ids, i).pc = "denied" /\ Denial(ids, i).overdue = ids
      OBVIOUS
    <3>. HIDE DEF Denial
    <3>. QED
      BY <3>1, <3>2
  <2>2. \A j \in state.overdue : DueAt(approvals[j], now)
    BY <2>1 DEF Overdue, Due, DueAt
  <2>3. approvals' = approvals /\ now' = now
    BY <1>11 DEF GateDeny
  <2>. QED
    BY <1>6, <2>1, <2>2, <2>3 DEF CallOK
<1>12. ASSUME NEW user \in Users, NEW subject \in Subjects, GateAllow(s, user, subject)
       PROVE  CallOK(sessions'[s], approvals', audit', now')
  <2>1. PICK i, state :
          /\ i \in Latest(subject)
          /\ sessions' = [sessions EXCEPT ![s] = state]
          /\ approvals[i].status = "approved"
          /\ state.pc = "cleared"
          /\ state.subject = subject
          /\ state.approval = i
          /\ state.approver = approvals[i].approver
    <3>. DEFINE Clearance(i) ==
                  [pc |-> "cleared", user |-> user, subject |-> subject,
                   overdue |-> {}, approval |-> i,
                   approver |-> approvals[i].approver]
    <3>1. PICK i \in Latest(subject) :
                 /\ approvals[i].status = "approved"
                 /\ sessions' = [sessions EXCEPT ![s] = Clearance(i)]
      BY <1>12 DEF GateAllow, Enter
    <3>2. /\ Clearance(i).pc = "cleared"
          /\ Clearance(i).subject = subject
          /\ Clearance(i).approval = i
          /\ Clearance(i).approver = approvals[i].approver
      OBVIOUS
    <3>. HIDE DEF Clearance
    <3>. QED
      BY <3>1, <3>2
  <2>2. i \in DOMAIN approvals /\ approvals[i].subject = subject
    BY <2>1 DEF Latest
  <2>3. Qualified(approvals[i].approver, approvals[i])
    BY <2>1, <2>2 DEF Inv, DecidedByQualifiedOther
  <2>4. PICK k \in DOMAIN audit :
          /\ audit[k].approval = i
          /\ audit[k].decision = "approved"
          /\ audit[k].actor = approvals[i].approver
    BY <2>1, <2>2 DEF Inv, TrailMatchesTable, Settles
  <2>5. audit[k] \in AuditEntry
    BY <1>1, ElementOfSeq DEF TypeOK
  <2>6. audit[k] = [decision |-> "approved", approval |-> i,
                    actor |-> approvals[i].approver]
    BY <2>4, <2>5 DEF AuditEntry
  <2>7. approvals' = approvals /\ audit' = audit
    BY <1>12 DEF GateAllow
  <2>. QED
    BY <1>6, <2>1, <2>2, <2>3, <2>6, <2>7 DEF CallOK
<1>13. \/ sessions'[s] = sessions[s]
       \/ sessions'[s] = Idle
       \/ Start(s)
       \/ RequestLoadStale(s) \/ RequestProceed(s)
  <2>1. ASSUME NEW t \in Sessions, Start(t) \/ Continue(t) \/ Abort(t), t # s
        PROVE  sessions'[s] = sessions[s]
    <3>1. \E state : sessions' = [sessions EXCEPT ![t] = state]
      BY <2>1 DEF Start, Continue, Enter, Return, RequestStart, RequestLoadStale,
         RequestConflict, RequestProceed, RequestInsert, RequestSweepConflict,
         RequestSweepInsert, DecideLoad, DecideExpire, DecideBlock, DecideCommit,
         GateDeny, GateAllow, GateCommitDenial, GateProceed, Abort
    <3>. QED
      BY <1>1, <2>1, <3>1 DEF TypeOK
  <2>2. ASSUME Continue(s) \/ Abort(s), ~RequestLoadStale(s), ~RequestProceed(s)
        PROVE  sessions'[s] = Idle
    <3>1. sessions' = [sessions EXCEPT ![s] = Idle]
      BY <2>2 DEF Continue, Enter, Return, RequestConflict, RequestInsert,
         RequestSweepConflict, RequestSweepInsert, DecideExpire, DecideBlock,
         DecideCommit, GateCommitDenial, GateProceed, Abort
    <3>. QED
      BY <1>6, <3>1
  <2>3. Tick \/ UNCHANGED vars => sessions' = sessions
    BY DEF Tick, vars
  <2>. QED
    BY <2>1, <2>2, <2>3 DEF Next
<1>. QED
  BY <1>4, <1>5, <1>7, <1>8, <1>9, <1>10, <1>11, <1>12, <1>13 DEF Start

-----------------------------------------------------------------------------
(* The theorems *)

\* One step of any handler keeps the inductive invariant.
LEMMA InvStep == Inv /\ [Next]_vars => Inv'
<1>1. Inv /\ [Next]_vars => TypeOK'
  BY TypeStep DEF Inv
<1>2. Inv /\ TypeOK' /\ [Next]_vars => Inv'
  BY RowsSafe, TrailSafe, CallsSafe DEF Inv
<1>. QED
  BY <1>1, <1>2

\* It holds at first.
LEMMA InvInit == Init => Inv
<1> SUFFICES ASSUME Init
             PROVE  Inv
  OBVIOUS
<1>1. TypeOK
  BY DEF Init, TypeOK, SessionState, Idle
<1>2. DOMAIN approvals = {}
  BY DEF Init
<1>3. CallsOK
  BY IdleOK DEF Init, CallsOK
<1>. QED
  BY <1>1, <1>2, <1>3 DEF Inv, DecidedByQualifiedOther, ExpiredOnlyWhenDue,
     TrailMatchesTable

\* The inductive invariant holds of every behaviour of the workflow.
THEOREM Invariance == Spec => []Inv
<1>. QED
  BY InvInit, InvStep, PTL DEF Spec

\* No approval is ever decided by its requester or by a user whose role ranks
\* too low, however many requests run at once (decide).
THEOREM DecisionsAreQualified == Spec => []DecidedByQualifiedOther
<1>1. Inv => DecidedByQualifiedOther
  BY DEF Inv
<1>. QED
  BY <1>1, Invariance, PTL

\* Only an approval whose deadline has passed is expired (expire_if_needed).
THEOREM ExpiryIsJustified == Spec => []ExpiredOnlyWhenDue
<1>1. Inv => ExpiredOnlyWhenDue
  BY DEF Inv
<1>. QED
  BY <1>1, Invariance, PTL

\* The status of every approval is the one the audit trail logged last.
THEOREM TrailIsFaithful == Spec => []TrailMatchesTable
<1>1. Inv => TrailMatchesTable
  BY DEF Inv
<1>. QED
  BY <1>1, Invariance, PTL

\* Whoever passes the execution gate acts on a recorded approval of the same
\* subject by a qualified person (evaluate_execution_gate).
THEOREM GateIsSound == Spec => []ClearedByRecordedApproval
<1>1. Inv => ClearedByRecordedApproval
  BY DEF Inv, CallsOK, CallOK, ClearedByRecordedApproval
<1>. QED
  BY <1>1, Invariance, PTL

-----------------------------------------------------------------------------
(* Requests served one at a time: what a request loaded is still so when it   *)
(* writes, since no other request moved meanwhile.                            *)

\* What the session `state` loaded, and nobody else has changed.
Fresh(state) ==
    /\ state.pc = "insert" =>
          /\ Pending(state.row.subject) = {}
          /\ state.row.created_at <= readings
          /\ \A i \in DOMAIN approvals : approvals[i].created_at < state.row.created_at
    /\ state.pc = "sweep" => state.overdue \subseteq Pending(state.row.subject)
    /\ state.pc \in {"commit_expiry", "commit_decision"}
          => approvals[state.approval].status = "pending"
    /\ state.pc = "denied" => \A i \in state.overdue : approvals[i].status = "pending"
    /\ state.pc = "cleared" =>
          /\ state.approval \in Latest(state.subject)
          /\ approvals[state.approval].status = "approved"

\* An open decision is the latest request about its subject.
OpenIsLatest ==
    \A subject \in Subjects :
        \A i \in Pending(subject) : Latest(subject) = {i}

\* Every stamp was read from the clock.
Stamped == \A i \in DOMAIN approvals : approvals[i].created_at <= readings

SerialInv ==
    /\ Inv
    /\ OpenIsLatest
    /\ Stamped
    /\ \A s \in Sessions : Fresh(sessions[s])

\* The one request in progress takes a step: every other session is idle.
LEMMA OthersAreIdle ==
    ASSUME TypeOK, OneAtATime, OneAtATime', NEW s \in Sessions, NEW state, Enter(s, state),
           sessions[s] # Idle \/ state # Idle
    PROVE  /\ sessions'[s] = state
           /\ \A t \in Sessions : t # s => sessions'[t] = Idle
<1>1. sessions'[s] = state /\ \A t \in Sessions : t # s => sessions'[t] = sessions[t]
  BY DEF TypeOK, Enter
<1>2. QED
  BY <1>1 DEF OneAtATime

\* What was stamped before a reading of the clock was stamped before the next.
LEMMA LaterReading ==
    ASSUME TypeOK, readings' \in {readings, readings + 1}, NEW i \in DOMAIN approvals,
           approvals[i].created_at <= readings
    PROVE  approvals[i].created_at <= readings' /\ approvals[i].created_at < readings + 1
<1>1. approvals[i] \in ApprovalRequest
  BY ElementOfSeq DEF TypeOK
<1>2. approvals[i].created_at \in Nat /\ readings \in Nat
  BY <1>1 DEF ApprovalRequest, TypeOK
<1>3. QED
  BY <1>2

\* A step that only loads rows leaves what it loaded fresh.
LEMMA LoadsAreFresh ==
    ASSUME SerialInv, OneAtATime, OneAtATime', [Next]_vars, UNCHANGED approvals,
           readings' \in {readings, readings + 1},
           NEW s \in Sessions, NEW state, Enter(s, state),
           sessions[s] # Idle \/ state # Idle, Fresh(state)'
    PROVE  SerialInv'
<1>1. Inv'
  BY InvStep DEF SerialInv
<1>2. OpenIsLatest'
  BY DEF SerialInv, OpenIsLatest, Pending, Latest
<1>3. Stamped'
  BY LaterReading DEF SerialInv, Inv, Stamped
<1>4. \A t \in Sessions : sessions'[t] = state \/ sessions'[t] = Idle
  BY OthersAreIdle DEF SerialInv, Inv
<1>5. \A t \in Sessions : Fresh(sessions[t])'
  <2> SUFFICES ASSUME NEW t \in Sessions PROVE Fresh(sessions[t])'
    OBVIOUS
  <2>1. CASE sessions'[t] = state
    BY <2>1 DEF Fresh, Pending, Latest
  <2>2. CASE sessions'[t] = Idle
    BY <2>2 DEF Fresh, Idle
  <2>3. QED
    BY <1>4, <2>1, <2>2
<1>6. QED
  BY <1>1, <1>2, <1>3, <1>5 DEF SerialInv

\* A request that ends leaves nobody in progress.
LEMMA ReturnsAreFresh ==
    ASSUME SerialInv, OneAtATime, OneAtATime', [Next]_vars,
           NEW s \in Sessions, sessions[s] # Idle, Return(s), OpenIsLatest', Stamped'
    PROVE  SerialInv'
<1>1. Inv'
  BY InvStep DEF SerialInv
<1>2. \A t \in Sessions : sessions'[t] = Idle
  BY OthersAreIdle DEF SerialInv, Inv, Return
<1>3. \A t \in Sessions : Fresh(sessions[t])'
  BY <1>2 DEF Fresh, Idle
<1>4. QED
  BY <1>1, <1>3 DEF SerialInv

LEMMA ExpiredRows ==
    ASSUME NEW ids
    PROVE  DOMAIN Expired(ids) = DOMAIN approvals
BY DEF Expired

\* Rows that keep their subject and stamp and do not become pending open no
\* decision.
LEMMA OpenedByNobody ==
    ASSUME OpenIsLatest, DOMAIN approvals' = DOMAIN approvals,
           \A i \in DOMAIN approvals :
              /\ approvals'[i].subject = approvals[i].subject
              /\ approvals'[i].created_at = approvals[i].created_at
              /\ approvals'[i].status = "pending" => approvals[i].status = "pending"
    PROVE  OpenIsLatest'
<1>1. \A subject : Pending(subject)' \subseteq Pending(subject)
  BY DEF Pending
<1>2. \A subject : Latest(subject)' = Latest(subject)
  BY DEF Latest
<1>3. QED
  BY <1>1, <1>2 DEF OpenIsLatest

\* A row stamped last for a subject without a pending one opens the only one.
LEMMA OpenedByRequest ==
    ASSUME OpenIsLatest, Stamped, NEW table \in Seq(ApprovalRequest),
           NEW row \in ApprovalRequest,
           approvals' = Append(table, row), DOMAIN table = DOMAIN approvals,
           readings' \in Nat, row.created_at <= readings',
           \A i \in DOMAIN approvals :
              /\ table[i].subject = approvals[i].subject
              /\ table[i].created_at = approvals[i].created_at
              /\ table[i].created_at < row.created_at
              /\ table[i].status = "pending" =>
                    approvals[i].status = "pending" /\ approvals[i].subject # row.subject
    PROVE  OpenIsLatest' /\ Stamped' /\ Latest(row.subject)' = {Len(table) + 1}
<1> DEFINE new == Len(table) + 1
<1>1. /\ DOMAIN approvals' = DOMAIN approvals \cup {new} /\ new \notin DOMAIN approvals
      /\ approvals'[new] = row
      /\ \A k \in DOMAIN approvals : approvals'[k] = table[k]
  OBVIOUS
<1>2. /\ row.created_at \in Nat
      /\ \A k \in DOMAIN approvals : table[k].created_at \in Nat
  <2>1. \A k \in DOMAIN approvals : table[k] \in ApprovalRequest
    BY ElementOfSeq
  <2>2. QED
    BY <2>1 DEF ApprovalRequest
<1> HIDE DEF new
<1>3. \A k \in DOMAIN approvals' : approvals'[k].created_at <= row.created_at
  BY <1>1, <1>2
<1>4. Stamped'
  BY <1>1, <1>2 DEF Stamped
<1>5. Latest(row.subject)' = {new}
  BY <1>1, <1>2 DEF Latest
<1>6. \A subject : subject # row.subject => Latest(subject)' = Latest(subject)
  BY <1>1 DEF Latest
<1>7. \A subject : \A k \in Pending(subject)' :
         \/ k = new /\ row.subject = subject
         \/ k \in Pending(subject) /\ row.subject # subject
  BY <1>1 DEF Pending
<1>8. OpenIsLatest'
  BY <1>5, <1>6, <1>7 DEF OpenIsLatest
<1>9. QED
  BY <1>4, <1>5, <1>8 DEF new

\* A request that is filed becomes the latest about its subject, and whatever
\* else it changes was an open request about that subject.
Opens(subject) ==
    LET new == Len(approvals) + 1
    IN  /\ OpenIsLatest' /\ Stamped'
        /\ Latest(subject)' = {new}
        /\ approvals'[new].status = "pending"
        /\ approvals'[new].subject = subject
        /\ DOMAIN approvals' = DOMAIN approvals \cup {new}
        /\ \A i \in DOMAIN approvals :
              /\ approvals'[i].subject = approvals[i].subject
              /\ approvals'[i].created_at = approvals[i].created_at
              /\ approvals'[i] # approvals[i] =>
                    /\ approvals[i].status = "pending"
                    /\ approvals[i].subject = subject

LEMMA OpeningRequest ==
    ASSUME SerialInv, NEW s \in Sessions, RequestInsert(s) \/ RequestSweepInsert(s),
           NEW subject, subject = sessions[s].row.subject
    PROVE  Opens(subject)
<1>1. /\ TypeOK /\ CallsOK /\ OpenIsLatest /\ Stamped /\ Len(approvals) \in Nat
      /\ DOMAIN approvals = 1..Len(approvals)
  BY DEF SerialInv, Inv, TypeOK
<1>2. CASE RequestInsert(s)
  <2> PICK row : row = sessions[s].row
    OBVIOUS
  <2>1. row \in ApprovalRequest /\ approvals' = Append(approvals, row) /\ readings' = readings
    BY <1>1, <1>2, InsertFacts DEF RequestInsert
  <2>2. /\ Pending(row.subject) = {}
        /\ row.created_at <= readings
        /\ \A i \in DOMAIN approvals : approvals[i].created_at < row.created_at
    BY <1>2 DEF SerialInv, Fresh, RequestInsert
  <2>3. row.status = "pending"
    BY <1>1, <1>2 DEF CallsOK, CallOK, RequestInsert
  <2>4. \A i \in DOMAIN approvals : approvals[i].status = "pending" =>
                                       approvals[i].subject # row.subject
    BY <2>2 DEF Pending
  <2>5. OpenIsLatest' /\ Stamped' /\ Latest(row.subject)' = {Len(approvals) + 1}
    BY <1>1, <2>1, <2>2, <2>4, OpenedByRequest DEF TypeOK
  <2>6. /\ DOMAIN approvals' = DOMAIN approvals \cup {Len(approvals) + 1}
        /\ approvals'[Len(approvals) + 1] = row
        /\ \A i \in DOMAIN approvals : approvals'[i] = approvals[i]
    BY <1>1, <2>1 DEF TypeOK
  <2>7. QED
    BY <2>3, <2>5, <2>6 DEF Opens
<1>3. CASE RequestSweepInsert(s)
  <2> PICK overdue : overdue = sessions[s].overdue
    OBVIOUS
  <2>1. PICK row \in ApprovalRequest :
           /\ row.status = sessions[s].row.status
           /\ row.created_at = readings + 1
           /\ SameTerms(row, sessions[s].row)
           /\ approvals' = Append(Expired(overdue), row)
    BY <1>1, <1>3, SweepFacts
  <2>2. /\ Pending(subject) \subseteq overdue /\ overdue \subseteq Pending(subject)
        /\ readings' = readings + 1 /\ readings \in Nat
    BY <1>1, <1>3 DEF RequestSweepInsert, SerialInv, Fresh, TypeOK
  <2>3. row.status = "pending" /\ row.subject = subject
    BY <1>1, <1>3, <2>1 DEF CallsOK, CallOK, RequestSweepInsert, SameTerms
  <2> PICK table : table = Expired(overdue)
    OBVIOUS
  <2>4. /\ table \in Seq(ApprovalRequest)
        /\ DOMAIN table = DOMAIN approvals
        /\ Len(table) = Len(approvals)
        /\ \A i \in DOMAIN approvals :
              /\ table[i].subject = approvals[i].subject
              /\ table[i].created_at = approvals[i].created_at
              /\ i \notin overdue => table[i] = approvals[i]
              /\ i \in overdue => table[i].status = "expired"
    BY <1>1, ExpiredType, ExpiredRows DEF TypeOK, SameTerms
  <2>5. approvals' = Append(table, row)
    BY <2>1
  <2>6. \A i \in DOMAIN approvals :
           /\ table[i].created_at < row.created_at
           /\ table[i].status = "pending" =>
                 approvals[i].status = "pending" /\ approvals[i].subject # row.subject
    <3>1. \A i \in DOMAIN approvals : approvals[i].created_at < readings + 1
      BY <1>1, <2>2, LaterReading DEF Stamped
    <3>2. QED
      BY <2>1, <2>2, <2>3, <2>4, <3>1 DEF Pending
  <2>7. OpenIsLatest' /\ Stamped' /\ Latest(row.subject)' = {Len(table) + 1}
    <3>1. readings' \in Nat /\ row.created_at <= readings'
      BY <2>1, <2>2
    <3>2. /\ OpenIsLatest /\ Stamped
          /\ table \in Seq(ApprovalRequest) /\ DOMAIN table = DOMAIN approvals
      BY <1>1, <2>4
    <3>3. \A i \in DOMAIN approvals :
             /\ table[i].subject = approvals[i].subject
             /\ table[i].created_at = approvals[i].created_at
             /\ table[i].created_at < row.created_at
             /\ table[i].status = "pending" =>
                   approvals[i].status = "pending" /\ approvals[i].subject # row.subject
      BY <2>4, <2>6
    <3>4. QED
      BY <2>5, <3>1, <3>2, <3>3, OpenedByRequest
  <2>8. /\ DOMAIN approvals' = DOMAIN approvals \cup {Len(table) + 1}
        /\ approvals'[Len(table) + 1] = row
        /\ \A i \in DOMAIN approvals : approvals'[i] = table[i]
    BY <2>4, <2>5
  <2>9. \A i \in DOMAIN approvals : approvals'[i] # approvals[i] =>
           approvals[i].status = "pending" /\ approvals[i].subject = subject
    BY <2>2, <2>4, <2>8 DEF Pending
  <2>10. QED
    BY <2>3, <2>4, <2>7, <2>8, <2>9 DEF Opens
<1>4. QED
  BY <1>2, <1>3

LEMMA SerialInvStep ==
    ASSUME SerialInv, OneAtATime, OneAtATime', [Next]_vars
    PROVE  SerialInv'
<1>1. TypeOK /\ CallsOK /\ OpenIsLatest /\ Stamped
  BY DEF SerialInv, Inv
<1>2. CASE Tick \/ UNCHANGED vars
  <2>1. UNCHANGED <<approvals, sessions, readings>>
    BY <1>2 DEF Tick, vars
  <2>2. Inv'
    BY InvStep DEF SerialInv
  <2>3. QED
    BY <2>1, <2>2 DEF SerialInv, OpenIsLatest, Stamped, Fresh, Pending, Latest
<1>3. ASSUME NEW s \in Sessions, Start(s)
      PROVE  SerialInv'
  <2>1. UNCHANGED <<approvals, readings>>
    BY <1>3 DEF Start, RequestStart, DecideLoad, GateDeny, GateAllow
  <2>2. PICK state : Enter(s, state) /\ state # Idle /\ Fresh(state)
    <3>1. ASSUME NEW user \in Users, NEW subject \in Subjects, NEW role \in Roles,
                 NEW lifetime \in Lifetimes, RequestStart(s, user, subject, role, lifetime)
          PROVE  \E state : Enter(s, state) /\ state # Idle /\ Fresh(state)
      BY <3>1 DEF RequestStart, Fresh, Idle
    <3>2. ASSUME NEW user \in Users, NEW i \in DOMAIN approvals,
                 NEW verdict \in {"approved", "rejected"}, DecideLoad(s, user, i, verdict)
          PROVE  \E state : Enter(s, state) /\ state # Idle /\ Fresh(state)
      <4> DEFINE state == [pc |-> Disposition(i, user), user |-> user, approval |-> i,
                           verdict |-> verdict]
      <4>1. Disposition(i, user) \in {"commit_expiry", "commit_block", "commit_decision"}
        BY <3>2 DEF DecideLoad, Disposition
      <4>2. Disposition(i, user) # "commit_block" => approvals[i].status = "pending"
        BY <3>2 DEF DecideLoad, Disposition, Overdue
      <4>3. state # Idle
        BY <4>1 DEF Idle
      <4>4. Fresh(state)
        BY <4>1, <4>2 DEF Fresh
      <4>5. Enter(s, state)
        BY <3>2 DEF DecideLoad
      <4>6. QED
        BY <4>3, <4>4, <4>5
    <3>3. ASSUME NEW user \in Users, NEW subject \in Subjects, GateDeny(s, user, subject)
          PROVE  \E state : Enter(s, state) /\ state # Idle /\ Fresh(state)
      <4>1. CASE Enter(s, [pc |-> "denied", user |-> user, subject |-> subject,
                           overdue |-> {}, approval |-> 0, approver |-> Nobody])
        BY <4>1 DEF Fresh, Idle
      <4>2. ASSUME NEW i \in Latest(subject),
                   Enter(s, [pc |-> "denied", user |-> user, subject |-> subject,
                             overdue |-> IF Overdue(i) THEN {i} ELSE {},
                             approval |-> i, approver |-> Nobody])
            PROVE  \E state : Enter(s, state) /\ state # Idle /\ Fresh(state)
        BY <4>2 DEF Fresh, Idle, Overdue
      <4>3. QED
        BY <3>3, <4>1, <4>2 DEF GateDeny
    <3>4. ASSUME NEW user \in Users, NEW subject \in Subjects, GateAllow(s, user, subject)
          PROVE  \E state : Enter(s, state) /\ state # Idle /\ Fresh(state)
      BY <3>4 DEF GateAllow, Fresh, Idle
    <3>5. QED
      BY <1>3, <3>1, <3>2, <3>3, <3>4 DEF Start
  <2>3. Fresh(state)'
    BY <2>1, <2>2 DEF Fresh, Pending, Latest
  <2>4. QED
    BY <2>1, <2>2, <2>3, LoadsAreFresh
<1>4. ASSUME NEW s \in Sessions, RequestLoadStale(s) \/ RequestProceed(s)
      PROVE  SerialInv'
  <2>1. /\ approvals' = approvals /\ readings' \in {readings, readings + 1}
        /\ sessions[s] # Idle /\ sessions[s] \in Requesting
    BY <1>1, <1>4, SessionKinds DEF RequestLoadStale, RequestProceed, Idle
  <2>2. PICK state : Enter(s, state) /\ Fresh(state)'
    <3>1. CASE RequestLoadStale(s)
      <4> PICK stale : stale = {i \in Pending(sessions[s].row.subject) : Overdue(i)}
        OBVIOUS
      <4> PICK state : state = [sessions[s] EXCEPT
                                   !.pc = IF stale = {} THEN "check_pending" ELSE "sweep",
                                   !.overdue = stale]
        OBVIOUS
      <4>1. Enter(s, state)
        BY <3>1 DEF RequestLoadStale
      <4>2. /\ state.row = sessions[s].row
            /\ state.overdue = stale
            /\ state.pc \in {"check_pending", "sweep"}
        BY <2>1 DEF Requesting
      <4>3. stale \subseteq Pending(sessions[s].row.subject)
        OBVIOUS
      <4>4. Fresh(state)'
        BY <2>1, <4>2, <4>3 DEF Fresh, Pending
      <4>5. QED
        BY <4>1, <4>4
    <3>2. CASE RequestProceed(s)
      <4> PICK state : state = [sessions[s] EXCEPT !.pc = "insert",
                                                   !.row.created_at = readings + 1]
        OBVIOUS
      <4>1. Enter(s, state)
        BY <3>2 DEF RequestProceed
      <4>2. /\ state.pc = "insert" /\ state.row.subject = sessions[s].row.subject
            /\ state.row.created_at = readings + 1
        BY <2>1 DEF Requesting, ApprovalRequest
      <4>3. \A i \in DOMAIN approvals : approvals[i].created_at < readings + 1
        BY <1>1, <2>1, LaterReading DEF Stamped
      <4>4. readings' = readings + 1 /\ readings \in Nat
        BY <1>1, <3>2 DEF RequestProceed, TypeOK
      <4>5. Fresh(state)'
        BY <2>1, <3>2, <4>2, <4>3, <4>4 DEF Fresh, RequestProceed, Pending
      <4>6. QED
        BY <4>1, <4>5
    <3>3. QED
      BY <1>4, <3>1, <3>2
  <2>3. QED
    BY <2>1, <2>2, LoadsAreFresh
<1>5. ASSUME NEW s \in Sessions,
             \/ RequestConflict(s) \/ RequestSweepConflict(s) \/ DecideBlock(s)
             \/ GateProceed(s) \/ Abort(s)
      PROVE  SerialInv'
  <2>1. Return(s) /\ UNCHANGED <<approvals, readings>> /\ sessions[s] # Idle
    BY <1>5 DEF RequestConflict, RequestSweepConflict, DecideBlock, GateProceed, Abort, Idle
  <2>2. OpenIsLatest' /\ Stamped'
    BY <1>1, <2>1 DEF OpenIsLatest, Stamped, Pending, Latest
  <2>3. QED
    BY <2>1, <2>2, ReturnsAreFresh
<1>6. ASSUME NEW s \in Sessions, RequestInsert(s) \/ RequestSweepInsert(s)
      PROVE  SerialInv'
  <2>1. PICK subject : subject = sessions[s].row.subject
    OBVIOUS
  <2>2. OpenIsLatest' /\ Stamped'
    BY <1>6, <2>1, OpeningRequest DEF Opens
  <2>3. Return(s) /\ sessions[s] # Idle
    BY <1>6 DEF RequestInsert, RequestSweepInsert, Idle
  <2>4. QED
    BY <2>2, <2>3, ReturnsAreFresh
<1>7. ASSUME NEW s \in Sessions, DecideExpire(s) \/ GateCommitDenial(s) \/ DecideCommit(s)
      PROVE  SerialInv'
  <2> DEFINE Kept == /\ DOMAIN approvals' = DOMAIN approvals
                     /\ \A i \in DOMAIN approvals :
                           /\ approvals'[i].subject = approvals[i].subject
                           /\ approvals'[i].created_at = approvals[i].created_at
                           /\ approvals'[i].status = "pending"
                                 => approvals[i].status = "pending"
  <2>1. Kept
    <3>1. ASSUME NEW ids, approvals' = Expired(ids)
          PROVE  Kept
      BY <1>1, <3>1, ExpiredType, ExpiredRows DEF TypeOK, SameTerms
    <3>2. ASSUME NEW i \in DOMAIN approvals, NEW user \in Users,
                 NEW verdict \in {"approved", "rejected"}, approvals' = Decided(i, user, verdict)
          PROVE  Kept
      <4>1. DOMAIN Decided(i, user, verdict) = DOMAIN approvals
        BY DEF Decided
      <4>2. QED
        BY <1>1, <3>2, <4>1, DecidedType DEF TypeOK, SameTerms
    <3>3. CASE DecideExpire(s) \/ GateCommitDenial(s)
      BY <3>1, <3>3 DEF DecideExpire, GateCommitDenial, CommitExpiry
    <3>4. CASE DecideCommit(s)
      BY <1>1, <3>2, <3>4, DecisionFacts
    <3>5. QED
      BY <1>7, <3>3, <3>4
  <2>2. OpenIsLatest'
    BY <1>1, <2>1, OpenedByNobody
  <2>3. Return(s) /\ sessions[s] # Idle /\ readings' = readings
    BY <1>7 DEF DecideExpire, GateCommitDenial, DecideCommit, Idle
  <2>4. Stamped'
    BY <1>1, <2>1, <2>3 DEF Stamped
  <2>5. QED
    BY <2>2, <2>3, <2>4, ReturnsAreFresh
<1>8. QED
  BY <1>2, <1>3, <1>4, <1>5, <1>6, <1>7 DEF Next, Continue

LEMMA SerialInvInit == Init => SerialInv
<1> SUFFICES ASSUME Init PROVE SerialInv
  OBVIOUS
<1>1. Inv
  BY InvInit
<1>2. approvals = <<>> /\ \A s \in Sessions : sessions[s] = Idle
  BY DEF Init
<1>3. QED
  BY <1>1, <1>2 DEF SerialInv, OpenIsLatest, Stamped, Pending, Fresh, Idle

\* In a behaviour in which no two requests overlap, no two decisions are open
\* for the same subject (ApprovalWorkflowService).
THEOREM DecisionsOpenOneByOne == Spec /\ []OneAtATime => []OneOpenDecision
<1>1. Spec /\ []OneAtATime => []SerialInv
  BY SerialInvInit, SerialInvStep, PTL DEF Spec
<1>2. SerialInv => OneOpenDecision
  BY DEF SerialInv, OpenIsLatest, OneOpenDecision
<1>3. QED
  BY <1>1, <1>2, PTL

LEMMA SettledRowsStay ==
    ASSUME SerialInv, [Next]_vars
    PROVE  \A i \in DOMAIN approvals :
              approvals[i].status # "pending" => approvals'[i] = approvals[i]
<1>1. TypeOK
  BY DEF SerialInv, Inv
<1>2. CASE UNCHANGED <<approvals, audit>>
  BY <1>2
<1>3. ASSUME NEW s \in Sessions, RequestInsert(s)
      PROVE  \A i \in DOMAIN approvals : approvals'[i] = approvals[i]
  BY <1>1, <1>3, InsertFacts, AppendKeeps DEF TypeOK
<1>4. ASSUME NEW s \in Sessions, RequestSweepInsert(s)
      PROVE  \A i \in DOMAIN approvals :
                approvals[i].status # "pending" => approvals'[i] = approvals[i]
  <2> DEFINE overdue == sessions[s].overdue
  <2>1. PICK row \in ApprovalRequest : approvals' = Append(Expired(overdue), row)
    BY <1>1, <1>4, SweepFacts
  <2>2. \A i \in overdue : approvals[i].status = "pending"
    BY <1>4 DEF RequestSweepInsert, SerialInv, Fresh, Pending
  <2>3. Expired(overdue) \in Seq(ApprovalRequest) /\ DOMAIN Expired(overdue) = DOMAIN approvals
    BY <1>1, ExpiredType, ExpiredRows DEF TypeOK
  <2>4. \A i \in DOMAIN approvals : approvals'[i] = Expired(overdue)[i]
    BY <2>1, <2>3, AppendKeeps
  <2>5. QED
    BY <1>1, <2>2, <2>4, ExpiredType DEF TypeOK
<1>5. ASSUME NEW s \in Sessions, DecideExpire(s) \/ GateCommitDenial(s)
      PROVE  \A i \in DOMAIN approvals :
                approvals[i].status # "pending" => approvals'[i] = approvals[i]
  <2>1. PICK ids \in SUBSET DOMAIN approvals :
           /\ ids = IF sessions[s].pc = "denied" THEN sessions[s].overdue
                                                ELSE {sessions[s].approval}
           /\ sessions[s].pc \in {"denied", "commit_expiry"}
           /\ approvals' = Expired(ids)
    BY <1>1, <1>5, ExpiryFacts DEF CommitExpiry
  <2>2. \A i \in ids : approvals[i].status = "pending"
    BY <2>1 DEF SerialInv, Fresh
  <2>3. QED
    BY <1>1, <2>1, <2>2, ExpiredType DEF TypeOK
<1>6. ASSUME NEW s \in Sessions, DecideBlock(s)
      PROVE  approvals' = approvals
  BY <1>6 DEF DecideBlock
<1>7. ASSUME NEW s \in Sessions, DecideCommit(s)
      PROVE  \A i \in DOMAIN approvals :
                approvals[i].status # "pending" => approvals'[i] = approvals[i]
  <2>1. PICK i \in DOMAIN approvals, user \in Users, verdict \in {"approved", "rejected"} :
           /\ i = sessions[s].approval
           /\ sessions[s].pc = "commit_decision"
           /\ approvals' = Decided(i, user, verdict)
    BY <1>1, <1>7, DecisionFacts
  <2>2. approvals[i].status = "pending"
    BY <2>1 DEF SerialInv, Fresh
  <2>3. QED
    BY <1>1, <2>1, <2>2, DecidedType DEF TypeOK
<1>8. QED
  BY <1>2, <1>3, <1>4, <1>5, <1>6, <1>7, WritingSteps

\* And what was decided or expired is never decided again (decide).
THEOREM DecisionsStand == Spec /\ []OneAtATime => DecisionsAreFinal
<1>1. Spec /\ []OneAtATime => []SerialInv
  BY SerialInvInit, SerialInvStep, PTL DEF Spec
<1>2. SerialInv /\ [Next]_vars =>
         [\A i \in DOMAIN approvals :
             approvals[i].status # "pending" => approvals'[i] = approvals[i]]_vars
  BY SettledRowsStay
<1>3. QED
  BY <1>1, <1>2, PTL DEF Spec, DecisionsAreFinal
=============================================================================
