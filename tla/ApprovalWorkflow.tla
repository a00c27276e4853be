-------------------------- MODULE ApprovalWorkflow --------------------------
(***************************************************************************)
(* The human approval workflow of seclab-core (security/approval.py) as it *)
(* runs behind the gateway: several HTTP requests at once, each in a       *)
(* thread of its own with a database session of its own, over the tables   *)
(* approval_requests and audit_logs.                                       *)
(*                                                                         *)
(* A session reads committed rows without any lock, and its first write    *)
(* takes the database's single write lock, which it keeps until it commits *)
(* or rolls back.  So a handler is one action per unlocked read followed   *)
(* by one action for everything it does from its first write to its        *)
(* commit; the rows it loaded in between may be stale by then.             *)
(***************************************************************************)
EXTENDS Integers, FiniteSets, Sequences, SequencesExt

CONSTANTS
    Users,        \* usernames
    RoleOf,       \* the role in each user's row
    Subjects,     \* the (subject_type, subject_id) pairs under review
    Sessions,     \* requests that may be in progress at the same time
    Lifetimes,    \* the values of expires_in_minutes that a request carries
    NoDeadline,   \* expires_at is None (in Lifetimes: no expiry was asked for)
    Nobody,       \* approver is None
    System,       \* the actor of an expiry in the audit trail
    MaxTime,      \* bound: the last reading of the coarse clock
    MaxRequests,  \* bound: no approval is requested after this many insertions
    MaxAudit      \* bound: no handler starts once the trail is this long

Roles == {"analyst", "security_lead"}

ASSUME UsersAssumption ==
    /\ RoleOf \in [Users -> Roles]
    /\ Nobody \notin Users
    /\ System \notin Users

ASSUME TimeAssumption ==
    /\ NoDeadline \notin Nat
    /\ Lifetimes \subseteq (Nat \ {0}) \cup {NoDeadline}

VARIABLES
    now,        \* the clock that deadlines are compared with
    readings,   \* how many created_at stamps the clock has given out
    approvals,  \* table approval_requests: a row's id is its index
    audit,      \* table audit_logs, in commit order
    sessions    \* what each request holds in its session

vars == <<now, readings, approvals, audit, sessions>>

-----------------------------------------------------------------------------
(* Types *)

role_rank(role) == IF role = "analyst" THEN 1 ELSE 2

ApprovalStatus == {"pending", "approved", "rejected", "expired"}

ApprovalRequest ==
    [subject       : Subjects,
     required_role : Roles,
     requested_by  : Users,
     created_at    : Nat,
     expires_at    : Nat \cup {NoDeadline},
     status        : ApprovalStatus,
     approver      : Users \cup {Nobody}]

\* `approval` is the row an entry is about.  The log itself stores the row's
\* id for a decision only, and the subject otherwise.
AuditEntry ==
    [decision : ApprovalStatus \cup {"blocked"},
     approval : Nat,
     actor    : Users \cup {System}]

\* What a request holds in its session between two steps; it refers to rows
\* by id, and rows are never deleted.
Idle == [pc |-> "idle"]

Requesting ==
    [pc      : {"expire_stale", "check_pending", "insert", "sweep"},
     row     : ApprovalRequest,
     overdue : SUBSET DOMAIN approvals]

Deciding ==
    [pc       : {"commit_expiry", "commit_block", "commit_decision"},
     user     : Users,
     approval : DOMAIN approvals,
     verdict  : {"approved", "rejected"}]

AtGate ==
    [pc       : {"denied", "cleared"},
     user     : Users,
     subject  : Subjects,
     overdue  : SUBSET DOMAIN approvals,
     approval : DOMAIN approvals \cup {0},
     approver : Users \cup {Nobody}]

SessionState == {Idle} \cup Requesting \cup Deciding \cup AtGate

TypeOK ==
    /\ now \in Nat
    /\ readings \in Nat
    /\ approvals \in Seq(ApprovalRequest)
    /\ audit \in Seq(AuditEntry)
    /\ sessions \in [Sessions -> SessionState]

Init ==
    /\ now = 0
    /\ readings = 0
    /\ approvals = <<>>
    /\ audit = <<>>
    /\ sessions = [s \in Sessions |-> Idle]

-----------------------------------------------------------------------------
(* Reading and updating the table *)

Pending(subject) ==
    {i \in DOMAIN approvals : /\ approvals[i].subject = subject
                              /\ approvals[i].status = "pending"}

\* What expire_if_needed tests on a row it is given.
Due(row) ==
    /\ row.expires_at # NoDeadline
    /\ row.expires_at <= now

\* Mutant: the deadline is not compared with the clock.
Overdue_NoClock(i) ==
    approvals[i].status = "pending" /\ approvals[i].expires_at # NoDeadline

Overdue(i) == approvals[i].status = "pending" /\ Due(approvals[i])

\* The first row of the query ordered by desc(created_at).
Latest(subject) ==
    {i \in DOMAIN approvals :
        /\ approvals[i].subject = subject
        /\ \A j \in DOMAIN approvals :
              approvals[j].subject = subject
                  => approvals[j].created_at <= approvals[i].created_at}

\* The update that expire_if_needed writes, for each row of the set.  It goes
\* by primary key, whatever the row holds by the time it is written.
Expired(ids) ==
    [i \in DOMAIN approvals |->
        IF i \in ids THEN [approvals[i] EXCEPT !.status = "expired"]
                     ELSE approvals[i]]

ExpiryEntry(i) == [decision |-> "expired", approval |-> i, actor |-> System]

\* The query that loads the rows has no ORDER BY, so the entries of rows that
\* expire together may come in any order.
ExpiryEntries(ids) ==
    {[k \in DOMAIN order |-> ExpiryEntry(order[k])] : order \in SetToSeqs(ids)}

\* Mutant: the expiry is committed without its entries in the trail.
CommitExpiry_Unlogged(ids) == approvals' = Expired(ids) /\ UNCHANGED audit

CommitExpiry(ids) ==
    /\ approvals' = Expired(ids)
    /\ \E entries \in ExpiryEntries(ids) : audit' = audit \o entries

-----------------------------------------------------------------------------
(* One step of a session *)

Enter(s, state) == sessions' = [sessions EXCEPT ![s] = state]

Return(s) == Enter(s, Idle)

Free(s) ==
    /\ sessions[s] = Idle
    /\ Len(audit) < MaxAudit

-----------------------------------------------------------------------------
(* ApprovalWorkflowService.request, then the caller's commit *)

RequestStart(s, user, subject, role, lifetime) ==
    /\ Free(s)
    /\ readings < MaxRequests
    /\ Enter(s, [pc      |-> "expire_stale",
                 overdue |-> {},
                 row     |-> [subject       |-> subject,
                              required_role |-> role,
                              requested_by  |-> user,
                              created_at    |-> 0,
                              expires_at    |-> IF lifetime = NoDeadline
                                                THEN NoDeadline
                                                ELSE now + lifetime,
                              status        |-> "pending",
                              approver      |-> Nobody]])
    /\ UNCHANGED <<now, readings, approvals, audit>>

\* expire_pending_for_subject loads the pending rows.  When none is overdue it
\* writes nothing and the session still holds no lock.
RequestLoadStale(s) ==
    /\ sessions[s].pc = "expire_stale"
    /\ LET stale == {i \in Pending(sessions[s].row.subject) : Overdue(i)}
       IN  Enter(s, [sessions[s] EXCEPT
                        !.pc = IF stale = {} THEN "check_pending" ELSE "sweep",
                        !.overdue = stale])
    /\ UNCHANGED <<now, readings, approvals, audit>>

\* The second query finds a pending row: 409.
RequestConflict(s) ==
    /\ sessions[s].pc = "check_pending"
    /\ Pending(sessions[s].row.subject) # {}
    /\ Return(s)
    /\ UNCHANGED <<now, readings, approvals, audit>>

\* Mutant: the result of the second query is not looked at.
RequestProceed_Unchecked(s) ==
    /\ sessions[s].pc = "check_pending"
    /\ readings' = readings + 1
    /\ Enter(s, [sessions[s] EXCEPT !.pc = "insert",
                                    !.row.created_at = readings + 1])
    /\ UNCHANGED <<now, approvals, audit>>

\* It finds none.  created_at is read from the clock as the INSERT is built,
\* before that statement waits for the write lock.
RequestProceed(s) ==
    /\ sessions[s].pc = "check_pending"
    /\ Pending(sessions[s].row.subject) = {}
    /\ readings' = readings + 1
    /\ Enter(s, [sessions[s] EXCEPT !.pc = "insert",
                                    !.row.created_at = readings + 1])
    /\ UNCHANGED <<now, approvals, audit>>

RequestedEntry(id, row) ==
    [decision |-> "pending", approval |-> id, actor |-> row.requested_by]

RequestInsert(s) ==
    /\ sessions[s].pc = "insert"
    /\ approvals' = Append(approvals, sessions[s].row)
    /\ audit' = Append(audit, RequestedEntry(Len(approvals) + 1, sessions[s].row))
    /\ Return(s)
    /\ UNCHANGED <<now, readings>>

\* The expiry of a stale row takes the lock, so the second query runs under
\* it and sees the update.  Another pending row is a 409, and closing the
\* session rolls the expiry back with it.
RequestSweepConflict(s) ==
    /\ sessions[s].pc = "sweep"
    /\ Pending(sessions[s].row.subject) \ sessions[s].overdue # {}
    /\ Return(s)
    /\ UNCHANGED <<now, readings, approvals, audit>>

RequestSweepInsert(s) ==
    LET row == [sessions[s].row EXCEPT !.created_at = readings + 1]
    IN  /\ sessions[s].pc = "sweep"
        /\ Pending(sessions[s].row.subject) \ sessions[s].overdue = {}
        /\ approvals' = Append(Expired(sessions[s].overdue), row)
        /\ \E entries \in ExpiryEntries(sessions[s].overdue) :
              audit' = Append(audit \o entries,
                              RequestedEntry(Len(approvals) + 1, row))
        /\ readings' = readings + 1
        /\ Return(s)
        /\ UNCHANGED now

-----------------------------------------------------------------------------
(* ApprovalWorkflowService.decide, then the caller's commit *)

\* Mutants: without the test for the requester, and without the test for a
\* row that was decided before.
Disposition_NoSelfCheck(i, user) ==
    IF Overdue(i) THEN "commit_expiry"
    ELSE IF approvals[i].status # "pending" THEN "conflict"
    ELSE IF role_rank(RoleOf[user]) < role_rank(approvals[i].required_role)
         THEN "commit_block"
    ELSE "commit_decision"

Disposition_NoStatusCheck(i, user) ==
    IF Overdue(i) THEN "commit_expiry"
    ELSE IF \/ approvals[i].requested_by = user
            \/ role_rank(RoleOf[user]) < role_rank(approvals[i].required_role)
         THEN "commit_block"
    ELSE "commit_decision"

\* What decide makes of the row it loaded, its tests in the order of the code.
Disposition(i, user) ==
    IF Overdue(i) THEN "commit_expiry"
    ELSE IF approvals[i].status # "pending" THEN "conflict"
    ELSE IF \/ approvals[i].requested_by = user
            \/ role_rank(RoleOf[user]) < role_rank(approvals[i].required_role)
         THEN "commit_block"
    ELSE "commit_decision"

\* A row that is no longer pending answers 409 and changes nothing.
DecideLoad(s, user, i, verdict) ==
    /\ Free(s)
    /\ Disposition(i, user) # "conflict"
    /\ Enter(s, [pc       |-> Disposition(i, user),
                 user     |-> user,
                 approval |-> i,
                 verdict  |-> verdict])
    /\ UNCHANGED <<now, readings, approvals, audit>>

DecideExpire(s) ==
    /\ sessions[s].pc = "commit_expiry"
    /\ CommitExpiry({sessions[s].approval})
    /\ Return(s)
    /\ UNCHANGED <<now, readings>>

DecideBlock(s) ==
    /\ sessions[s].pc = "commit_block"
    /\ audit' = Append(audit, [decision |-> "blocked",
                               approval |-> sessions[s].approval,
                               actor    |-> sessions[s].user])
    /\ Return(s)
    /\ UNCHANGED <<now, readings, approvals>>

\* Mutant: the approver's role is written in the approver's column.
Decided_RoleForName(i, user, verdict) ==
    [approvals EXCEPT ![i].status = verdict, ![i].approver = RoleOf[user]]

\* The update names the columns that differ from the row as loaded, which is
\* all the decision sets; no version is compared.
Decided(i, user, verdict) ==
    [approvals EXCEPT ![i].status = verdict, ![i].approver = user]

DecideCommit(s) ==
    /\ sessions[s].pc = "commit_decision"
    /\ approvals' = Decided(sessions[s].approval, sessions[s].user, sessions[s].verdict)
    /\ audit' = Append(audit, [decision |-> sessions[s].verdict,
                               approval |-> sessions[s].approval,
                               actor    |-> sessions[s].user])
    /\ Return(s)
    /\ UNCHANGED <<now, readings>>

-----------------------------------------------------------------------------
(* ApprovalWorkflowService.evaluate_execution_gate and its caller *)

\* There is no row at all, or the latest one does not permit the execution;
\* `overdue` is that row when the gate itself expires it.
GateDeny(s, user, subject) ==
    /\ Free(s)
    /\ \/ /\ Latest(subject) = {}
          /\ Enter(s, [pc |-> "denied", user |-> user, subject |-> subject,
                       overdue |-> {}, approval |-> 0, approver |-> Nobody])
       \/ \E i \in Latest(subject) :
            /\ approvals[i].status # "approved"
            /\ Enter(s, [pc |-> "denied", user |-> user, subject |-> subject,
                         overdue |-> IF Overdue(i) THEN {i} ELSE {},
                         approval |-> i, approver |-> Nobody])
    /\ UNCHANGED <<now, readings, approvals, audit>>

\* Mutants: without the branch for an expired approval, and with any approval
\* of the subject in place of the latest.
GateAllow_ExpiredPasses(s, user, subject) ==
    /\ Free(s)
    /\ \E i \in Latest(subject) :
         /\ approvals[i].status \in {"approved", "expired"}
         /\ Enter(s, [pc |-> "cleared", user |-> user, subject |-> subject,
                      overdue |-> {}, approval |-> i,
                      approver |-> approvals[i].approver])
    /\ UNCHANGED <<now, readings, approvals, audit>>

GateAllow_AnyApproval(s, user, subject) ==
    /\ Free(s)
    /\ \E i \in DOMAIN approvals :
         /\ approvals[i].subject = subject
         /\ approvals[i].status = "approved"
         /\ Enter(s, [pc |-> "cleared", user |-> user, subject |-> subject,
                      overdue |-> {}, approval |-> i,
                      approver |-> approvals[i].approver])
    /\ UNCHANGED <<now, readings, approvals, audit>>

GateAllow(s, user, subject) ==
    /\ Free(s)
    /\ \E i \in Latest(subject) :
         /\ approvals[i].status = "approved"
         /\ Enter(s, [pc |-> "cleared", user |-> user, subject |-> subject,
                      overdue |-> {}, approval |-> i,
                      approver |-> approvals[i].approver])
    /\ UNCHANGED <<now, readings, approvals, audit>>

\* The caller records the refusal and commits, the gate's expiry with it.
GateCommitDenial(s) ==
    /\ sessions[s].pc = "denied"
    /\ CommitExpiry(sessions[s].overdue)
    /\ Return(s)
    /\ UNCHANGED <<now, readings>>

\* The caller commits whatever the gate was guarding.
GateProceed(s) ==
    /\ sessions[s].pc = "cleared"
    /\ Return(s)
    /\ UNCHANGED <<now, readings, approvals, audit>>

-----------------------------------------------------------------------------
(* The rest of the program *)

\* The wait for the lock times out, or the request fails in any other way
\* before its commit: closing the session rolls everything back.
Abort(s) ==
    /\ sessions[s] # Idle
    /\ Return(s)
    /\ UNCHANGED <<now, readings, approvals, audit>>

Tick ==
    /\ now < MaxTime
    /\ now' = now + 1
    /\ UNCHANGED <<readings, approvals, audit, sessions>>

Start(s) ==
    \E user \in Users :
        \/ \E subject \in Subjects, role \in Roles, lifetime \in Lifetimes :
              RequestStart(s, user, subject, role, lifetime)
        \/ \E i \in DOMAIN approvals, verdict \in {"approved", "rejected"} :
              DecideLoad(s, user, i, verdict)
        \/ \E subject \in Subjects :
              \/ GateDeny(s, user, subject)
              \/ GateAllow(s, user, subject)

Continue(s) ==
    \/ RequestLoadStale(s)
    \/ RequestConflict(s)
    \/ RequestProceed(s)
    \/ RequestInsert(s)
    \/ RequestSweepConflict(s)
    \/ RequestSweepInsert(s)
    \/ DecideExpire(s)
    \/ DecideBlock(s)
    \/ DecideCommit(s)
    \/ GateCommitDenial(s)
    \/ GateProceed(s)

Next ==
    \/ Tick
    \/ \E s \in Sessions : Start(s) \/ Continue(s) \/ Abort(s)

Spec == Init /\ [][Next]_vars

-----------------------------------------------------------------------------
(* What the workflow promises, however its requests interleave *)

Qualified(user, row) ==
    /\ user \in Users
    /\ user # row.requested_by
    /\ role_rank(RoleOf[user]) >= role_rank(row.required_role)

\* A decided approval names an approver who is not its requester and whose
\* role ranks at or above the required one (decide, its two 403 branches),
\* although the decision is written over a row loaded earlier.
DecidedByQualifiedOther ==
    \A i \in DOMAIN approvals :
        approvals[i].status \in {"approved", "rejected"} =>
            Qualified(approvals[i].approver, approvals[i])

\* Only a deadline that has passed expires an approval (expire_if_needed), and
\* an approval requested without one never expires.
ExpiredOnlyWhenDue ==
    \A i \in DOMAIN approvals :
        approvals[i].status = "expired" => Due(approvals[i])

\* The last entry of the log about approval i, blocked attempts aside, records
\* how the row came to its status, and for a decision who took it.
Settles(log, i, row) ==
    \E k \in DOMAIN log :
        /\ log[k].approval = i
        /\ log[k].decision = row.status
        /\ row.status \in {"approved", "rejected"} => log[k].actor = row.approver
        /\ \A j \in (k + 1)..Len(log) :
              log[j].approval = i => log[j].decision = "blocked"

\* The audit trail and the table never disagree: with updates overwritten and
\* sessions rolled back, the status of every approval is the one the trail
\* logged last (audit.py: the entry is flushed in the update's transaction).
TrailMatchesTable ==
    \A i \in DOMAIN approvals : Settles(audit, i, approvals[i])

\* A caller that passed the gate acts on an approval of its own subject that
\* the trail shows approved by the person the caller will name, who is
\* neither the requester nor ranked too low.
ClearedByRecordedApproval ==
    \A s \in Sessions : sessions[s].pc = "cleared" =>
        LET i == sessions[s].approval
            approver == sessions[s].approver
        IN  /\ i \in DOMAIN approvals
            /\ approvals[i].subject = sessions[s].subject
            /\ Qualified(approver, approvals[i])
            /\ \E k \in DOMAIN audit :
                  audit[k] = [decision |-> "approved", approval |-> i,
                              actor |-> approver]

-----------------------------------------------------------------------------
(* What its docstrings promise, and only requests served one at a time keep *)

\* Requests do not overlap: one that has started ends before another starts.
OneAtATime ==
    \A s, t \in Sessions : sessions[s] # Idle /\ sessions[t] # Idle => s = t

\* "no two pending approvals for the same subject" (ApprovalWorkflowService).
OneOpenDecision ==
    \A subject \in Subjects :
        \A i, j \in Pending(subject) : i = j

\* An approval leaves "pending" once: what was decided or expired is never
\* decided again (decide, "Approval has already been decided.").
DecisionsAreFinal ==
    [][\A i \in DOMAIN approvals :
          approvals[i].status # "pending" => approvals'[i] = approvals[i]]_vars
=============================================================================
