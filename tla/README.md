# seclab in TLA+

A verification development of seclab, a security-research lab in Python: a
shared core (approvals, audit, evidence, scope, HTTP, events, scheduling),
feature modules on top of it, a FastAPI gateway that mounts them, a command
line and a web dashboard. This directory holds TLA+ modules translated from the
source, TLC configurations that check them on small instances, and TLAPS proofs
of what matters most.

`PROJECT.json` maps each definition to the source lines it stands for.

## 1. The system

### Components

| Component | State | Operations | Interacts with | Correct when |
|---|---|---|---|---|
| Human approval workflow (`security/approval.py`) | table `approval_requests` | request, decide, expire, execution gate | audit log, same transaction; callers own the commit | decisions come from a qualified person other than the requester; only passed deadlines expire; the gate opens only on a granted approval |
| Audit log (`security/audit.py`) | table `audit_logs`, append-only | log | flushed in the caller's transaction | agrees with the tables it describes, whatever is rolled back |
| Evidence store (`security/evidence.py`) | table `evidence`, hashes | store, store_bytes | caller's transaction | the hash is that of the stored content |
| Scope guard (`security/scope_guard.py`) | none | validate target against a program policy | recon, attack surface | the denylist wins; what no rule admits is out |
| Recon pipeline (`modules/recon`) | programs, targets, hypotheses, executions, findings | create, request approval, decide, queue, complete | scope guard, approval workflow, audit, evidence | nothing executes without approval or out of scope; findings and statuses are accounted for |
| HTTP provider (`core/http.py`) | none across calls | get, post, redirects, retries | every module that fetches | connects only to validated addresses; bounded hops and attempts |
| CertStream monitor (`modules/monitor`) | `monitor_matches`, artifacts on disk | listen, match, score, capture, store, publish | listener thread, one event loop, write lock, event bus | a match is stored whole or not at all; events are about stored matches; hashes are of the files rows name |
| Event bus (`core/events.py`) | list of sinks | publish | monitor, sensor; Discord over the HTTP provider | a failing sink does not silence the others |
| Attack surface (`modules/attack_surface`) | `surface_scans` | scan | scope guard, certificate logs, DNS, sockets | nothing is touched when the root is out of scope; the report is what answered; bounded probes |
| CVE watch, ThreatLens (`modules/cve_watch`, `modules/threatlens`) | digests, one insert per run | fetch, merge, tag, summarise, save | HTTP provider, AI provider | merge keeps every fact once; a feed or a model that fails loses nothing of the others |
| Fusion (`modules/fusion`) | none; reads matches and digests | get feed, correlate | the tables of three modules | findings explained by what was read, most urgent first |
| Phantom (`modules/phantom`) | analyses, two rate limiters | generate variants, enrich, score, save | crt.sh, rdap.org, DNS, AI provider | calls spread out; every variant accounted for; scores bounded |
| AI provider (`core/ai_provider.py`) | none | complete | recon tactics, threatlens, phantom | a failure falls back to deterministic text |
| Chimera sensor (`modules/sensor_chimera`) | GeoIP cache | body limit, lookup, tarpit, publish | event bus, HTTP provider | cache bounded and right; limit on the body received |
| Scheduler (`core/scheduler.py`) | jobs, tasks | every, run_background, start, stop | nothing uses it | - |
| Retention, rate limit, DB session, registry, config, keys | small or none | purge, limit, session per request, load | everything | see `PROJECT.json` |
| Gateway, command line, web dashboard | none that the server depends on | mount, one-shot commands, API client | core and modules | not modelled |

### What is hard here

The gateway's routes are plain functions, so each runs in a thread of its own
with a database session of its own. In SQLite under this engine a SELECT takes
no lock that outlives it, the first INSERT or UPDATE of a session takes the one
write lock, and the lock is kept until commit or rollback. The services check
rows in Python between the two. So:

* a check and the write it protects are separate steps of the same handler;
* an UPDATE is by primary key, and names only columns that differ from the
  row as loaded: an older decision can overwrite a newer one;
* `created_at` is stamped before the INSERT waits for the lock;
* a session that waits too long for the lock fails and is rolled back.

Everything else is asyncio: coroutines on one loop that interleave where they
await. There the hard part is what is held or remembered over an await: the
write lock over a screenshot (monitor), a slot of a rate limiter (phantom), a
semaphore (attack surface), a cache filled after the answer (sensor), three
tables read one after another (fusion); the calls that fail, answer in another
shape or are retried; and processes that are interrupted. `PROJECT.json` lists
these places under "hazards", each at its line.

## 2. Modules

| Module | Models |
|---|---|
| `ApprovalWorkflow` | `approval.py` with the tables, the audit trail, concurrent sessions, rollback and the clock |
| `ApprovalWorkflow_proofs` | its theorems |
| `HumanGate` | abstract: grants, executions, findings, and nothing else |
| `ReconWorkflow` | the recon routes and services over `ApprovalWorkflow`; implements `HumanGate` |
| `ReconWorkflow_proofs` | its theorems, the refinement among them |
| `HttpProvider`, `HttpProvider_proofs` | one call of `core/http.py`, the egress policy, the name service; its theorems |
| `EventBus` | `publish` over any list of sinks |
| `MatchLedger` | abstract: what is recorded of a match, and who is told |
| `MonitorPipeline`, `MonitorPipeline_proofs` | the CertStream monitor over `EventBus`; implements `MatchLedger`; its theorems |
| `ScopeGuard` | the decisions of the scope guard |
| `AttackSurface`, `AttackSurface_proofs` | a scan over `ScopeGuard`; the theorems of both |
| `Ordering`, `Ordering_proofs` | Python's sorting, slicing, comprehensions with a condition, `dict.fromkeys`; lemmas about them |
| `Wording` | which terms occur in which text |
| `AiProvider` | which model is asked, what counts as an answer, the fallback |
| `CveWatch`, `ThreatLens` | what a digest is of the feeds' answers |
| `Fusion`, `Fusion_proofs` | both digests and a request for the feed at once, over the shared tables; theorems |
| `Phantom` | concurrent analyses behind shared rate limiters |
| `Sensor` | concurrent visits over `EventBus` and a shared cache |
| `Intel_proofs` | theorems about `Phantom` and `Sensor`, and about these and `Fusion` side by side (`MCIntel`) |
| `MCApprovalWorkflow`, `MCReconWorkflow`, `MCHttpProvider`, `MCMonitorPipeline`, `MCAttackSurface`, `MCIntel` | the small instances TLC checks |

### ApprovalWorkflow

| Variable | Code |
|---|---|
| `approvals` | rows of `approval_requests`, the id is the index |
| `audit` | rows of `audit_logs` in commit order |
| `sessions` | per request: where its handler is, and the values it read |
| `now` | the clock deadlines are compared with |
| `readings` | how many `created_at` stamps were given out |

A handler is one action per read outside the lock, then one action from its
first write to its commit. `request` reads twice (the sweep of overdue rows,
then the pending query), and inserts; when the sweep has something to expire
its UPDATE takes the lock, and the rest is one action. `decide` loads the row
and makes all its tests on that load (`Disposition`), then commits an expiry, a
refusal or a decision. The gate loads the latest row and tells its caller, who
commits either a denial or what the gate was guarding. `Abort` is a request
that fails before its commit. `Start` and `Continue` are those actions for one
session; `Tick` moves the clock.

Simplifications, each harmless to the properties:

* role, subject and user are model values; reasons and timestamps that no
  property reads are dropped (`decided_at`, rationale);
* `created_at` stamps are distinct. The columns have microseconds; two equal
  stamps would only give `Latest` a choice;
* a decision names an id that exists (the route answers 404 otherwise);
* `list_pending` expires rows in its session and no caller commits, so for the
  table it is no step at all;
* an entry of the trail carries the approval it is about. The log stores the
  approval's id for decisions and the subject otherwise.

### ReconWorkflow

It extends the workflow: a recon handler is a workflow action conjoined with
what the recon service writes in the same transaction (`FileRequest`,
`FileDecision`, `QueueExecution`), or an action on recon rows alone
(`TargetCreate`, `HypothesisCreate`, the three steps of `complete`). `held` is
what a session loaded from recon tables. A hypothesis is the subject of its
approvals. Programs are fixed: `InScope` is the set of targets the scope guard
admits for the one program. Evidence rows and recon's own audit entries are
left out; the trail of `ApprovalWorkflow` is the one the properties use.

### HumanGate and the refinement

`HumanGate` says what the module's docs promise: a grant is given by a person
who is neither the requester nor ranked too low, an execution names a grant, a
finding comes from an execution. `ReconWorkflow!Gate` maps the grants to the
approvals the trail records as approved, under the terms of their row, and
the executions to the recon rows without their status.

### HttpProvider

One call by one coroutine: a provider keeps nothing between calls, so calls do
not interact. `call` is what the caller asked for, with the allowlist of the
policy; `attempt`, `hop`, `current` and `carries` are the loop counters and
local variables of the three methods; `pinned` is the address in the pinned
URL; `dns` is what the name service would answer; `sent` and `requests` record
what went out.

A hop is a check (`CheckFails`, `CheckBlocks`, `BuildRefuses`, `CheckPins`: the
code up to the `await`, in its order), then `Send` or `ConnectFails`, then the
answer. `DnsChange` may happen between any two. `Fails` is the `except` clause of
the retry loops, and `Ends` every way out of them. `get_json` and `get_text` take the same
steps and are one method here; `post_json` follows no redirect. URLs are model
values; constants say which have a web scheme, cannot be split, have a port
that is out of range, or are refused by httpx, each of which the code answers
differently: a `ValueError` is retried, a refusal by the policy or an
`InvalidURL` is not. Only the first address of a lookup counts, as in
`_resolve_and_validate`. Request headers are left out; they are the same on
every hop. So is `best_effort`, which swallows whatever a call raises.

### EventBus, MonitorPipeline and MatchLedger

| Variable | Code |
|---|---|
| `cursor`, `up` | messages of the stream gone by; the process |
| `browser` | `CaptureWorker`: none, open, or closed and still referred to |
| `phase` | where the coroutine of each match is |
| `rows`, `evidence` | committed rows of `monitor_matches` and of the evidence store |
| `files` | the artifact directory: who wrote each file last, and when |
| `news` | how far the publication of each match is, and which sinks took it |

A match is named by its message and its place in it. Its coroutine is one step
per stretch without an `await`: enriched and flushed (`RecordSkipped`,
`StartCapture`; the flush takes the write lock, so no match can flush while
another is "capturing"), captured or not and committed, then one step per sink.
`HandlerFails` is every way to lose it, among them the wait for the lock that
blocks the loop. `_on_message` is the listener's thread, which does not wait for
what it dispatched. `Interrupt` is `run`'s `finally`, in which the browser is
closed while coroutines go on; `Exit` cancels what is left, or is a crash;
`Start` may follow, and certificates that go by meanwhile are missed. A sink is
the log, the webhook's (which swallows its failure) or one that may raise.
An artifact's path is the safe name of the domain and a timestamp in seconds;
the cut to 100 characters takes the timestamp off a long name. The hash of an
artifact is modelled by what it was taken of.

`MatchLedger` says what this amounts to: a match is recorded once, whole, and
only then is a sink told of it. `RecordsWholeThenTells` is the refinement.

### ScopeGuard and AttackSurface

The guard keeps no state, so it is operators over policies (sets of rules),
hosts and actions. `urlparse` and lower-casing are functions of the identifier
(`HostIn`, `Verbatim`); the terms a text mentions are a set. `AdmittedHosts` and
`Harmless` state the docstrings' promises without an order of checks.
`validate_action` is called by tests only; it is part of the guard's interface.

`AttackSurface` is one call of `run_scan`: gate, discovery, then host by host a
lookup and all ports at once, `port` being the state of each probe under the
semaphore, and the saved row. `touched` and `answered` are history.

### CveWatch, ThreatLens, AiProvider, Fusion

The parsing, merging, tagging and counting of a digest are operators on what the
feeds answered (a sequence of entries, a failed request, an entry of another
shape). Texts are model values with the set of terms they mention. The code
searches texts joined by spaces (`tagging.py:25`, `vectors.py:34`,
`correlation.py:83`), so a term may begin in one and end in the next: `Spans` has
the terms that occur so, and `MentionedIn` searches a joined text. A CVE's
haystack is its description and the products it has after the merge; a product
that the feed matches is searched alone. The summary of a digest is its count of
articles and its vectors, which are counted, or a model's own words (`Retold`)
if its reply had a list of strings there. `Fusion` has
the actions: a digest awaits each feed in turn and then, in one step, makes and
commits its row; the feed's request reads matches, the newest threat digest and
the newest CVE digest one after another, while either digest may be saved
between the reads. What a digest was made of is kept with its row as history, so
that the properties (`IsFaithful`, `IsTruthful`, stated over sets, with no order
and no folding) can compare. `AiProvider` says which provider's reply becomes the
summary, and when `build_summary` raises.

### Phantom

A domain is kept as the way it was made (technique, top-level domain, part), with
`Twins` for two ways that spell the same domain. Each asset of an analysis is a
coroutine: wait for a slot of crt.sh, call, look up (which blocks the loop), wait
for a slot of rdap.org, call, perhaps again for the address. `next_slot` is the
`_RateLimiter`'s field, read and advanced in one step (under its `asyncio.Lock`,
whose holder does not await); `sent` is history. Any sleeper may wake late. The
scores and bands are operators.

### Sensor

A visit reads its body chunk by chunk, may be answered by the third-party
limiter, is looked up (`Hit`, or `Miss` and later `GeoAnswers` or `GeoFails`), waits
if suspicious, and is published sink by sink. `cache` is the `OrderedDict`, oldest
use first; `uses` is the history of hits and stores that `RecentVisitorsAreKnown`
compares it with.

## 3. Runs

Model values only; `CHECK_DEADLOCK FALSE` throughout, because a bounded model
stops when its bounds are reached (and an idle server may stop too).

| Run | Shows |
|---|---|
| `recon_concurrent` | 2 sessions through the whole pipeline, 1 subject, up to 3 requests, deadlines: types, qualified decisions, justified expiry, trail = table, a cleared caller acts on a recorded approval; it implements `HumanGate`; executions in scope; completed exactly when reported; statuses earned |
| `recon_serial` | one session, two hypotheses, deadlines: the promises that need requests served one at a time: one open decision, final decisions, a status that mirrors the latest approval, an execution queued only while that approval stands, one finding per execution |
| `egress` | one call, redirected and failing at will, names rebound: requests only to validated addresses, params and body only to the caller's URL, a bounded number of requests, errors only after every attempt, and the call ends |
| `monitor` | a heartbeat and two certificates, one browser, a sink that raises before the log, interrupts and restarts: `MatchLedger` is implemented, the log hears of every match that is done, screenshots stay in custody unless replaced, every match ends |
| `surface` | one scan under every combination of small allow and deny lists, for a root written plainly, as a URL, as a subdomain, as a name that cannot be looked up, and as nothing: nothing touched out of scope, true reports, the semaphore, gated actions, the scan ends |
| `intel` | one of three parts in each behaviour (they share no state): both digests with a feed request and a new match, two analyses, or four visits. Digests agree with the feeds, findings with what was read, calls are spaced, analyses account for every variant, the cache has the latest addresses, everything that starts ends |
| `approval_two_pending` | violation: two pending approvals of one subject |
| `approval_redecided` | violation: a decision overwritten by another |
| `recon_two_findings` | violation: one execution with two findings |
| `recon_stale_gate` | violation: an execution queued after a rejection overwrote the approval its gate saw |
| `recon_not_terminal` | violation, one request at a time: a late decision takes a hypothesis out of "executed" |
| `intel_odd_entry` | violation: an NVD entry of another shape takes the others of its answer with it |

Properties come in two groups. Those of `recon_concurrent` hold however
requests interleave. Those of `recon_serial` are what the docstrings say; the
code keeps them only while one request runs at a time, and the violation runs
show the shortest interleavings that break four of them. `MirrorAgrees` also
fails with two sessions, for the same reason (a row loaded before another
session's commit); it has no run of its own. `ClearedByRecordedApproval` is what
is left of the gate's promise when requests interleave.

### Bounds

`MaxTime`, `MaxRequests`, `MaxAudit`, `MaxExecutions` and `MaxFindings` only
guard the start of new work; a handler that has begun always runs to its end.
Two sessions are enough for every interleaving of a read with another's commit,
which is where the code is weak; the third request row gives a pending row,
a stale one and a new one together. One subject suffices in the concurrent run
because handlers of different subjects share only the log; the serial run has
two. One tick separates a deadline from its request and lets it pass during any
handler. `MaxAudit` 3 admits request, decision and gate denial, or two
requests and a decision, with more entries from handlers already begun.
`MaxExecutions` and `MaxFindings` are 1 in `recon_concurrent`: two gates or two
completions that overlap still make two, and later ones are in `recon_serial`.
Its two sessions are symmetric: no property names one, and none is a liveness
property.

`egress` has one retry and two redirects (the code has two and five): every
value of the counters below, at and past its limit occurs, also together, and
the theorems hold for any numbers. One URL of each kind, one name that the
allowlist admits, one that it does not, an address literal of an internal
address, two public addresses and one that is not.

`monitor` has a wildcard and its own name (so two matches share a file name),
and a long name whose file has no timestamp; `MaxTime` 1 lets captures fall in the
same second or not. Any number of restarts may happen; the stream, which goes by
only once, bounds the matches. The semaphore of the code has ten slots for five
ports (`probing.py:11,14`), so it never holds a probe back; `surface` has three
ports and two slots, so that it does, and the bound in `SurfaceTypeOK` is about
settings that the code does not ship with. The run has certificates with
duplicates, wildcards and a bare star, and answers in one case the name that
cannot be looked up. `intel` has a CVE in both feeds, twice in one, with missing fields, an entry that does
not parse and a failed feed; a watched name made of a vendor and a product in a
row, and a phrase that spans a title and a summary; limits of two (articles, matches) and one
(findings) that are reached; analyses of several variants, of equal spellings,
offline and online, with a name that cannot be encoded and answers of other
shapes; a cache of two with three addresses, one of which comes back, an entry
that expires, and a body one byte too long, also cut short.

### Fairness

The approval and recon models state no fairness and no liveness: their handlers
have no loop and wait for nothing but the write lock, with a time-out (`Abort`),
and their properties are about what may happen.

`HttpProvider!FairSpec` has weak fairness of the call's steps as one action, and
none of the name service. The event loop resumes a coroutine whose wait is over. The
client's timeout cuts off a host that is silent; it bounds each read rather
than the answer, so that no host answers byte by byte without end is an
assumption about the network, not something the code enforces.

`FairMonitorSpec` has weak fairness of `HandleMatch(m)` for each match, none of
the stream, the interrupt or a restart: the loop resumes every coroutine, since
enrichment, the wait for the lock, the capture and a webhook all have timeouts.
A match whose monitor is down is cancelled by then. `FairScanSpec` has weak fairness
of the scan: lookups end and connections time out. `FairIntelSpec` has it of
each digest, of the feed request once it has begun, of each analysis and its assets, of the
handlers of visits and of the analyses' clock; the conditions are written out
because TLC evaluates them faster than `ENABLED`. It has none of the bodies of
visits: the sensor sets no time limit on reading one.

### Disagreements met

The six violation runs are the findings of `PROJECT.json`. Others have no run;
the models take the step the code takes:

* hosts that certificates name are probed without being shown to the scope guard,
  so one on the denylist is touched when the root is admitted, while
  `scope_guard.py:113-115` says a denylist match always wins
  (`AttackSurface!Resolve`);
* one name that cannot be encoded raises `UnicodeError`, which `probing.py:60`
  does not catch: the scan fails unsaved (`ScanFails`);
* a screenshot with the file name of an earlier one replaces the file whose hash
  a committed row has (`CustodyUnlessReplaced` says exactly when);
* a match that is flushed during another's capture blocks the loop until its wait
  for the lock times out, and is lost (`HandlerFails`);
* `CaptureWorker.stop` keeps the reference to the closed browser;
* the monitor takes the process's bus (`listener.py:57`) and nothing in that process
  configures it, so its events go to the log alone, webhook or not;
* two KEV records of one CVE get the
  source "NVD + CISA KEV" (`Joined`); with an empty watchlist the summary counts
  KEV's products as matches of the watchlist (`run_digest`);
* a reply whose headline is no string, or whose envelope has another shape, loses
  a digest or an analysis that an outage would not
  (`AiProvider!build_summary`); text from the first provider that does not parse
  is not followed by asking the second;
* a live analysis whose call to crt.sh fails takes its certificates from the
  fixtures and still counts as live (`Phantom!CrtAnswers`); one asset that raises
  fails the analysis while the others go on taking slots (`GatherRaises`); the
  blocking lookup lets several sleepers wake at once, so that slots, and not
  dispatches, are an interval apart (`CallsAreSpaced`);
* `MirrorAgrees` fails with two sessions.

## 4. Proofs

Every safety invariant and action property that a passing run checks is also a
theorem, for every value of the constants that the named assumptions allow and
without the bounds that keep TLC's instances finite; those of `recon_serial` are
theorems of behaviours in which requests do not overlap. What is left to TLC is
listed at the end.

| Module | Theorem | States |
|---|---|---|
| `ApprovalWorkflow_proofs` | `TypeCorrect` | `Spec => []TypeOK` |
| | `Invariance` | `Spec => []Inv`, the inductive invariant |
| | `DecisionsAreQualified` | `Spec => []DecidedByQualifiedOther` |
| | `ExpiryIsJustified` | `Spec => []ExpiredOnlyWhenDue` |
| | `TrailIsFaithful` | `Spec => []TrailMatchesTable` |
| | `GateIsSound` | `Spec => []ClearedByRecordedApproval` |
| | `DecisionsOpenOneByOne` | `Spec /\ []OneAtATime => []OneOpenDecision` |
| | `DecisionsStand` | `Spec /\ []OneAtATime => DecisionsAreFinal` |
| `ReconWorkflow_proofs` | `WorkflowCarriesOver` | `ReconSpec => Spec`: the theorems above hold of the pipeline |
| | `ReconInvariance` | `ReconSpec => []ReconInv` |
| | `ReconTypeCorrect` | `ReconSpec => []ReconTypeOK` |
| | `ExecutionsInScope` | `ReconSpec => []ExecutionsStayInScope` |
| | `CompletionsReport` | `ReconSpec => []CompletedIffReported` |
| | `PipelineImplementsGate` | `ReconSpec => Gate!GateSpec` |
| | `StatusesAreEarned` | `ReconSpec => []StatusIsEarned` |
| | `StatusMirrorsApproval` | `ReconSpec /\ []ReconOneAtATime => []MirrorAgrees` |
| | `QueuedOnApproval` | `ReconSpec /\ []ReconOneAtATime => QueuedWhileApproved` |
| | `OneCompletion` | `ReconSpec /\ []ReconOneAtATime => []OneFindingPerExecution` |
| `HttpProvider_proofs` | `HttpTypeCorrect` | `Spec => []TypeOK` |
| | `RequestsAreValidated` | `Spec => []SentWhereValidated` |
| | `PayloadStaysHome` | `Spec => []StaysHome` |
| | `RequestsAreBounded` | `Spec => []WorkIsBounded` |
| | `ErrorsAreFinal` | `Spec => []AllAttemptsMade` |
| `MonitorPipeline_proofs` | `MonitorTypeCorrect` | `MonitorSpec => []MonitorTypeOK` |
| | `SinksAreIsolated` | `MonitorSpec => []SinksIsolated` |
| | `CustodyIsKept` | `MonitorSpec => []CustodyUnlessReplaced` |
| | `MonitorKeepsLedger` | `MonitorSpec => RecordsWholeThenTells` |
| `AttackSurface_proofs` | `ScopeIsAllowedNotDenied`, `ActionsAreGatedAlways` | what the guard's checks amount to, whatever their order |
| | `ScansStayHome` | `ScanSpec => []NothingTouchedOutOfScope` |
| | `PoliciesGateActions` | `ScanSpec => []ActionsAreGated` |
| | `SurfaceTypes` | `ScanSpec => []SurfaceTypeOK` |
| | `ReportsAreTrue` | `ScanSpec => []ReportIsTrue` |
| `Fusion_proofs` | `FusionTypes` | `FusionSpec => []FusionTypeOK` |
| | `CveDigestsAgree` | `FusionSpec => []CveDigestsAreFaithful` |
| | `ThreatDigestsAreTold` | `FusionSpec => []ThreatDigestsAreTruthful` |
| | `FeedsAreExplained` | `FusionSpec => []FeedIsExplained` |
| `Intel_proofs` | `SlotsAreKept`, `CallsKeepTheirDistance` | `PhantomSpec => []PhantomInv`, `PhantomSpec => []CallsAreSpaced` |
| | `AccountsAreKept`, `AnalysesAccount` | `PhantomSpec => []AccountInv`, `PhantomSpec => []AnalysesAreAccounted` |
| | `PhantomTypes`, `SensorTypes` | `PhantomSpec => []PhantomTypeOK`, `SensorSpec => []SensorTypeOK` |
| | `CacheIsLeastRecentlyUsed` | `SensorSpec => []RecentVisitorsAreKnown` |
| | `PartsRunAlone`, `IntelTypes` | `FairIntelSpec => FusionSpec /\ PhantomSpec /\ SensorSpec`, `FairIntelSpec => []IntelTypeOK` |

### Approvals

From `UsersAssumption` and `TimeAssumption`, for any number of sessions.
None of the properties is inductive alone, because a commit acts on what its
session read earlier. `Inv` adds, for each session, what it learned and what
stays true of it: an overdue row it loaded is due for ever, since time only
moves forward and deadlines never change; a decision it is about to commit was
tested against fields that never change (`requested_by`, `required_role`); a
gate that cleared it saw an entry in the trail, which only grows. The lemmas
`Keeps` and `StepKeeps` state once that every action keeps those fields, the
rows and the entries; `CallOK` is what a session's record must satisfy, as a
predicate over the rows, the log and the time, and is preserved by any step
that `Keeps`. Each action is then one step of the proof.

*One request at a time.* The docstrings' promises of one open decision and of
final decisions are false once a request reads before another's commit:
`approval_two_pending` and `approval_redecided` show it. They are theorems of the behaviours that satisfy `[]OneAtATime`, that is,
in which a request that has started ends before another starts; a server that
serves one request at a time is one, and so is any instance with one session,
whatever the subjects, users and deadlines. `SerialInv` adds to `Inv` that what
the running session read is still so (`Fresh`), that an open decision is the
latest of its subject (`OpenIsLatest`), and that stamps come from the clock
(`Stamped`), without which a new row need not be the latest.

### Recon

Under `ScopeAssumption` and `RowAssumption` as well.
`WorkflowRunsBeneath` shows that a recon step is a workflow step or leaves the
workflow alone, which brings `Inv` along. `ReconInv` adds that every approval,
request, gate check and execution is about a hypothesis that exists (rows are
never deleted, but a status may only be written on one that exists), that
existing hypotheses are about targets in scope, and that the grants in the
trail are about rows that exist. For the refinement, `GrantsStep` shows that a
step adds at most one grant, and a proper one (`DecideCommit`, whose session
learned that its user qualifies); `QueueExecution` names a grant because of
what `CallOK` says of a cleared session; everything else is a stutter of the
gate.

A hypothesis's status is written over a value loaded earlier, so the invariant
`EarnedInv` adds what sessions hold: a request that is still running holds the
status it loaded, and a hypothesis that had left "draft" by then is not back in it
(`RequestsHold`); and every entry of the trail is about a row that exists
(`EntriesHaveRows`). `StatusChange` says which steps write a status, and what they
log or report with it; `EarnedStays`, that what earned a status never goes away,
since rows, entries and findings are only added.

An execution is queued on the row that the gate saw. With `Fresh` that row is still
approved and the latest of its subject, and with `MirrorInv`, below, the hypothesis
shows it (`QueuedIsApproved`); `recon_stale_gate` is the step that breaks the first.

`[]ReconOneAtATime` counts completions as requests. `MirrorInv` is `EarnedInv` with
`SerialInv`, `MirrorAgrees` itself and `SeenIsCurrent`: the status that a request
loaded is still that of its hypothesis when it is written back. `OneFindingInv` says
that an execution being completed is not completed yet; `recon_two_findings` is
what happens when two requests believe so at once.

### HTTP calls

From `UrlAssumption`, `AddressAssumption` and `BoundAssumption`.
`HttpInv` adds to the properties what the next request will be: `Validated` (an address
that is pinned stays good, since nothing but a check sets it), `AtHome` (a hop
that carries the payload is at the caller's URL), and `Counted`, which counts
requests by failed attempts and hops, `attempt * Hops + hop`, with one more while
an answer is awaited. `Products` is the arithmetic that relates it to the budget.

### The monitor

From `NameAssumption`, `SettingAssumption` and `SinkAssumption`, for any stream, sinks,
restarts and time. `MonitorInv` adds to the types that the matches of a message
that has not gone by are unseen (`Ahead`), how far a publication can be in each
phase and that the log has heard if it was offered the event (`Announced`), that
nothing of a match is visible before its commit and its row is afterwards
(`Whole`), and that a file's name is the one its content's match gives it
(`Filed`), from which custody follows. For the refinement a commit is a
`Record`, a sink that takes the event a `Tell`, and all else a stutter.

### Scope and scans

From `GuardAssumption` and `SurfaceAssumption`. The two theorems about the guard
hold of all policies, targets and actions. `GateInv` says that a scan whose root is
not admitted never passes the gate. `ScanInv` ties where the scan may be to the
hosts it has visited; `ReportInv`, what is reported of them to the answers they
gave: the hosts visited are reported as they answered, the one being visited
answered at the ports noted open, and none answered ahead of its turn. Host names
come without repetitions and open ports in order: `Ordering_proofs` says what these
lists are.

### Lists

The prover cannot do induction over data, nor see into `SelectSeq`, `:>` and `@@`.
The model therefore states what Python's list operations return by counting
ranks (`Picked`, `Kept`, `Ascending`, `Descending`, `SortedDown`), and
`Ordering_proofs` derives, once and for every list, what the other proofs cite:
that ranks are positions, that picking by places keeps order, number and
elements, that `FromKeys` keeps each element once, at its first place, and a
list of distinct elements as it begins (`FromKeysBegins`), that a fold
exists and sums split, that flattening yields the elements of the parts, and that a list sorted by keys
has the same elements in the order of the keys. Where a list is taken turn by turn
(the records of one CVE, the variants of a name), the argument is by the least
place at which something would go wrong.

### Digests and the feed

From `WordingAssumption`, `FeedAssumption`, `FeedsAssumption`, `VectorAssumption`,
`LimitAssumption`, `TableAssumption` and `AiAssumption`: the answers of feeds and models
have the shapes the parsers expect or fail as modelled, tables hold rows that were
saved by this code, no term is the empty text (`_keyword_in_text` returns False
for an empty keyword), vectors and feeds have distinct names.

`FusionInv` has the types of the tables and of what is under way. Three invariants
stand on it:

* `CveRowsOK`: a saved row agrees with the answers it was made of. A chain of lemmas
  follows the code: what is parsed of an answer (`NvdIngested`, `KevIngested`), what the
  records of one id are joined to, each field by the first or the last that has
  it (`JoinedIsFaithful`), that the merged list has each id once in order of dates
  (`MergeIsFaithful`), what the watchlist adds (`TagAdds`), and the digest
  (`DigestIsFaithful`). Tagging appends to the products it searched, so these are
  still the beginning of the list, from which the property reads what was searched;
  the products of a record that was joined are distinct, those of a lone KEV
  record as its entry has them, and the two cases are kept apart.
* `ThreatRowsOK`: a saved row tells what the feeds said, and while feeds are being
  asked the articles collected are those of the answers so far, feed by feed
  (`FromFeeds`, kept by `FeedIsAdded`, with the limit for each feed; two feeds of one
  name would break it). `TagsAreVectors` and `VectorsAreRanked` say what tagging and
  counting return. `SummaryHasGrounds` and `SummaryRaises` list what
  `build_summary` may come to.
* `FeedReadsOK`: the digests read are at least as new as those of the request's
  beginning, and the findings are computed from what was read. Rows never change
  and tables only grow (`ReadsStay`), so this survives commits between the reads.
  `MatchWeighs` and `CorrelateExplains` show that the signals of a match weigh what
  its evidence, counted as sets, does; that `base_score` is within half a point is
  `BaseIsATenth`. `FeedIsExplained` follows from all three.

### Analyses and the sensor

`SlotsAreKept` needs `IntervalAssumption` alone: the slots held by sleepers and those
used by calls are all distinct, an interval apart, and an interval before
`next_slot`; a reserved slot lies past all of them, and a call only turns a held slot
into a used one. No analysis needs to be fair or even to end.

`AccountInv` (with `RequestAssumption`, `ProviderAssumption`, `TwinAssumption`) says of
every asset, at each stage of its enrichment, exactly what it knows (`KnownAt`: what
the providers say in this world, the fixture's certificates where crt.sh
failed, nothing ahead of its call), that variants are distinct (candidates of one
spelling come once: `TwinAssumption` says that the second of a pair comes after
the first), and that a saved result accounts for each. The weights of a variant add up
to between 12 and 90, so that no cap applies.

`CacheInv` says that the entries of the cache stand for the last uses of their
addresses (`StandFor`), in order of time, and that what was dropped was used before all
of them, and only for want of room; `GeoInv`, that what a visit was told is of its
address and fresh. `VisitInv` says that a visit is rejected exactly when it has
buffered more than the limit, and that until it is answered some sink is still to
be offered its event.

`PartsRunAlone` and `IntelTypes` bring these to the specification that the run `intel`
checks.

### Only model-checked

* liveness (`CallEnds`, `EveryMatchEnds`, `ScanEnds`, `AnswersEnd`):
  ENABLED and fairness are beyond the proof system;
* the six violations, which are counterexamples.

No module here uses RECURSIVE operators.

## 5. Not modelled

* Scheduler: nothing in the repository registers a job with it or starts it.
* Retention, key management, user look-up, registry, configuration, logging: one
  query, or read once at start-up. The models start from what they return.
* The third-party request limiter, but for the fact that it may answer instead.
* Recon's AI tactics: a prompt and the parsing of a reply; writes no row.
* The OSINT breach lookup, which the repository deprecates; the command line and
  the web dashboard, which keep no state; text, layout, decoys and look-alike
  spelling.
* Recon programs and evidence (`InScope` is the constant that `ScopeGuard`
  decides); the audit entries of other services than approvals.
* Request headers in the HTTP provider; browser-made requests of a capture, which
  are outside the code.

What would come next: recon over `ScopeGuard` with programs that change, the
audit entries of every service, and the HTTP provider under the digests instead of
answers that may fail.
