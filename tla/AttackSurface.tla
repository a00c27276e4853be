---------------------------- MODULE AttackSurface ---------------------------
(***************************************************************************)
(* The attack-surface scan (attack_surface/service.py, probing.py,         *)
(* tagging.py): one call of run_scan.  The scope guard is asked about the  *)
(* root, certificates name more hosts, each is resolved and its ports are  *)
(* tried at once under a semaphore; the result is saved at the end.        *)
(***************************************************************************)
EXTENDS ScopeGuard, Ordering

CONSTANTS
    CtAnswers,            \* what certificate transparency may answer: identities, in order
    Cleaned,              \* each identity stripped, in lower case, without a leading "*."
    Unencodable,          \* names that cannot be looked up at all (UnicodeError)
    COMMON_PORTS,         \* the ports to try, in order
    EXPOSURE_TAGS,        \* the ports that are tagged when open, in order
    DEFAULT_CONCURRENCY,
    AllowLists, DenyLists,    \* the raw lists a request may bring
    SampleLimits, SampleActions

ASSUME SurfaceAssumption ==
    /\ Hosts \subseteq Identifiers
    /\ \A answer \in CtAnswers : answer \in Seq(DOMAIN Cleaned)
    /\ \A i \in DOMAIN Cleaned : Cleaned[i] \in Hosts \cup {NoHost}
    /\ COMMON_PORTS \in Seq(Nat) /\ EXPOSURE_TAGS \in Seq(Nat)
    /\ DEFAULT_CONCURRENCY \in Nat \ {0}
    /\ AllowLists \cup DenyLists \subseteq SUBSET RawRules
    /\ SampleLimits \subseteq ProgramPolicyLimits
    /\ SampleActions \subseteq ProposedAction

VARIABLES
    policy,      \* the scope policy of the request
    target,      \* its target, as the caller wrote it
    pc,          \* where run_scan is
    hostnames,   \* the hosts to visit
    hosts,       \* what is known of the hosts visited, in order
    port,        \* the connection to each port of the host being probed
    touched,     \* every host that was looked up or connected to
    answered,    \* every <<host, port>> that accepted a connection
    runs         \* the rows of attack_surface_scan_runs

scanVars == <<policy, target, pc, hostnames, hosts, port, touched, answered, runs>>

Ports == 1..Len(COMMON_PORTS)
Idle == [i \in Ports |-> "waiting"]
Host == hostnames[Len(hosts) + 1]

SurfaceTypeOK ==
    /\ policy \in [allowed_domains : SUBSET Rule, denied_domains : SUBSET Rule]
    /\ target \in Identifiers
    /\ pc \in {"gate", "discover", "resolve", "probe", "save", "done", "failed"}
    /\ IsInjective(hostnames) /\ ToSet(hostnames) \subseteq Identifiers
    /\ Len(hosts) <= Len(hostnames)
    /\ port \in [Ports -> {"waiting", "connecting", "open", "closed"}]
    /\ Quantify(Ports, LAMBDA i : port[i] = "connecting") <= DEFAULT_CONCURRENCY
    /\ touched \subseteq ToSet(hostnames)
    /\ Len(runs) <= 1

ScanInit ==
    /\ \E allowed \in AllowLists, denied \in DenyLists :
          policy = [allowed_domains |-> _normalize_str_list(allowed),
                    denied_domains  |-> _normalize_str_list(denied)]
    /\ target \in Identifiers
    /\ pc = "gate"
    /\ hostnames = <<>> /\ hosts = <<>>
    /\ port = Idle
    /\ touched = {} /\ answered = {}
    /\ runs = <<>>

-----------------------------------------------------------------------------
(* run_scan *)

\* SurfaceScanRepository.save: the scan's id is new, so a row is added.
save(in_scope, found) == runs' = Append(runs, [in_scope |-> in_scope, hosts |-> found])

\* Out of scope, an empty result is saved and returned; nothing else runs.
Refuse ==
    /\ pc = "gate"
    /\ ~InScope(policy, target, "domain")
    /\ save(FALSE, <<>>)
    /\ pc' = "done"
    /\ UNCHANGED <<policy, target, hostnames, hosts, port, touched, answered>>

Admit ==
    /\ pc = "gate"
    /\ InScope(policy, target, "domain")
    /\ pc' = "discover"
    /\ UNCHANGED <<policy, target, hostnames, hosts, port, touched, answered, runs>>

\* The root as the caller wrote it, then each new name of the certificates.
_extract_hostnames(domain, identities) ==
    LET names == [i \in DOMAIN identities |-> Cleaned[identities[i]]]
    IN  FromKeys(<<domain>> \o Kept(names, LAMBDA name : name # NoHost))

\* Certificates, or the fixture that stands in for them, name the hosts.
Discover ==
    /\ pc = "discover"
    /\ \E answer \in CtAnswers : hostnames' = _extract_hostnames(target, answer)
    /\ pc' = "resolve"
    /\ UNCHANGED <<policy, target, hosts, port, touched, answered, runs>>

\* resolve_hostname: a failed lookup is an empty list, and probing follows.
Resolve ==
    /\ pc = "resolve"
    /\ Host \notin Unencodable
    /\ touched' = touched \cup {Host}
    /\ pc' = "probe"
    /\ UNCHANGED <<policy, target, hostnames, hosts, port, answered, runs>>

\* Mutant of Connect: the semaphore admits one connection too many.
Connect_OneMore(i) ==
    /\ pc = "probe"
    /\ port[i] = "waiting"
    /\ \A j \in 1..(i - 1) : port[j] # "waiting"
    /\ Quantify(Ports, LAMBDA j : port[j] = "connecting") <= DEFAULT_CONCURRENCY
    /\ port' = [port EXCEPT ![i] = "connecting"]
    /\ UNCHANGED <<policy, target, pc, hostnames, hosts, touched, answered, runs>>

\* Mutant of Connect: only a connection that opened gives its slot back.
Connect_SlotKept(i) ==
    /\ pc = "probe"
    /\ port[i] = "waiting"
    /\ \A j \in 1..(i - 1) : port[j] # "waiting"
    /\ Quantify(Ports, LAMBDA j : port[j] \in {"connecting", "closed"}) < DEFAULT_CONCURRENCY
    /\ port' = [port EXCEPT ![i] = "connecting"]
    /\ UNCHANGED <<policy, target, pc, hostnames, hosts, touched, answered, runs>>

\* The semaphore lets the probes in by turn.
Connect(i) ==
    /\ pc = "probe"
    /\ port[i] = "waiting"
    /\ \A j \in 1..(i - 1) : port[j] # "waiting"
    /\ Quantify(Ports, LAMBDA j : port[j] = "connecting") < DEFAULT_CONCURRENCY
    /\ port' = [port EXCEPT ![i] = "connecting"]
    /\ UNCHANGED <<policy, target, pc, hostnames, hosts, touched, answered, runs>>

\* A connection is made and closed, or is refused or times out.
Answer(i) ==
    /\ pc = "probe"
    /\ port[i] = "connecting"
    /\ \/ /\ port' = [port EXCEPT ![i] = "open"]
          /\ answered' = answered \cup {<<Host, COMMON_PORTS[i]>>}
       \/ /\ port' = [port EXCEPT ![i] = "closed"]
          /\ UNCHANGED answered
    /\ UNCHANGED <<policy, target, pc, hostnames, hosts, touched, runs>>

\* The tags of the open ports, in the order of the table.
tag_open_ports(open_ports) ==
    Kept(EXPOSURE_TAGS, LAMBDA p : p \in ToSet(open_ports))

\* Mutant of NextHost: the probes of one host are kept for the next.
NextHost_KeepsProbes ==
    /\ pc = "probe"
    /\ \A i \in Ports : port[i] \in {"open", "closed"}
    /\ LET open_ports == Ascending({COMMON_PORTS[i] : i \in {j \in Ports : port[j] = "open"}})
       IN  hosts' = Append(hosts, [hostname   |-> Host,
                                   open_ports |-> open_ports,
                                   unexpected_exposure_tags |-> tag_open_ports(open_ports)])
    /\ pc' = IF Len(hosts') = Len(hostnames) THEN "save" ELSE "resolve"
    /\ UNCHANGED <<policy, target, hostnames, port, touched, answered, runs>>

\* Every port has answered: the host is reported, its ports sorted.
NextHost ==
    /\ pc = "probe"
    /\ \A i \in Ports : port[i] \in {"open", "closed"}
    /\ LET open_ports == Ascending({COMMON_PORTS[i] : i \in {j \in Ports : port[j] = "open"}})
       IN  hosts' = Append(hosts, [hostname   |-> Host,
                                   open_ports |-> open_ports,
                                   unexpected_exposure_tags |-> tag_open_ports(open_ports)])
    /\ port' = Idle
    /\ pc' = IF Len(hosts') = Len(hostnames) THEN "save" ELSE "resolve"
    /\ UNCHANGED <<policy, target, hostnames, touched, answered, runs>>

Save ==
    /\ pc = "save"
    /\ save(TRUE, hosts)
    /\ pc' = "done"
    /\ UNCHANGED <<policy, target, hostnames, hosts, port, touched, answered>>

\* The request fails with nothing saved: the certificates are no list of
\* objects, a name cannot be looked up at all, or the commit fails.
ScanFails ==
    /\ \/ pc \in {"gate", "discover", "save"}
       \/ pc = "resolve" /\ Host \in Unencodable
    /\ pc' = "failed"
    /\ UNCHANGED <<policy, target, hostnames, hosts, port, touched, answered, runs>>

ScanNext ==
    \/ Refuse \/ Admit \/ Discover \/ Resolve \/ NextHost \/ Save \/ ScanFails
    \/ \E i \in Ports : Connect(i) \/ Answer(i)

ScanSpec == ScanInit /\ [][ScanNext]_scanVars

\* Lookups end and connections time out.
FairScanSpec == ScanSpec /\ WF_scanVars(ScanNext)

-----------------------------------------------------------------------------
(* What a scan promises *)

\* "Scope-gate FIRST, then (only if in scope) ..." (AttackSurfaceService): a
\* host is only touched under a policy that admits the root, whatever is on
\* its lists, and a run out of scope is saved empty.
NothingTouchedOutOfScope ==
    HostIn[target] \notin AdmittedHosts(policy) =>
        /\ touched = {}
        /\ \A r \in DOMAIN runs : runs[r] = [in_scope |-> FALSE, hosts |-> <<>>]

\* A saved report is true: the root and then every host visited, each once,
\* with the ports that accepted a connection of that host, in order, and a tag
\* for exactly those that the table names (run_scan, probe_ports).
ReportIsTrue ==
    \A r \in DOMAIN runs : runs[r].in_scope =>
        /\ Len(runs[r].hosts) = Len(hostnames)
        /\ \A h \in DOMAIN hostnames :
              LET host == runs[r].hosts[h]
              IN  /\ host.hostname = hostnames[h]
                  /\ ToSet(host.open_ports) = {p \in ToSet(COMMON_PORTS) :
                                                  <<hostnames[h], p>> \in answered}
                  /\ \A i, j \in DOMAIN host.open_ports :
                        i < j => host.open_ports[i] < host.open_ports[j]
                  /\ ToSet(host.unexpected_exposure_tags)
                        = ToSet(host.open_ports) \cap ToSet(EXPOSURE_TAGS)

\* Under the policy of the request with any technique forbidden and any of the
\* limits, an action is allowed only on an admitted target, never past a hard
\* limit, and unasked exactly when it is harmless (validate_action).
ActionsAreGated ==
    pc = "gate" =>
        \A forbidden \in SUBSET Techniques, limits \in SampleLimits, action \in SampleActions :
            LET whole   == [allowed_domains |-> policy.allowed_domains,
                            denied_domains  |-> policy.denied_domains,
                            forbidden_techniques |-> forbidden, limits |-> limits]
                verdict == validate_action(whole, action)
                host    == _normalize_target(action.target_identifier, action.target_type)
            IN  /\ verdict.allowed <=>
                      /\ host \in AdmittedHosts(whole)
                      /\ action.mentions \cap forbidden = {}
                      /\ action.request_rate_per_minute <= limits.max_requests_per_minute
                      /\ action.target_count <= limits.max_targets_per_execution
                /\ verdict.allowed /\ ~verdict.requires_manual_approval
                      <=> host \in AdmittedHosts(whole) /\ Harmless(whole, action)

\* Every scan ends, its hosts all visited or its request failed.
ScanEnds == <>(pc \in {"done", "failed"})
=============================================================================
