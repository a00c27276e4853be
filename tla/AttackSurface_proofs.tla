------------------------- MODULE AttackSurface_proofs -----------------------
(***************************************************************************)
(* What the scope guard decides, for every policy, target and action; and  *)
(* the scan behind it, for every policy, target and network.               *)
(***************************************************************************)
EXTENDS AttackSurface, Ordering_proofs

-----------------------------------------------------------------------------
(* The scope guard *)

\* The hosts that a set of rules names, and those that match one of them.
LEMMA MatchIsNamed ==
    ASSUME NEW rules \in SUBSET Rule, NEW host \in Hosts
    PROVE  _match_first(host, rules)
             <=> host \in {rule.host : rule \in {r \in rules : ~r.wildcard}}
                          \cup UNION {SubdomainsOf[rule.host] : rule \in {r \in rules : r.wildcard}}
BY DEF _match_first, _domain_matches, Rule

\* A target is admitted exactly when its host is on the allowlist and not on
\* the denylist, whatever the order of the checks; an empty allowlist admits
\* nothing (validate_target_in_scope).
THEOREM ScopeIsAllowedNotDenied ==
    ASSUME NEW program,
           program.allowed_domains \subseteq Rule, program.denied_domains \subseteq Rule,
           NEW identifier \in Identifiers, NEW target_type
    PROVE  InScope(program, identifier, target_type)
             <=> _normalize_target(identifier, target_type) \in AdmittedHosts(program)
<1> DEFINE host == _normalize_target(identifier, target_type)
<1>1. host \in Hosts \cup {NoHost}
  BY GuardAssumption DEF _normalize_target
<1>2. CASE host = NoHost
  <2>1. ~InScope(program, identifier, target_type)
    BY <1>2 DEF InScope, validate_target_in_scope
  <2>2. AdmittedHosts(program) \subseteq Hosts
    BY GuardAssumption DEF AdmittedHosts, Rule
  <2>3. QED
    BY <1>2, <2>1, <2>2, GuardAssumption
<1>3. CASE host \in Hosts
  <2>1. host # NoHost
    BY <1>3, GuardAssumption
  <2>2. InScope(program, identifier, target_type)
          <=> _match_first(host, program.allowed_domains) /\ ~_match_first(host, program.denied_domains)
    BY <2>1 DEF InScope, validate_target_in_scope, _match_first
  <2>3. QED
    BY <1>3, <2>2, MatchIsNamed DEF AdmittedHosts
<1>4. QED
  BY <1>1, <1>2, <1>3

\* Nothing is in scope under an empty allowlist.
COROLLARY EmptyAllowlistAdmitsNothing ==
    ASSUME NEW program,
           program.allowed_domains = {}, program.denied_domains \subseteq Rule,
           NEW identifier \in Identifiers, NEW target_type
    PROVE  ~InScope(program, identifier, target_type)
BY DEF InScope, validate_target_in_scope

\* No reason asks for a person exactly when nothing is over the softer lines.
LEMMA NoReason ==
    ASSUME NEW program \in ProgramPolicy, NEW action \in ProposedAction
    PROVE  requires_manual_approval(program, action) = {}
             <=> /\ ~_matches_technique(action, program.limits.manual_approval_techniques)
                 /\ ~(action.request_rate_per_minute > program.limits.manual_approval_request_rate)
                 /\ ~action.state_changing
                 /\ ~action.requires_authentication
<1> DEFINE reasons == requires_manual_approval(program, action)
<1>1. "technique" \in reasons
        <=> _matches_technique(action, program.limits.manual_approval_techniques)
  BY DEF requires_manual_approval
<1>2. "rate" \in reasons
        <=> action.request_rate_per_minute > program.limits.manual_approval_request_rate
  BY DEF requires_manual_approval
<1>3. "state_changing" \in reasons <=> action.state_changing
  BY DEF requires_manual_approval
<1>4. "authenticated" \in reasons <=> action.requires_authentication
  BY DEF requires_manual_approval
<1>5. reasons \subseteq {"technique", "rate", "state_changing", "authenticated"}
  BY DEF requires_manual_approval
<1> HIDE DEF reasons
<1>6. reasons = {} <=> /\ "technique" \notin reasons /\ "rate" \notin reasons
                       /\ "state_changing" \notin reasons /\ "authenticated" \notin reasons
  BY <1>5
<1>7. QED
  BY <1>1, <1>2, <1>3, <1>4, <1>6 DEF reasons

\* An action is allowed exactly when its target is admitted and it is past no
\* hard limit, and goes ahead unasked exactly when besides it is harmless: no
\* person's agreement lifts a block (validate_action).
THEOREM ActionsAreGatedAlways ==
    ASSUME NEW program \in ProgramPolicy, NEW action \in ProposedAction
    PROVE  LET verdict == validate_action(program, action)
               host    == _normalize_target(action.target_identifier, action.target_type)
           IN  /\ verdict.allowed <=>
                     /\ host \in AdmittedHosts(program)
                     /\ action.mentions \cap program.forbidden_techniques = {}
                     /\ action.request_rate_per_minute <= program.limits.max_requests_per_minute
                     /\ action.target_count <= program.limits.max_targets_per_execution
               /\ verdict.allowed /\ ~verdict.requires_manual_approval
                     <=> host \in AdmittedHosts(program) /\ Harmless(program, action)
<1> DEFINE host  == _normalize_target(action.target_identifier, action.target_type)
           scope == validate_target_in_scope(program, action.target_identifier, action.target_type)
           block == block_prohibited_action(program, action)
           asks  == requires_manual_approval(program, action)
<1>1. /\ program.allowed_domains \subseteq Rule /\ program.denied_domains \subseteq Rule
      /\ program.limits \in ProgramPolicyLimits
  BY DEF ProgramPolicy
<1>2. /\ program.limits.manual_approval_request_rate \in Nat
      /\ program.limits.max_requests_per_minute \in Nat
      /\ program.limits.max_targets_per_execution \in Nat
      /\ program.limits.manual_approval_request_rate <= program.limits.max_requests_per_minute
  BY <1>1 DEF ProgramPolicyLimits
<1>3. /\ action.target_identifier \in Identifiers
      /\ action.request_rate_per_minute \in Nat /\ action.target_count \in Nat
  BY DEF ProposedAction
<1>4. scope = "in_scope" <=> host \in AdmittedHosts(program)
  BY <1>1, <1>3, ScopeIsAllowedNotDenied DEF InScope
<1>5. block = "action_allowed" <=>
        /\ ~_matches_technique(action, program.forbidden_techniques)
        /\ ~(action.request_rate_per_minute > program.limits.max_requests_per_minute)
        /\ ~(action.target_count > program.limits.max_targets_per_execution)
  BY DEF block_prohibited_action
<1>6. block = "action_allowed" <=>
        /\ action.mentions \cap program.forbidden_techniques = {}
        /\ action.request_rate_per_minute <= program.limits.max_requests_per_minute
        /\ action.target_count <= program.limits.max_targets_per_execution
  BY <1>2, <1>3, <1>5 DEF _matches_technique
<1>7. block = "action_allowed" /\ asks = {} <=> Harmless(program, action)
  <2>1. asks = {} <=> /\ action.mentions \cap program.limits.manual_approval_techniques = {}
                      /\ action.request_rate_per_minute <= program.limits.manual_approval_request_rate
                      /\ ~action.state_changing /\ ~action.requires_authentication
    BY <1>2, <1>3, NoReason DEF _matches_technique
  <2> HIDE DEF asks, block
  <2>2. action.request_rate_per_minute <= program.limits.manual_approval_request_rate
          => action.request_rate_per_minute <= program.limits.max_requests_per_minute
    BY <1>2, <1>3
  <2>3. action.mentions \cap (program.forbidden_techniques
                                \cup program.limits.manual_approval_techniques) = {}
          <=> /\ action.mentions \cap program.forbidden_techniques = {}
              /\ action.mentions \cap program.limits.manual_approval_techniques = {}
    OBVIOUS
  <2>4. QED
    BY <1>6, <2>1, <2>2, <2>3 DEF Harmless
<1> DEFINE verdict == validate_action(program, action)
<1>8. verdict =
        IF scope # "in_scope"
        THEN [allowed |-> FALSE, requires_manual_approval |-> FALSE, code |-> scope]
        ELSE IF block # "action_allowed"
        THEN [allowed |-> FALSE, requires_manual_approval |-> FALSE, code |-> block]
        ELSE IF asks # {}
        THEN [allowed |-> TRUE, requires_manual_approval |-> TRUE,
              code |-> "manual_approval_required"]
        ELSE [allowed |-> TRUE, requires_manual_approval |-> FALSE, code |-> "allowed"]
  BY DEF validate_action
<1> HIDE DEF verdict, scope, block, asks
<1>9. verdict.allowed <=> scope = "in_scope" /\ block = "action_allowed"
  BY <1>8
<1>10. verdict.allowed /\ ~verdict.requires_manual_approval
         <=> scope = "in_scope" /\ block = "action_allowed" /\ asks = {}
  BY <1>8
<1>11. QED
  BY <1>4, <1>6, <1>7, <1>9, <1>10 DEF verdict

-----------------------------------------------------------------------------
(* The gate of a scan *)

\* The state before the gate, and past it when the root is not admitted.
GateInv ==
    /\ policy.allowed_domains \subseteq Rule /\ policy.denied_domains \subseteq Rule
    /\ target \in Identifiers
    /\ pc = "gate" => touched = {} /\ runs = <<>>
    /\ HostIn[target] \notin AdmittedHosts(policy) =>
          /\ pc \in {"gate", "done", "failed"}
          /\ touched = {}
          /\ runs = <<>> \/ runs = <<[in_scope |-> FALSE, hosts |-> <<>>]>>

\* The lists of a policy hold rules.
LEMMA ListsAreRules ==
    ASSUME NEW raw \in AllowLists \cup DenyLists
    PROVE  _normalize_str_list(raw) \subseteq Rule
<1>1. raw \subseteq RawRules
  BY SurfaceAssumption
<1>2. QED
  BY <1>1, GuardAssumption DEF _normalize_str_list, Rule

LEMMA GateInitially == ScanInit => GateInv
<1> SUFFICES ASSUME ScanInit PROVE GateInv
  OBVIOUS
<1>1. PICK allowed \in AllowLists, denied \in DenyLists :
        policy = [allowed_domains |-> _normalize_str_list(allowed),
                  denied_domains  |-> _normalize_str_list(denied)]
  BY DEF ScanInit
<1>2. _normalize_str_list(allowed) \subseteq Rule /\ _normalize_str_list(denied) \subseteq Rule
  BY ListsAreRules
<1>3. policy.allowed_domains \subseteq Rule /\ policy.denied_domains \subseteq Rule
  BY <1>1, <1>2
<1>4. target \in Identifiers /\ pc = "gate" /\ touched = {} /\ runs = <<>>
  BY DEF ScanInit
<1>5. QED
  BY <1>3, <1>4 DEF GateInv

\* The gate decides by the host of the root.
LEMMA GateDecides ==
    ASSUME GateInv
    PROVE  InScope(policy, target, "domain") <=> HostIn[target] \in AdmittedHosts(policy)
<1>1. _normalize_target(target, "domain") = HostIn[target]
  BY DEF _normalize_target
<1>2. QED
  BY <1>1, ScopeIsAllowedNotDenied DEF GateInv

LEMMA GateStep == GateInv /\ [ScanNext]_scanVars => GateInv'
<1> SUFFICES ASSUME GateInv, [ScanNext]_scanVars PROVE GateInv'
  OBVIOUS
<1> DEFINE Inside == HostIn[target] \in AdmittedHosts(policy)
<1>1. InScope(policy, target, "domain") <=> Inside
  BY GateDecides
<1>2. policy' = policy /\ target' = target
  BY DEF ScanNext, scanVars, Refuse, Admit, Discover, Resolve, Connect, Answer, NextHost, Save,
         ScanFails
<1>3. Inside' <=> Inside
  BY <1>2 DEF AdmittedHosts
<1>4. CASE Refuse
  <2>1. pc = "gate" /\ pc' = "done" /\ touched' = touched
        /\ runs' = Append(runs, [in_scope |-> FALSE, hosts |-> <<>>])
    BY <1>4 DEF Refuse, save
  <2>2. runs = <<>> /\ touched = {}
    BY <2>1 DEF GateInv
  <2>3. runs' = <<[in_scope |-> FALSE, hosts |-> <<>>]>>
    BY <2>1, <2>2
  <2>4. QED
    BY <1>2, <1>3, <2>1, <2>2, <2>3 DEF GateInv
<1>5. CASE Admit
  <2>1. Inside
    BY <1>1, <1>5 DEF Admit
  <2>2. QED
    BY <1>2, <1>3, <1>5, <2>1 DEF GateInv, Admit
<1>6. CASE Discover \/ Resolve \/ NextHost \/ Save \/ \E i \in Ports : Connect(i) \/ Answer(i)
  <2>1. pc \notin {"gate", "done", "failed"} /\ pc' # "gate"
    BY <1>6 DEF Discover, Resolve, NextHost, Save, Connect, Answer
  <2>2. Inside
    BY <2>1 DEF GateInv
  <2>3. QED
    BY <1>2, <1>3, <2>1, <2>2 DEF GateInv
<1>7. CASE ScanFails
  BY <1>2, <1>3, <1>7 DEF GateInv, ScanFails
<1>8. CASE UNCHANGED scanVars
  BY <1>2, <1>3, <1>8 DEF GateInv, scanVars
<1>9. QED
  BY <1>4, <1>5, <1>6, <1>7, <1>8 DEF ScanNext

\* Whatever is on its lists, a scan whose root is not admitted never passes the
\* gate (run_scan).
THEOREM GateHolds == ScanSpec => []GateInv
BY GateInitially, GateStep, PTL DEF ScanSpec

\* Nothing is looked up or connected to, and nothing but a refusal is saved,
\* unless the policy admits the root (run_scan).
THEOREM ScansStayHome == ScanSpec => []NothingTouchedOutOfScope
<1>1. GateInv => NothingTouchedOutOfScope
  BY DEF GateInv, NothingTouchedOutOfScope
<1>2. QED
  BY <1>1, GateHolds, PTL

\* Every action on a target of the scan's policy is gated as the guard says,
\* under any technique lists and limits (validate_action).
THEOREM PoliciesGateActions == ScanSpec => []ActionsAreGated
<1>1. GateInv => ActionsAreGated
  <2> SUFFICES ASSUME GateInv, pc = "gate",
                      NEW forbidden \in SUBSET Techniques, NEW limits \in SampleLimits,
                      NEW action \in SampleActions
               PROVE  LET whole   == [allowed_domains |-> policy.allowed_domains,
                                      denied_domains  |-> policy.denied_domains,
                                      forbidden_techniques |-> forbidden, limits |-> limits]
                          verdict == validate_action(whole, action)
                          host    == _normalize_target(action.target_identifier, action.target_type)
                      IN  /\ verdict.allowed <=>
                                /\ host \in AdmittedHosts(whole)
                                /\ action.mentions \cap forbidden = {}
                                /\ action.request_rate_per_minute <= limits.max_requests_per_minute
                                /\ action.target_count <= limits.max_targets_per_execution
                          /\ verdict.allowed /\ ~verdict.requires_manual_approval
                                <=> host \in AdmittedHosts(whole) /\ Harmless(whole, action)
    BY Zenon DEF ActionsAreGated
  <2> DEFINE whole == [allowed_domains |-> policy.allowed_domains,
                       denied_domains  |-> policy.denied_domains,
                       forbidden_techniques |-> forbidden, limits |-> limits]
  <2>1. limits \in ProgramPolicyLimits /\ action \in ProposedAction
    BY SurfaceAssumption
  <2>2. whole \in ProgramPolicy
    BY <2>1 DEF GateInv, ProgramPolicy
  <2>3. whole.forbidden_techniques = forbidden /\ whole.limits = limits
    OBVIOUS
  <2> HIDE DEF whole
  <2>4. LET verdict == validate_action(whole, action)
            host    == _normalize_target(action.target_identifier, action.target_type)
        IN  /\ verdict.allowed <=>
                  /\ host \in AdmittedHosts(whole)
                  /\ action.mentions \cap whole.forbidden_techniques = {}
                  /\ action.request_rate_per_minute <= whole.limits.max_requests_per_minute
                  /\ action.target_count <= whole.limits.max_targets_per_execution
            /\ verdict.allowed /\ ~verdict.requires_manual_approval
                  <=> host \in AdmittedHosts(whole) /\ Harmless(whole, action)
    BY <2>1, <2>2, ActionsAreGatedAlways
  <2>5. QED
    BY <2>3, <2>4 DEF whole
<1>2. QED
  BY <1>1, GateHolds, PTL

-----------------------------------------------------------------------------
(* The report of a scan *)

DiscoveredHost ==
    [hostname : Identifiers, open_ports : Seq(Nat), unexpected_exposure_tags : Seq(Nat)]

\* Whatever the certificates say, the hosts to visit are distinct, and the
\* root is one of them.
LEMMA HostnamesAreDistinct ==
    ASSUME NEW domain \in Identifiers, NEW identities \in Seq(DOMAIN Cleaned)
    PROVE  /\ _extract_hostnames(domain, identities) \in Seq(Identifiers)
           /\ IsInjective(_extract_hostnames(domain, identities))
           /\ _extract_hostnames(domain, identities) # <<>>
<1> DEFINE names == [i \in DOMAIN identities |-> Cleaned[identities[i]]]
           places == {i \in DOMAIN names : names[i] # NoHost}
           told == Picked(names, places)
           all == <<domain>> \o told
           any == Identifiers \cup {NoHost}
<1>1. names \in Seq(any)
  <2>1. Len(identities) \in Nat /\ DOMAIN identities = 1..Len(identities)
    BY LenProperties
  <2>2. \A i \in 1..Len(identities) : identities[i] \in DOMAIN Cleaned
    BY ElementOfSeq
  <2>3. \A i \in 1..Len(identities) : Cleaned[identities[i]] \in any
    BY <2>2, SurfaceAssumption
  <2>4. names \in [1..Len(identities) -> any]
    BY <2>1, <2>3
  <2>5. QED
    BY <2>1, <2>4
<1>2. told \in Seq(any) /\ ToSet(told) = {names[i] : i \in places}
  <2>1. places \in SUBSET DOMAIN names
    OBVIOUS
  <2> HIDE DEF names, places
  <2>2. QED
    BY <1>1, <2>1, PickedInOrder
<1>3. \A i \in DOMAIN names : names[i] \in any
  <2> HIDE DEF names
  <2>1. DOMAIN names = 1..Len(names)
    BY <1>1, LenProperties
  <2>2. QED
    BY <1>1, <2>1, ElementOfSeq
<1>4. ToSet(told) \subseteq Identifiers
  <2> HIDE DEF names
  <2>1. \A i \in places : names[i] \in Identifiers
    BY <1>3
  <2>2. QED
    BY <1>2, <2>1
<1>5. told \in Seq(Identifiers)
  <2> HIDE DEF told, any
  <2>1. QED
    BY <1>2, <1>4, SeqOfItsElements
<1>6. all \in Seq(Identifiers) /\ all # <<>>
  <2> HIDE DEF told
  <2>1. <<domain>> \in Seq(Identifiers) /\ Len(<<domain>>) = 1
    OBVIOUS
  <2>2. all \in Seq(Identifiers) /\ Len(all) = 1 + Len(told) /\ Len(told) \in Nat
    BY <1>5, <2>1, ConcatProperties, LenProperties
  <2>3. QED
    BY <2>2
<1>7. _extract_hostnames(domain, identities) = FromKeys(all)
  BY DEF _extract_hostnames, Kept
<1> HIDE DEF all
<1>8. QED
  BY <1>6, <1>7, FromKeysIsUnique

\* The ports open on a host, in order.
Found == Ascending({COMMON_PORTS[i] : i \in {j \in Ports : port[j] = "open"}})

LEMMA PortsAreSome ==
    ASSUME NEW open \in SUBSET Ports
    PROVE  /\ {COMMON_PORTS[i] : i \in open} \in SUBSET Nat
           /\ IsFiniteSet({COMMON_PORTS[i] : i \in open})
<1> DEFINE ports == {COMMON_PORTS[i] : i \in open}
           f == [i \in open |-> COMMON_PORTS[i]]
<1>1. COMMON_PORTS \in Seq(Nat) /\ Len(COMMON_PORTS) \in Nat
  BY SurfaceAssumption, LenProperties
<1>2. \A i \in open : COMMON_PORTS[i] \in Nat
  BY <1>1, ElementOfSeq DEF Ports
<1>3. IsFiniteSet(open)
  <2>1. IsFiniteSet(Ports)
    <3>1. 1 \in Int /\ Len(COMMON_PORTS) \in Int
      BY <1>1
    <3>2. QED
      BY <3>1, FS_Interval DEF Ports
  <2>2. QED
    BY <2>1, FS_Subset
<1>4. f \in Surjection(open, ports)
  BY DEF Surjection
<1>5. IsFiniteSet(ports)
  <2> HIDE DEF f, ports
  <2>1. QED
    BY <1>3, <1>4, FS_Surjection
<1>6. QED
  BY <1>2, <1>5

\* sorted(open_ports) and its tags, whatever ports are open.
LEMMA PortsFound ==
    /\ Found \in Seq(Nat)
    /\ ToSet(Found) = {COMMON_PORTS[i] : i \in {j \in Ports : port[j] = "open"}}
    /\ \A i, j \in DOMAIN Found : i < j => Found[i] < Found[j]
<1> DEFINE open == {j \in Ports : port[j] = "open"}
<1>1. PICK ports : ports = {COMMON_PORTS[i] : i \in open}
  OBVIOUS
<1>2. ports \in SUBSET Nat /\ IsFiniteSet(ports)
  BY <1>1, PortsAreSome
<1>3. PICK a : a = Ascending(ports)
  OBVIOUS
<1>4. /\ a \in Seq(ports) /\ DOMAIN a = 1..Len(a) /\ Ascends(a)
      /\ \A p \in ports : \E n \in DOMAIN a : a[n] = p
  BY <1>2, <1>3, AscendingIsSorted
<1>5. \A n \in DOMAIN a : a[n] \in ports
  BY <1>4, ElementOfSeq
<1>6. ToSet(a) = ports
  BY <1>4, <1>5 DEF ToSet
<1>7. a \in Seq(Nat)
  BY <1>2, <1>4, SeqOfItsElements, <1>6
<1>8. Found = a
  BY <1>1, <1>3 DEF Found
<1>9. QED
  BY <1>1, <1>4, <1>6, <1>7, <1>8 DEF Ascends

LEMMA TagsOfPorts ==
    ASSUME NEW open_ports \in Seq(Nat)
    PROVE  /\ tag_open_ports(open_ports) \in Seq(Nat)
           /\ ToSet(tag_open_ports(open_ports)) = ToSet(open_ports) \cap ToSet(EXPOSURE_TAGS)
<1> DEFINE places == {i \in DOMAIN EXPOSURE_TAGS : EXPOSURE_TAGS[i] \in ToSet(open_ports)}
<1>1. EXPOSURE_TAGS \in Seq(Nat)
  BY SurfaceAssumption
<1>2. tag_open_ports(open_ports) = Picked(EXPOSURE_TAGS, places)
  BY DEF tag_open_ports, Kept
<1>3. /\ Picked(EXPOSURE_TAGS, places) \in Seq(Nat)
      /\ ToSet(Picked(EXPOSURE_TAGS, places)) = {EXPOSURE_TAGS[i] : i \in places}
  <2>1. places \in SUBSET DOMAIN EXPOSURE_TAGS
    OBVIOUS
  <2> HIDE DEF places
  <2>2. QED
    BY <1>1, <2>1, PickedInOrder
<1>4. {EXPOSURE_TAGS[i] : i \in places} = ToSet(open_ports) \cap ToSet(EXPOSURE_TAGS)
  BY DEF ToSet
<1>5. QED
  BY <1>2, <1>3, <1>4

Connecting == {i \in Ports : port[i] = "connecting"}

\* What SurfaceTypeOK needs besides to be kept: where the scan may be with which
\* hosts visited, and that the connections of one host are over before the next.
ScanInv ==
    /\ SurfaceTypeOK
    /\ hostnames \in Seq(Identifiers) /\ hosts \in Seq(DiscoveredHost)
    /\ pc \in {"gate", "discover"} =>
          hostnames = <<>> /\ hosts = <<>> /\ touched = {} /\ answered = {}
    /\ pc \in {"resolve", "probe"} => Len(hosts) < Len(hostnames)
    /\ pc = "save" => Len(hosts) = Len(hostnames)
    /\ pc # "probe" => port = Idle
    /\ pc # "done" => runs = <<>>

\* What is reported of a host.
IsTrueOf(host, name) ==
    /\ host.hostname = name
    /\ ToSet(host.open_ports) = {p \in ToSet(COMMON_PORTS) : <<name, p>> \in answered}
    /\ \A i, j \in DOMAIN host.open_ports : i < j => host.open_ports[i] < host.open_ports[j]
    /\ ToSet(host.unexpected_exposure_tags) = ToSet(host.open_ports) \cap ToSet(EXPOSURE_TAGS)

\* The hosts visited are reported as they answered, the one being visited has
\* answered at the ports noted open, and no host has answered ahead of its turn.
ReportInv ==
    /\ \A h \in 1..Len(hosts) : IsTrueOf(hosts[h], hostnames[h])
    /\ \A h \in 1..Len(hostnames), p \in ToSet(COMMON_PORTS) :
          <<hostnames[h], p>> \in answered =>
             \/ h <= Len(hosts)
             \/ /\ h = Len(hosts) + 1
                /\ \E i \in Ports : COMMON_PORTS[i] = p /\ port[i] = "open"
    /\ pc = "probe" => \A i \in Ports : port[i] = "open" => <<Host, COMMON_PORTS[i]>> \in answered
    /\ \A r \in DOMAIN runs : runs[r].in_scope =>
          runs[r].hosts = hosts /\ Len(hosts) = Len(hostnames)

LEMMA VisitedLengths ==
    ASSUME ScanInv
    PROVE  /\ Len(hosts) \in Nat /\ DOMAIN hosts = 1..Len(hosts)
           /\ Len(hostnames) \in Nat /\ DOMAIN hostnames = 1..Len(hostnames)
           /\ \A h \in 1..Len(hostnames) : hostnames[h] \in Identifiers
           /\ \A h, k \in 1..Len(hostnames) : hostnames[h] = hostnames[k] => h = k
<1>1. hosts \in Seq(DiscoveredHost) /\ hostnames \in Seq(Identifiers) /\ IsInjective(hostnames)
  BY DEF ScanInv, SurfaceTypeOK
<1>2. /\ Len(hosts) \in Nat /\ DOMAIN hosts = 1..Len(hosts)
      /\ Len(hostnames) \in Nat /\ DOMAIN hostnames = 1..Len(hostnames)
  BY <1>1, LenProperties
<1>3. \A h \in 1..Len(hostnames) : hostnames[h] \in Identifiers
  BY <1>1, ElementOfSeq
<1>4. QED
  BY <1>1, <1>2, <1>3 DEF IsInjective

\* The host being visited is the next of those to visit.
LEMMA HostIsNext ==
    ASSUME ScanInv, pc \in {"resolve", "probe"}
    PROVE  /\ Len(hosts) + 1 \in 1..Len(hostnames)
           /\ Host \in Identifiers /\ Host \in ToSet(hostnames)
<1>1. Len(hosts) < Len(hostnames)
  BY DEF ScanInv
<1>2. Len(hosts) + 1 \in 1..Len(hostnames)
  BY <1>1, VisitedLengths
<1>3. QED
  BY <1>2, VisitedLengths DEF Host, ToSet

LEMMA ConnectingIsFinite ==
    IsFiniteSet(Connecting) /\ Quantify(Ports, LAMBDA i : port[i] = "connecting") = Cardinality(Connecting)
<1>1. Len(COMMON_PORTS) \in Int
  BY SurfaceAssumption, LenProperties
<1>2. IsFiniteSet(Ports)
  BY <1>1, FS_Interval DEF Ports
<1>3. Connecting \in SUBSET Ports
  BY DEF Connecting
<1>4. QED
  BY <1>2, <1>3, FS_Subset DEF Connecting, Quantify

LEMMA ScanInitially == ScanInit => ScanInv /\ ReportInv
<1> SUFFICES ASSUME ScanInit PROVE ScanInv /\ ReportInv
  OBVIOUS
<1>1. PICK allowed \in AllowLists, denied \in DenyLists :
        policy = [allowed_domains |-> _normalize_str_list(allowed),
                  denied_domains  |-> _normalize_str_list(denied)]
  BY DEF ScanInit
<1>2. _normalize_str_list(allowed) \subseteq Rule /\ _normalize_str_list(denied) \subseteq Rule
  BY ListsAreRules
<1>3. policy \in [allowed_domains : SUBSET Rule, denied_domains : SUBSET Rule]
  BY <1>1, <1>2
<1>4. /\ target \in Identifiers /\ pc = "gate" /\ port = Idle
      /\ hostnames = <<>> /\ hosts = <<>> /\ touched = {} /\ answered = {} /\ runs = <<>>
  BY DEF ScanInit
<1>5. port \in [Ports -> {"waiting", "connecting", "open", "closed"}] /\ Connecting = {}
  BY <1>4 DEF Idle, Connecting
<1>6. Quantify(Ports, LAMBDA i : port[i] = "connecting") <= DEFAULT_CONCURRENCY
  BY <1>5, ConnectingIsFinite, FS_EmptySet, SurfaceAssumption
<1>7. /\ <<>> \in Seq(Identifiers) /\ <<>> \in Seq(DiscoveredHost) /\ Len(<<>>) = 0
      /\ DOMAIN <<>> = {}
  BY EmptySeq
<1>8. IsInjective(hostnames) /\ ToSet(hostnames) = {}
  BY <1>4, <1>7 DEF IsInjective, ToSet
<1>9. SurfaceTypeOK
  BY <1>3, <1>4, <1>5, <1>6, <1>7, <1>8 DEF SurfaceTypeOK
<1>10. ScanInv
  BY <1>4, <1>7, <1>9 DEF ScanInv
<1>11. ReportInv
  BY <1>4, <1>7 DEF ReportInv
<1>12. QED
  BY <1>10, <1>11

\* The semaphore: a connection is one more only when there were too few.
LEMMA ConnectionsAreFew ==
    ASSUME ScanInv, NEW i \in Ports, Connect(i) \/ Answer(i)
    PROVE  /\ port' \in [Ports -> {"waiting", "connecting", "open", "closed"}]
           /\ Quantify(Ports, LAMBDA j : port[j] = "connecting")' <= DEFAULT_CONCURRENCY
<1>1. port \in [Ports -> {"waiting", "connecting", "open", "closed"}]
  BY DEF ScanInv, SurfaceTypeOK
<1>2. IsFiniteSet(Connecting) /\ Cardinality(Connecting) \in Nat
  BY ConnectingIsFinite, FS_CardinalityType
<1>3. Cardinality(Connecting) <= DEFAULT_CONCURRENCY
  BY ConnectingIsFinite DEF ScanInv, SurfaceTypeOK
<1>4. Ports' = Ports
  BY DEF Ports
<1>5. Quantify(Ports, LAMBDA j : port[j] = "connecting")' = Cardinality(Connecting')
  BY <1>4 DEF Connecting, Quantify
<1>6. CASE Connect(i)
  <2>1. port' = [port EXCEPT ![i] = "connecting"] /\ port[i] = "waiting"
    BY <1>6 DEF Connect
  <2>2. Cardinality(Connecting) < DEFAULT_CONCURRENCY
    BY <1>6, ConnectingIsFinite DEF Connect
  <2>3. Connecting' = Connecting \cup {i}
    BY <1>1, <1>4, <2>1 DEF Connecting
  <2>4. Cardinality(Connecting') <= Cardinality(Connecting) + 1
    <3>1. Cardinality(Connecting \cup {i})
            = IF i \in Connecting THEN Cardinality(Connecting) ELSE Cardinality(Connecting) + 1
      BY <1>2, FS_AddElement
    <3>2. QED
      BY <1>2, <2>3, <3>1
  <2>5. Cardinality(Connecting') \in Nat
    <3>1. IsFiniteSet(Connecting')
      BY <1>2, <2>3, FS_AddElement
    <3>2. QED
      BY <3>1, FS_CardinalityType
  <2>6. Cardinality(Connecting') <= DEFAULT_CONCURRENCY
    BY <1>2, <2>2, <2>4, <2>5, SurfaceAssumption
  <2>7. QED
    BY <1>1, <1>5, <2>1, <2>6
<1>7. CASE Answer(i)
  <2>1. port' = [port EXCEPT ![i] = "open"] \/ port' = [port EXCEPT ![i] = "closed"]
    BY <1>7 DEF Answer
  <2>2. Connecting' \in SUBSET Connecting
    BY <1>1, <1>4, <2>1 DEF Connecting
  <2>3. Cardinality(Connecting') <= Cardinality(Connecting) /\ Cardinality(Connecting') \in Nat
    BY <1>2, <2>2, FS_Subset, FS_CardinalityType
  <2>4. Cardinality(Connecting') <= DEFAULT_CONCURRENCY
    BY <1>2, <1>3, <2>3, SurfaceAssumption
  <2>5. QED
    BY <1>1, <1>5, <2>1, <2>4
<1>8. QED
  BY <1>6, <1>7

LEMMA ConnectionsStay ==
    ASSUME ScanInv, port' = port \/ port' = Idle
    PROVE  /\ port' \in [Ports -> {"waiting", "connecting", "open", "closed"}]
           /\ Quantify(Ports, LAMBDA j : port[j] = "connecting")' <= DEFAULT_CONCURRENCY
<1>1. port \in [Ports -> {"waiting", "connecting", "open", "closed"}]
  BY DEF ScanInv, SurfaceTypeOK
<1>2. Ports' = Ports
  BY DEF Ports
<1>3. Quantify(Ports, LAMBDA j : port[j] = "connecting")' = Cardinality(Connecting')
  BY <1>2 DEF Connecting, Quantify
<1>4. CASE port' = port
  <2>1. Connecting' = Connecting
    BY <1>2, <1>4 DEF Connecting
  <2>2. Cardinality(Connecting) <= DEFAULT_CONCURRENCY
    BY ConnectingIsFinite DEF ScanInv, SurfaceTypeOK
  <2>3. QED
    BY <1>1, <1>3, <1>4, <2>1, <2>2
<1>5. CASE port' = Idle
  <2>1. Connecting' = {}
    BY <1>2, <1>5 DEF Connecting, Idle
  <2>2. Cardinality(Connecting') = 0
    BY <2>1, FS_EmptySet
  <2>3. QED
    BY <1>3, <1>5, <2>2, SurfaceAssumption DEF Idle
<1>6. QED
  BY <1>4, <1>5

\* The entry that NextHost adds.
Visited == [hostname   |-> Host, open_ports |-> Found,
            unexpected_exposure_tags |-> tag_open_ports(Found)]

LEMMA NextHostAdds ==
    ASSUME ScanInv, NextHost
    PROVE  /\ hosts' = Append(hosts, Visited) /\ hosts' \in Seq(DiscoveredHost)
           /\ Len(hosts') = Len(hosts) + 1
           /\ \A h \in 1..Len(hosts) : hosts'[h] = hosts[h]
           /\ hosts'[Len(hosts) + 1] = Visited
<1>1. hosts' = Append(hosts, Visited)
  BY DEF NextHost, Visited, Found
<1>2. Host \in Identifiers
  BY HostIsNext DEF NextHost
<1>3. Found \in Seq(Nat) /\ tag_open_ports(Found) \in Seq(Nat)
  BY PortsFound, TagsOfPorts
<1>4. Visited \in DiscoveredHost
  BY <1>2, <1>3 DEF Visited, DiscoveredHost
<1>5. hosts \in Seq(DiscoveredHost)
  BY DEF ScanInv
<1>6. QED
  BY <1>1, <1>4, <1>5, AppendProperties

LEMMA ScanInvStep == ScanInv /\ [ScanNext]_scanVars => ScanInv'
<1> SUFFICES ASSUME ScanInv, [ScanNext]_scanVars PROVE ScanInv'
  OBVIOUS
<1>1. /\ SurfaceTypeOK
      /\ hostnames \in Seq(Identifiers) /\ hosts \in Seq(DiscoveredHost)
  BY DEF ScanInv
<1>2. Ports' = Ports /\ Idle' = Idle
  BY DEF Ports, Idle
<1> DEFINE few == Quantify(Ports, LAMBDA j : port[j] = "connecting") <= DEFAULT_CONCURRENCY
           states == {"waiting", "connecting", "open", "closed"}
<1> HIDE DEF few, states
<1>3. CASE Refuse
  <2>1. /\ pc = "gate" /\ pc' = "done"
        /\ runs' = Append(runs, [in_scope |-> FALSE, hosts |-> <<>>])
        /\ UNCHANGED <<policy, target, hostnames, hosts, port, touched, answered>>
    BY <1>3 DEF Refuse, save
  <2>2. runs = <<>> /\ port = Idle
    BY <2>1 DEF ScanInv
  <2>3. Len(runs') <= 1
    BY <2>1, <2>2
  <2>4. port' \in [Ports -> states] /\ few'
    BY <2>1, ConnectionsStay DEF few, states
  <2>5. SurfaceTypeOK'
    BY <1>1, <1>2, <2>1, <2>3, <2>4 DEF SurfaceTypeOK, few, states, Quantify
  <2>6. QED
    BY <1>2, <2>1, <2>2, <2>5 DEF ScanInv
<1>4. CASE Admit
  <2>1. /\ pc = "gate" /\ pc' = "discover"
        /\ UNCHANGED <<policy, target, hostnames, hosts, port, touched, answered, runs>>
    BY <1>4 DEF Admit
  <2>2. port' \in [Ports -> states] /\ few'
    BY <2>1, ConnectionsStay DEF few, states
  <2>3. SurfaceTypeOK'
    BY <1>1, <1>2, <2>1, <2>2 DEF SurfaceTypeOK, few, states, Quantify
  <2>4. QED
    BY <1>2, <2>1, <2>3 DEF ScanInv
<1>5. CASE Discover
  <2>1. PICK answer \in CtAnswers : hostnames' = _extract_hostnames(target, answer)
    BY <1>5 DEF Discover
  <2>2. /\ pc = "discover" /\ pc' = "resolve"
        /\ UNCHANGED <<policy, target, hosts, port, touched, answered, runs>>
    BY <1>5 DEF Discover
  <2>3. hostnames' \in Seq(Identifiers) /\ IsInjective(hostnames') /\ hostnames' # <<>>
    <3>1. target \in Identifiers /\ answer \in Seq(DOMAIN Cleaned)
      BY <1>1, SurfaceAssumption DEF SurfaceTypeOK
    <3>2. QED
      BY <2>1, <3>1, HostnamesAreDistinct
  <2>4. hosts = <<>> /\ touched = {} /\ port = Idle /\ runs = <<>>
    BY <2>2 DEF ScanInv
  <2>5. Len(hosts') = 0 /\ Len(hostnames') \in Nat /\ Len(hostnames') # 0
    BY <2>2, <2>3, <2>4, LenProperties, EmptySeq
  <2>6. ToSet(hostnames') \subseteq Identifiers
    <3>1. \A h \in DOMAIN hostnames' : hostnames'[h] \in Identifiers
      BY <2>3, ElementOfSeq, LenProperties
    <3>2. QED
      BY <3>1 DEF ToSet
  <2>7. port' \in [Ports -> states] /\ few'
    BY <2>2, ConnectionsStay DEF few, states
  <2>8. SurfaceTypeOK'
    BY <1>1, <1>2, <2>2, <2>3, <2>4, <2>5, <2>6, <2>7 DEF SurfaceTypeOK, few, states, Quantify
  <2>9. QED
    BY <1>1, <1>2, <2>2, <2>3, <2>4, <2>5, <2>8 DEF ScanInv
<1>6. CASE Resolve
  <2>1. /\ pc = "resolve" /\ pc' = "probe" /\ touched' = touched \cup {Host}
        /\ UNCHANGED <<policy, target, hostnames, hosts, port, answered, runs>>
    BY <1>6 DEF Resolve
  <2>2. Host \in ToSet(hostnames)
    BY <2>1, HostIsNext
  <2>3. port' \in [Ports -> states] /\ few'
    BY <2>1, ConnectionsStay DEF few, states
  <2>4. SurfaceTypeOK'
    BY <1>1, <1>2, <2>1, <2>2, <2>3 DEF SurfaceTypeOK, few, states, Quantify
  <2>5. QED
    BY <1>2, <2>1, <2>4 DEF ScanInv
<1>7. ASSUME NEW i \in Ports, Connect(i) \/ Answer(i)
      PROVE  ScanInv'
  <2>1. /\ pc = "probe" /\ pc' = "probe"
        /\ UNCHANGED <<policy, target, hostnames, hosts, touched, runs>>
    BY <1>7 DEF Connect, Answer
  <2>2. port' \in [Ports -> states] /\ few'
    BY <1>7, ConnectionsAreFew DEF few, states
  <2>3. SurfaceTypeOK'
    BY <1>1, <1>2, <2>1, <2>2 DEF SurfaceTypeOK, few, states, Quantify
  <2>4. QED
    BY <1>2, <2>1, <2>3 DEF ScanInv
<1>8. CASE NextHost
  <2>1. /\ pc = "probe" /\ port' = Idle
        /\ pc' = IF Len(hosts') = Len(hostnames) THEN "save" ELSE "resolve"
        /\ UNCHANGED <<policy, target, hostnames, touched, answered, runs>>
    BY <1>8 DEF NextHost
  <2>2. hosts' \in Seq(DiscoveredHost) /\ Len(hosts') = Len(hosts) + 1
    BY <1>8, NextHostAdds
  <2>3. Len(hosts) < Len(hostnames) /\ runs = <<>>
    BY <2>1 DEF ScanInv
  <2>4. Len(hosts) \in Nat /\ Len(hostnames) \in Nat
    BY VisitedLengths
  <2>5. Len(hosts') <= Len(hostnames) /\ (pc' = "resolve" => Len(hosts') < Len(hostnames))
    BY <2>1, <2>2, <2>3, <2>4
  <2>6. port' \in [Ports -> states] /\ few'
    BY <2>1, ConnectionsStay DEF few, states
  <2>7. SurfaceTypeOK'
    BY <1>1, <1>2, <2>1, <2>5, <2>6 DEF SurfaceTypeOK, few, states, Quantify
  <2>8. QED
    BY <1>1, <1>2, <2>1, <2>2, <2>3, <2>5, <2>7 DEF ScanInv
<1>9. CASE Save
  <2>1. /\ pc = "save" /\ pc' = "done" /\ runs' = Append(runs, [in_scope |-> TRUE, hosts |-> hosts])
        /\ UNCHANGED <<policy, target, hostnames, hosts, port, touched, answered>>
    BY <1>9 DEF Save, save
  <2>2. runs = <<>> /\ port = Idle
    BY <2>1 DEF ScanInv
  <2>3. Len(runs') <= 1
    BY <2>1, <2>2
  <2>4. port' \in [Ports -> states] /\ few'
    BY <2>1, ConnectionsStay DEF few, states
  <2>5. SurfaceTypeOK'
    BY <1>1, <1>2, <2>1, <2>3, <2>4 DEF SurfaceTypeOK, few, states, Quantify
  <2>6. QED
    BY <1>2, <2>1, <2>2, <2>5 DEF ScanInv
<1>10. CASE ScanFails
  <2>1. /\ pc \in {"gate", "discover", "save", "resolve"} /\ pc' = "failed"
        /\ UNCHANGED <<policy, target, hostnames, hosts, port, touched, answered, runs>>
    BY <1>10 DEF ScanFails
  <2>2. port' \in [Ports -> states] /\ few'
    BY <2>1, ConnectionsStay DEF few, states
  <2>3. SurfaceTypeOK'
    BY <1>1, <1>2, <2>1, <2>2 DEF SurfaceTypeOK, few, states, Quantify
  <2>4. QED
    BY <1>2, <2>1, <2>3 DEF ScanInv
<1>11. CASE UNCHANGED scanVars
  <2>1. UNCHANGED <<policy, target, pc, hostnames, hosts, port, touched, answered, runs>>
    BY <1>11 DEF scanVars
  <2>2. port' \in [Ports -> states] /\ few'
    BY <2>1, ConnectionsStay DEF few, states
  <2>3. SurfaceTypeOK'
    BY <1>1, <1>2, <2>1, <2>2 DEF SurfaceTypeOK, few, states, Quantify
  <2>4. QED
    BY <1>2, <2>1, <2>3 DEF ScanInv
<1>12. QED
  BY <1>3, <1>4, <1>5, <1>6, <1>7, <1>8, <1>9, <1>10, <1>11 DEF ScanNext

\* The types and bounds of a scan: no host is on the list twice, none that is not
\* on it is touched, never more connections at once than the semaphore admits,
\* one row at most is saved (run_scan, probe_ports).
THEOREM SurfaceTypes == ScanSpec => []SurfaceTypeOK
<1>1. ScanInit => ScanInv
  BY ScanInitially
<1>2. ScanInv => SurfaceTypeOK
  BY DEF ScanInv
<1>3. QED
  BY <1>1, <1>2, ScanInvStep, PTL DEF ScanSpec

\* What NextHost reports of the host is what it answered.
LEMMA VisitedIsTrue ==
    ASSUME ScanInv, ReportInv, pc = "probe"
    PROVE  IsTrueOf(Visited, Host)
<1> DEFINE open == {COMMON_PORTS[i] : i \in {j \in Ports : port[j] = "open"}}
           said == {p \in ToSet(COMMON_PORTS) : <<Host, p>> \in answered}
<1>1. /\ Visited.hostname = Host /\ Visited.open_ports = Found
      /\ Visited.unexpected_exposure_tags = tag_open_ports(Found)
  BY DEF Visited
<1>2. DOMAIN COMMON_PORTS = Ports
  BY SurfaceAssumption, LenProperties DEF Ports
<1>3. open \subseteq said
  BY <1>2 DEF ReportInv, ToSet
<1>4. said \subseteq open
  <2> SUFFICES ASSUME NEW p \in ToSet(COMMON_PORTS), <<Host, p>> \in answered
               PROVE  p \in open
    OBVIOUS
  <2> DEFINE next == Len(hosts) + 1
  <2>1. next \in 1..Len(hostnames) /\ ~(next <= Len(hosts))
    BY HostIsNext, VisitedLengths
  <2>2. <<hostnames[next], p>> \in answered
    BY DEF Host
  <2>3. PICK i \in Ports : COMMON_PORTS[i] = p /\ port[i] = "open"
    BY <2>1, <2>2 DEF ReportInv
  <2>4. QED
    BY <2>3
<1>5. ToSet(Found) = said
  BY <1>3, <1>4, PortsFound
<1>6. \A i, j \in DOMAIN Found : i < j => Found[i] < Found[j]
  BY PortsFound
<1>7. ToSet(tag_open_ports(Found)) = ToSet(Found) \cap ToSet(EXPOSURE_TAGS)
  BY PortsFound, TagsOfPorts
<1> HIDE DEF said
<1>8. QED
  BY <1>1, <1>5, <1>6, <1>7 DEF IsTrueOf, said

\* A step that leaves what was found alone keeps it true.
LEMMA ReportStays ==
    ASSUME ScanInv, ReportInv,
           UNCHANGED <<hostnames, hosts, answered>>,
           \A i \in Ports : port'[i] = "open" <=> port[i] = "open",
           pc' = "probe" => pc = "probe" \/ port = Idle,
           \A r \in DOMAIN runs' : runs'[r].in_scope =>
              runs'[r].hosts = hosts /\ Len(hosts) = Len(hostnames)
    PROVE  ReportInv'
<1>1. Ports' = Ports
  BY DEF Ports
<1>2. \A h \in 1..Len(hosts) : IsTrueOf(hosts[h], hostnames[h])'
  BY DEF ReportInv, IsTrueOf
<1>3. (\A h \in 1..Len(hostnames), p \in ToSet(COMMON_PORTS) :
          <<hostnames[h], p>> \in answered =>
             \/ h <= Len(hosts)
             \/ /\ h = Len(hosts) + 1
                /\ \E i \in Ports : COMMON_PORTS[i] = p /\ port[i] = "open")'
  BY <1>1 DEF ReportInv
<1>4. (pc = "probe" => \A i \in Ports : port[i] = "open" => <<Host, COMMON_PORTS[i]>> \in answered)'
  <2>1. Host' = Host
    BY DEF Host
  <2>2. port = Idle => \A i \in Ports : port[i] # "open"
    BY DEF Idle
  <2>3. QED
    BY <1>1, <2>1, <2>2 DEF ReportInv
<1>5. QED
  BY <1>2, <1>3, <1>4 DEF ReportInv

LEMMA ReportInvStep == ScanInv /\ ReportInv /\ [ScanNext]_scanVars => ReportInv'
<1> SUFFICES ASSUME ScanInv, ReportInv, [ScanNext]_scanVars PROVE ReportInv'
  OBVIOUS
<1>1. \A r \in DOMAIN runs : runs[r].in_scope => runs[r].hosts = hosts /\ Len(hosts) = Len(hostnames)
  BY DEF ReportInv
<1>2. port \in [Ports -> {"waiting", "connecting", "open", "closed"}] /\ Ports' = Ports
  BY DEF ScanInv, SurfaceTypeOK, Ports
<1>3. CASE Refuse
  <2>1. /\ pc = "gate" /\ pc' = "done"
        /\ runs' = Append(runs, [in_scope |-> FALSE, hosts |-> <<>>])
        /\ UNCHANGED <<hostnames, hosts, port, answered>>
    BY <1>3 DEF Refuse, save
  <2>2. runs' = <<[in_scope |-> FALSE, hosts |-> <<>>]>>
    <3>1. runs = <<>>
      BY <2>1 DEF ScanInv
    <3>2. QED
      BY <2>1, <3>1
  <2>3. \A r \in DOMAIN runs' : ~runs'[r].in_scope
    BY <2>2
  <2>4. QED
    BY <2>1, <2>3, ReportStays
<1>4. CASE Admit \/ Resolve \/ ScanFails \/ UNCHANGED scanVars
  <2>1. /\ UNCHANGED <<hostnames, hosts, port, answered, runs>>
        /\ pc' = "probe" => pc \in {"resolve", "probe"}
    BY <1>4 DEF Admit, Resolve, ScanFails, scanVars
  <2>2. pc' = "probe" => pc = "probe" \/ port = Idle
    BY <2>1 DEF ScanInv
  <2>3. QED
    BY <1>1, <2>1, <2>2, ReportStays
<1>5. CASE Discover
  <2>1. pc = "discover" /\ pc' = "resolve" /\ UNCHANGED <<hosts, port, answered, runs>>
    BY <1>5 DEF Discover
  <2>2. hosts = <<>> /\ answered = {} /\ runs = <<>>
    BY <2>1 DEF ScanInv
  <2>3. Len(hosts') = 0 /\ DOMAIN runs' = {}
    BY <2>1, <2>2, EmptySeq
  <2>4. QED
    BY <2>1, <2>2, <2>3 DEF ReportInv
<1>6. ASSUME NEW i \in Ports, Connect(i)
      PROVE  ReportInv'
  <2>1. /\ pc = "probe" /\ port[i] = "waiting" /\ port' = [port EXCEPT ![i] = "connecting"]
        /\ UNCHANGED <<hostnames, hosts, answered, runs>>
    BY <1>6 DEF Connect
  <2>2. \A j \in Ports : port'[j] = "open" <=> port[j] = "open"
    BY <1>2, <2>1
  <2>3. QED
    BY <1>1, <2>1, <2>2, ReportStays
<1>7. ASSUME NEW i \in Ports, Answer(i)
      PROVE  ReportInv'
  <2>1. /\ pc = "probe" /\ port[i] = "connecting" /\ pc' = "probe"
        /\ UNCHANGED <<hostnames, hosts, runs>>
    BY <1>7 DEF Answer
  <2>2. CASE port' = [port EXCEPT ![i] = "closed"] /\ UNCHANGED answered
    <3>1. \A j \in Ports : port'[j] = "open" <=> port[j] = "open"
      BY <1>2, <2>1, <2>2
    <3>2. QED
      BY <1>1, <2>1, <2>2, <3>1, ReportStays
  <2>3. CASE /\ port' = [port EXCEPT ![i] = "open"]
             /\ answered' = answered \cup {<<Host, COMMON_PORTS[i]>>}
    <3> DEFINE next == Len(hosts) + 1
    <3>1. /\ next \in 1..Len(hostnames) /\ Host = hostnames[next] /\ Len(hosts) \in Nat
          /\ \A h, k \in 1..Len(hostnames) : hostnames[h] = hostnames[k] => h = k
          /\ Len(hostnames) \in Nat
      BY <2>1, HostIsNext, VisitedLengths DEF Host
    <3>2. \A h \in 1..Len(hosts), p \in ToSet(COMMON_PORTS) :
             <<hostnames[h], p>> \in answered' <=> <<hostnames[h], p>> \in answered
      <4> SUFFICES ASSUME NEW h \in 1..Len(hosts), hostnames[h] = Host
                   PROVE  FALSE
        BY <2>3
      <4>1. h \in 1..Len(hostnames) /\ h # next
        BY <3>1
      <4>2. QED
        BY <3>1, <4>1
    <3>3. (\A h \in 1..Len(hosts) : IsTrueOf(hosts[h], hostnames[h]))'
      <4> SUFFICES ASSUME NEW h \in 1..Len(hosts)
                   PROVE  IsTrueOf(hosts[h], hostnames[h])'
        BY <2>1
      <4>1. IsTrueOf(hosts[h], hostnames[h])
        BY DEF ReportInv
      <4>2. {p \in ToSet(COMMON_PORTS) : <<hostnames[h], p>> \in answered'}
              = {p \in ToSet(COMMON_PORTS) : <<hostnames[h], p>> \in answered}
        BY <3>2
      <4>3. QED
        BY <2>1, <4>1, <4>2 DEF IsTrueOf
    <3>4. (\A h \in 1..Len(hostnames), p \in ToSet(COMMON_PORTS) :
              <<hostnames[h], p>> \in answered =>
                 \/ h <= Len(hosts)
                 \/ /\ h = Len(hosts) + 1
                    /\ \E j \in Ports : COMMON_PORTS[j] = p /\ port[j] = "open")'
      <4> SUFFICES ASSUME NEW h \in 1..Len(hostnames), NEW p \in ToSet(COMMON_PORTS),
                          <<hostnames[h], p>> \in answered', ~(h <= Len(hosts))
                   PROVE  h = next /\ \E j \in Ports : COMMON_PORTS[j] = p /\ port'[j] = "open"
        BY <1>2, <2>1
      <4>1. CASE <<hostnames[h], p>> \in answered
        <5>1. h = next /\ \E j \in Ports : COMMON_PORTS[j] = p /\ port[j] = "open"
          BY <4>1 DEF ReportInv
        <5>2. PICK j \in Ports : COMMON_PORTS[j] = p /\ port[j] = "open"
          BY <5>1
        <5>3. port'[j] = "open"
          BY <1>2, <2>3, <5>2
        <5>4. QED
          BY <5>1, <5>2, <5>3
      <4>2. CASE <<hostnames[h], p>> = <<Host, COMMON_PORTS[i]>>
        <5>1. h = next /\ p = COMMON_PORTS[i]
          BY <3>1, <4>2
        <5>2. port'[i] = "open"
          BY <1>2, <2>3
        <5>3. QED
          BY <5>1, <5>2
      <4>3. QED
        BY <2>3, <4>1, <4>2
    <3>5. (pc = "probe" => \A j \in Ports : port[j] = "open" => <<Host, COMMON_PORTS[j]>> \in answered)'
      <4>1. Host' = Host
        BY <2>1 DEF Host
      <4>2. \A j \in Ports : port'[j] = "open" => j = i \/ port[j] = "open"
        BY <1>2, <2>3
      <4>3. \A j \in Ports : port[j] = "open" => <<Host, COMMON_PORTS[j]>> \in answered
        BY <2>1 DEF ReportInv
      <4>4. QED
        BY <1>2, <2>3, <4>1, <4>2, <4>3
    <3>6. (\A r \in DOMAIN runs : runs[r].in_scope =>
              runs[r].hosts = hosts /\ Len(hosts) = Len(hostnames))'
      BY <1>1, <2>1
    <3>7. QED
      BY <3>3, <3>4, <3>5, <3>6 DEF ReportInv
  <2>4. QED
    BY <1>7, <2>2, <2>3 DEF Answer
<1>8. CASE NextHost
  <2>1. /\ pc = "probe" /\ pc' \in {"save", "resolve"}
        /\ UNCHANGED <<hostnames, answered, runs>>
    BY <1>8 DEF NextHost
  <2>2. /\ Len(hosts') = Len(hosts) + 1
        /\ \A h \in 1..Len(hosts) : hosts'[h] = hosts[h]
        /\ hosts'[Len(hosts) + 1] = Visited
        /\ Len(hosts) \in Nat /\ Host = hostnames[Len(hosts) + 1]
    BY <1>8, NextHostAdds, VisitedLengths DEF Host
  <2>3. IsTrueOf(Visited, Host)
    BY <2>1, VisitedIsTrue
  <2>4. \A h \in 1..Len(hosts) : IsTrueOf(hosts[h], hostnames[h])
    BY DEF ReportInv
  <2>5. (\A h \in 1..Len(hosts) : IsTrueOf(hosts[h], hostnames[h]))'
    <3> SUFFICES ASSUME NEW h \in 1..(Len(hosts) + 1)
                 PROVE  IsTrueOf(hosts[h], hostnames[h])'
      BY <2>2
    <3>1. IsTrueOf(hosts'[h], hostnames[h])
      <4>1. h = Len(hosts) + 1 \/ h \in 1..Len(hosts)
        BY <2>2
      <4>2. QED
        BY <2>2, <2>3, <2>4, <4>1
    <3>2. QED
      BY <2>1, <3>1 DEF IsTrueOf
  <2>6. (\A h \in 1..Len(hostnames), p \in ToSet(COMMON_PORTS) :
            <<hostnames[h], p>> \in answered => h <= Len(hosts))'
    <3> SUFFICES ASSUME NEW h \in 1..Len(hostnames), NEW p \in ToSet(COMMON_PORTS),
                        <<hostnames[h], p>> \in answered
                 PROVE  h <= Len(hosts) + 1
      BY <2>1, <2>2
    <3>1. h <= Len(hosts) \/ h = Len(hosts) + 1
      BY DEF ReportInv
    <3>2. QED
      BY <2>2, <3>1
  <2>7. runs' = <<>>
    BY <2>1 DEF ScanInv
  <2>8. QED
    BY <2>1, <2>5, <2>6, <2>7 DEF ReportInv
<1>9. CASE Save
  <2>1. /\ pc = "save" /\ pc' = "done" /\ runs' = Append(runs, [in_scope |-> TRUE, hosts |-> hosts])
        /\ UNCHANGED <<hostnames, hosts, port, answered>>
    BY <1>9 DEF Save, save
  <2>2. runs = <<>> /\ Len(hosts) = Len(hostnames)
    BY <2>1 DEF ScanInv
  <2>3. runs' = <<[in_scope |-> TRUE, hosts |-> hosts]>>
    BY <2>1, <2>2
  <2>4. \A r \in DOMAIN runs' : runs'[r].hosts = hosts
    BY <2>3
  <2>5. QED
    BY <2>1, <2>2, <2>4, ReportStays
<1>10. QED
  BY <1>3, <1>4, <1>5, <1>6, <1>7, <1>8, <1>9 DEF ScanNext

\* A saved report is true of every host, the root and those the certificates
\* named, and of every port of the table, however the probes of a host are
\* interleaved (run_scan, probe_ports).
THEOREM ReportsAreTrue == ScanSpec => []ReportIsTrue
<1>1. ScanInit => ScanInv /\ ReportInv
  BY ScanInitially
<1>2. ScanInv /\ ReportInv /\ [ScanNext]_scanVars => ScanInv' /\ ReportInv'
  BY ScanInvStep, ReportInvStep
<1>3. ScanInv /\ ReportInv => ReportIsTrue
  <2> SUFFICES ASSUME ScanInv, ReportInv, NEW r \in DOMAIN runs, runs[r].in_scope
               PROVE  /\ Len(runs[r].hosts) = Len(hostnames)
                      /\ \A h \in DOMAIN hostnames : IsTrueOf(runs[r].hosts[h], hostnames[h])
    BY DEF ReportIsTrue, IsTrueOf
  <2>1. runs[r].hosts = hosts /\ Len(hosts) = Len(hostnames)
    BY DEF ReportInv
  <2>2. DOMAIN hostnames = 1..Len(hosts)
    BY <2>1, VisitedLengths
  <2>3. QED
    BY <2>1, <2>2 DEF ReportInv
<1>4. QED
  BY <1>1, <1>2, <1>3, PTL DEF ScanSpec
=============================================================================
