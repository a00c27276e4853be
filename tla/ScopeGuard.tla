----------------------------- MODULE ScopeGuard -----------------------------
(***************************************************************************)
(* The scope guard (security/scope_guard.py): what a program's policy      *)
(* makes of a target and of an action on it.  The guard keeps no state; it *)
(* is these operators.  A rule is a host, or a wildcard over a host's      *)
(* subdomains; a result is kept to its code and the fields callers branch  *)
(* on, its message left out.                                               *)
(***************************************************************************)
EXTENDS Naturals, Sequences

CONSTANTS
    Hosts,          \* names in lower case, without a scheme, port or path
    SubdomainsOf,   \* the hosts that end in "." and this host
    Identifiers,    \* what a caller may name a target with
    HostIn,         \* the host urlparse finds in each, or NoHost
    Verbatim,       \* each one stripped and in lower case, or NoHost
    NoHost,
    RawRules,       \* the items of a policy's lists, as a caller writes them
    RuleOf,         \* each one stripped and in lower case, or Blank
    Blank,
    Techniques      \* the terms of the technique lists

ASSUME GuardAssumption ==
    /\ SubdomainsOf \in [Hosts -> SUBSET Hosts]
    /\ HostIn \in [Identifiers -> Hosts \cup {NoHost}]
    /\ Verbatim \in [Identifiers -> Hosts \cup {NoHost}]
    /\ NoHost \notin Hosts
    /\ RuleOf \in [RawRules -> [wildcard : BOOLEAN, host : Hosts] \cup {Blank}]
    /\ Blank \notin [wildcard : BOOLEAN, host : Hosts]

-----------------------------------------------------------------------------
(* Policies and actions *)

Rule == [wildcard : BOOLEAN, host : Hosts]

\* ProgramPolicyLimits: above the first rate a person must agree, above the
\* second nobody may.
ProgramPolicyLimits ==
    {l \in [max_requests_per_minute      : Nat \ {0},
            manual_approval_request_rate : Nat \ {0},
            max_targets_per_execution    : Nat \ {0},
            manual_approval_techniques   : SUBSET Techniques] :
        l.manual_approval_request_rate <= l.max_requests_per_minute}

ProgramPolicy ==
    [allowed_domains      : SUBSET Rule,
     denied_domains       : SUBSET Rule,
     forbidden_techniques : SUBSET Techniques,
     limits               : ProgramPolicyLimits]

\* mentions: the terms that occur in the technique and the description.
ProposedAction ==
    [target_identifier       : Identifiers,
     target_type             : {"domain", "hostname", "url", "other"},
     mentions                : SUBSET Techniques,
     request_rate_per_minute : Nat \ {0},
     target_count            : Nat \ {0},
     state_changing          : BOOLEAN,
     requires_authentication : BOOLEAN]

\* A list as the policy keeps it: blank items dropped (and repeated ones,
\* which a set cannot have).
_normalize_str_list(raw) == {RuleOf[r] : r \in raw} \ {Blank}

-----------------------------------------------------------------------------
(* Targets *)

_normalize_target(identifier, target_type) ==
    IF target_type \in {"domain", "hostname", "url"} THEN HostIn[identifier]
    ELSE Verbatim[identifier]

\* A wildcard stands for the subdomains of its host and not for the host.
_domain_matches(host, rule) ==
    IF rule.wildcard THEN host \in SubdomainsOf[rule.host] ELSE host = rule.host

_match_first(host, rules) == \E rule \in rules : _domain_matches(host, rule)

\* Mutant of validate_target_in_scope: the allowlist is asked first.
validate_target_in_scope_AllowFirst(policy, identifier, target_type) ==
    LET host == _normalize_target(identifier, target_type)
    IN  IF host = NoHost THEN "invalid_target"
        ELSE IF policy.allowed_domains = {} THEN "missing_allowlist"
        ELSE IF _match_first(host, policy.allowed_domains) THEN "in_scope"
        ELSE IF _match_first(host, policy.denied_domains) THEN "denied_domain"
        ELSE "out_of_scope"

\* The code of a target: the first check that decides.
validate_target_in_scope(policy, identifier, target_type) ==
    LET host == _normalize_target(identifier, target_type)
    IN  IF host = NoHost THEN "invalid_target"
        ELSE IF policy.allowed_domains = {} THEN "missing_allowlist"
        ELSE IF _match_first(host, policy.denied_domains) THEN "denied_domain"
        ELSE IF ~_match_first(host, policy.allowed_domains) THEN "out_of_scope"
        ELSE "in_scope"

InScope(policy, identifier, target_type) ==
    validate_target_in_scope(policy, identifier, target_type) = "in_scope"

-----------------------------------------------------------------------------
(* Actions *)

_matches_technique(action, terms) == action.mentions \cap terms # {}

\* The reasons for a person to agree first.
requires_manual_approval(policy, action) ==
    {reason \in {"technique", "rate", "state_changing", "authenticated"} :
        CASE reason = "technique" ->
                _matches_technique(action, policy.limits.manual_approval_techniques)
          [] reason = "rate" ->
                action.request_rate_per_minute > policy.limits.manual_approval_request_rate
          [] reason = "state_changing" -> action.state_changing
          [] reason = "authenticated" -> action.requires_authentication}

\* Mutant of block_prohibited_action: the limit itself is over the limit.
block_prohibited_action_AtLimit(policy, action) ==
    IF _matches_technique(action, policy.forbidden_techniques) THEN "forbidden_technique"
    ELSE IF action.request_rate_per_minute >= policy.limits.max_requests_per_minute
         THEN "request_rate_exceeded"
    ELSE IF action.target_count > policy.limits.max_targets_per_execution
         THEN "target_count_exceeded"
    ELSE "action_allowed"

\* The first rule that blocks outright, whoever agrees.
block_prohibited_action(policy, action) ==
    IF _matches_technique(action, policy.forbidden_techniques) THEN "forbidden_technique"
    ELSE IF action.request_rate_per_minute > policy.limits.max_requests_per_minute
         THEN "request_rate_exceeded"
    ELSE IF action.target_count > policy.limits.max_targets_per_execution
         THEN "target_count_exceeded"
    ELSE "action_allowed"

\* Scope, then hard blocks, then manual approval: the first that decides.
validate_action(policy, action) ==
    LET scope == validate_target_in_scope(policy, action.target_identifier, action.target_type)
        block == block_prohibited_action(policy, action)
    IN  IF scope # "in_scope"
        THEN [allowed |-> FALSE, requires_manual_approval |-> FALSE, code |-> scope]
        ELSE IF block # "action_allowed"
        THEN [allowed |-> FALSE, requires_manual_approval |-> FALSE, code |-> block]
        ELSE IF requires_manual_approval(policy, action) # {}
        THEN [allowed |-> TRUE, requires_manual_approval |-> TRUE,
              code |-> "manual_approval_required"]
        ELSE [allowed |-> TRUE, requires_manual_approval |-> FALSE, code |-> "allowed"]

-----------------------------------------------------------------------------
(* What the guard promises, in no order of checks *)

\* "An empty allowlist means nothing is in scope, and a denylist match always
\* wins over an allowlist match" (validate_target_in_scope).
AdmittedHosts(policy) ==
    LET Named(rules) == {rule.host : rule \in {r \in rules : ~r.wildcard}}
                        \cup UNION {SubdomainsOf[rule.host] : rule \in {r \in rules : r.wildcard}}
    IN  Named(policy.allowed_domains) \ Named(policy.denied_domains)

\* An action goes ahead unasked only when nothing about it is over a line.
Harmless(policy, action) ==
    /\ action.mentions \cap (policy.forbidden_techniques
                             \cup policy.limits.manual_approval_techniques) = {}
    /\ action.request_rate_per_minute <= policy.limits.manual_approval_request_rate
    /\ action.target_count <= policy.limits.max_targets_per_execution
    /\ ~action.state_changing /\ ~action.requires_authentication
=============================================================================
