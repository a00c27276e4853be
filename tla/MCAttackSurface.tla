--------------------------- MODULE MCAttackSurface --------------------------
(***************************************************************************)
(* A root written plainly and as a URL, a subdomain, a name that cannot be *)
(* looked up; certificates that name them with and without wildcards.      *)
(***************************************************************************)
EXTENDS AttackSurface, TLC

CONSTANTS root, sub, odd, url, space, anyroot, anysub, anyodd, onlystar,
          rroot, rsub, rany, rblank, scan, fuzz

MCSubdomainsOf == root :> {sub, odd} @@ sub :> {} @@ odd :> {}
MCHostIn == root :> root @@ sub :> sub @@ odd :> odd @@ url :> root @@ space :> NoHost
MCVerbatim == root :> root @@ sub :> sub @@ odd :> odd @@ url :> sub @@ space :> NoHost
MCRuleOf ==
    rroot :> [wildcard |-> FALSE, host |-> root] @@ rsub :> [wildcard |-> FALSE, host |-> sub]
        @@ rany :> [wildcard |-> TRUE, host |-> root] @@ rblank :> Blank
MCCleaned == root :> root @@ anyroot :> root @@ anysub :> sub @@ anyodd :> odd @@ onlystar :> NoHost
MCCtAnswers == {<<>>, <<anyroot, onlystar, anysub, root>>, <<anysub, anyodd>>}
MCPorts == <<80, 21, 22>>
MCTags == <<21, 23>>
MCAllowLists == {{}, {rblank}, {rroot, rblank}, {rany}, {rroot, rany}}
MCDenyLists == {{}, {rsub}, {rroot}, {rany, rblank}}
MCLimits ==
    {[max_requests_per_minute |-> 2, manual_approval_request_rate |-> r,
      max_targets_per_execution |-> 1, manual_approval_techniques |-> {scan}] : r \in 1..2}
MCActions ==
    [target_identifier : Identifiers, target_type : {"url", "other"}, mentions : SUBSET Techniques,
     request_rate_per_minute : 1..3, target_count : 1..2,
     state_changing : BOOLEAN, requires_authentication : BOOLEAN]
=============================================================================
