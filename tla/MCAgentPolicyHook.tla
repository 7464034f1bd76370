-------------------------- MODULE MCAgentPolicyHook --------------------------
(***************************************************************************)
(* Small instances of the hook.  `router' is a contract that may hold an   *)
(* allowance and call back; where it is not in the installed allowlist it  *)
(* plays the stranger.                                                     *)
(***************************************************************************)
EXTENDS AgentPolicyHook

CONSTANT router

MCAddr == {Asset, Hook, Account, router}
MCParties == {Account, router}

Floored == [maxTransaction |-> 1, dailyLimit |-> 2, minBalance |-> 1]
Tight == [maxTransaction |-> 2, dailyLimit |-> 1, minBalance |-> 0]

\* Nested executions: one policy, everything a re-entrant operation can call.
NestedPolicies == {Floored}
NestedTargetSets == {{Asset, Hook, router}}

\* Install, uninstall, reinstall with other limits and another allowlist.
LifecyclePolicies == {Floored, Tight}
LifecycleTargetSets == {{Asset, Account}, {Asset, router}, {Asset, Hook}}
=============================================================================
