---------------------------- MODULE MCPolicyBinding ----------------------------
EXTENDS PolicyBinding, TLC

CONSTANTS asset, vendor, router

\* Two base units to the unit.
MCDocument ==
  [maxTransaction |-> 4, dailySpend |-> 6, approvalThreshold |-> 4,
   minBalance |-> 2, allowedContracts |-> {router},
   allowedRecipients |-> {vendor}, asset |-> asset,
   allowUnknownSelectors |-> FALSE]

Amount(w, f) == [whole |-> w, fraction |-> f]

\* One and a half units as threshold, two as daily limit, and half a unit, which
\* is refused.
MCEdits == {[key |-> "approvalThreshold", amount |-> Amount(1, 1)],
            [key |-> "dailySpend", amount |-> Amount(2, 0)],
            [key |-> "minBalance", amount |-> Amount(0, 1)]}

\* Operators and owners are interchangeable.
MCSymmetry == Permutations(Editors) \cup Permutations(People)
=============================================================================
