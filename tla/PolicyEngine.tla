----------------------------- MODULE PolicyEngine -----------------------------
(***************************************************************************)
(* The off-chain decision: packages/sdk/src/core/PolicyEngine.ts over the  *)
(* five policies of policies/index.ts in the order createAgentProof gives  *)
(* them, and the validation of a policy document in core/policy.ts.        *)
(*                                                                         *)
(* Evaluation is pure.  An intent is what the decoders make of an action:  *)
(* the contract called, the counterparty (a set, empty when there is none),*)
(* whether it moves value at all, and the notional figure every limit is   *)
(* compared with.                                                          *)
(***************************************************************************)
EXTENDS Integers, Sequences

Kinds == {"TRANSFER", "APPROVE", "SWAP", "NATIVE_TRANSFER", "X402_PAYMENT", "UNKNOWN"}

Decisions == {"ALLOW", "BLOCK", "REQUIRE_APPROVAL"}

PolicyIds == {"allowlist", "maxTransaction", "minBalance", "dailySpend",
              "approvalThreshold"}

\* What resolvePolicy accepts; the asset is always an allowed contract.
resolvable(p) ==
  /\ p.maxTransaction > 0
  /\ p.dailySpend >= p.maxTransaction
  /\ p.approvalThreshold <= p.maxTransaction
  /\ p.allowedContracts # {}

contractsOf(p) == p.allowedContracts \cup {p.asset}

-----------------------------------------------------------------------------
(* The five policies *)

AllowlistPolicy(p, intent) ==
  IF \/ intent.kind = "UNKNOWN" /\ ~p.allowUnknownSelectors
     \/ intent.target \notin contractsOf(p)
     \/ intent.movesValue
          /\ ~(intent.counterparty \subseteq p.allowedRecipients \cup contractsOf(p))
    THEN "BLOCK" ELSE "ALLOW"

MaxTransactionPolicy(p, intent) ==
  IF intent.notional <= p.maxTransaction THEN "ALLOW" ELSE "BLOCK"

\* mutant: the reserve is compared with the balance before the action.
FloorBeforeAction(p, intent, state) ==
  IF state.balance >= p.minBalance THEN "ALLOW" ELSE "BLOCK"

MinBalancePolicy(p, intent, state) ==
  IF state.balance - intent.notional >= p.minBalance THEN "ALLOW" ELSE "BLOCK"

DailySpendPolicy(p, intent, state) ==
  IF state.dailySpend + intent.notional <= p.dailySpend THEN "ALLOW" ELSE "BLOCK"

ApprovalThresholdPolicy(p, intent) ==
  IF intent.notional < p.approvalThreshold THEN "ALLOW" ELSE "REQUIRE_APPROVAL"

\* Every policy is evaluated, in engine order: the rows of the dashboard.
policyRows(p, intent, state) ==
  <<[id |-> "allowlist", decision |-> AllowlistPolicy(p, intent)],
    [id |-> "maxTransaction", decision |-> MaxTransactionPolicy(p, intent)],
    [id |-> "minBalance", decision |-> MinBalancePolicy(p, intent, state)],
    [id |-> "dailySpend", decision |-> DailySpendPolicy(p, intent, state)],
    [id |-> "approvalThreshold", decision |-> ApprovalThresholdPolicy(p, intent)]>>

-----------------------------------------------------------------------------
(* The loop *)

Undecided == [decision |-> "ALLOW", deciding |-> {}, settled |-> FALSE]

\* One turn of the loop: a BLOCK settles the decision, and REQUIRE_APPROVAL
\* only replaces ALLOW.
consider(acc, row) ==
  IF acc.settled THEN acc
  ELSE IF row.decision = "BLOCK"
    THEN [decision |-> "BLOCK", deciding |-> {row.id}, settled |-> TRUE]
  ELSE IF row.decision = "REQUIRE_APPROVAL" /\ acc.decision = "ALLOW"
    THEN [decision |-> "REQUIRE_APPROVAL", deciding |-> {row.id}, settled |-> FALSE]
  ELSE acc

\* The loop over the five rows.
evaluateIntent(p, intent, state) ==
  LET row == policyRows(p, intent, state)
  IN  consider(consider(consider(consider(consider(Undecided,
        row[1]), row[2]), row[3]), row[4]), row[5])

-----------------------------------------------------------------------------
(* What the loop is for, stated without it *)

\* The decision a set of rows calls for: any BLOCK blocks, and only rows that
\* all pass allow.
RowsDecide(rows) ==
  LET some(d) == \E i \in DOMAIN rows : rows[i].decision = d
  IN  IF some("BLOCK") THEN "BLOCK"
      ELSE IF some("REQUIRE_APPROVAL") THEN "REQUIRE_APPROVAL"
      ELSE "ALLOW"

\* The policies that may be named as the deciding one: the first that blocks,
\* or else the first that asks for a human.
RowsDeciding(rows) ==
  {rows[i].id : i \in
    {j \in DOMAIN rows : /\ rows[j].decision = RowsDecide(rows)
                         /\ rows[j].decision # "ALLOW"
                         /\ \A k \in 1..(j - 1) :
                              rows[k].decision # rows[j].decision}}
=============================================================================
