--------------------------- MODULE SimulatedAccount ---------------------------
(***************************************************************************)
(* packages/sdk/src/testing/SimulatedAccount.ts: the in-process account    *)
(* plus policy hook that the demo runs on and that the differential suite  *)
(* trusts as the on-chain semantics.  There is no EVM under it: a refusal  *)
(* undoes exactly what the code restores by hand.                          *)
(*                                                                         *)
(* The hook it stands for is PolicyLib!evaluate, so the two can be         *)
(* compared call by call over whole histories.                             *)
(***************************************************************************)
EXTENDS Integers

CONSTANTS
  MaxUint,
  Addr,       \* every address a request can name
  Asset,      \* config.asset
  Account,    \* the account's own address
  Configs,    \* maxTransaction, dailyLimit, minBalance and allowedTargets
  Supply,     \* bound: the opening balance
  LastDay     \* bound: days explored

Lib == INSTANCE PolicyLib

\* The width of a uint256 has at least one bit.
ASSUME WidthAssumption == MaxUint \in Nat \ {0}

ASSUME SimulatedAssumption ==
  /\ Asset \in Addr /\ Account \in Addr
  /\ Configs \subseteq [maxTransaction: Lib!Uint, dailyLimit: Lib!Uint,
                        minBalance: Lib!Uint, allowedTargets: SUBSET Addr]
  /\ Supply \in Lib!Uint /\ LastDay \in Nat

VARIABLES
  config,    \* what the constructor was given
  ceiling,   \* config.maxTransaction, which sendAsOwner rewrites for a call
  balance,
  window,
  today,     \* today(): the day of clockMs
  receipt,   \* the last request, who sent it and what came of it
  logged     \* the outflow of today's entries of `log', added up

vars == <<config, ceiling, balance, window, today, receipt, logged>>

Methods == {"transfer", "approve", "transferFromSelf", "transferFromOther",
            "swap", "other"}

\* Requests worth telling apart: the party matters to the asset only, the
\* amount to the methods that move something.
Requests ==
  {r \in [target: Addr, method: Methods, party: Addr, amount: Lib!Uint] :
     /\ IF r.target = Asset THEN r.method # "swap"
                            ELSE r.method \in {"swap", "other"} /\ r.party = Account
     /\ r.method \in {"approve", "transferFromOther", "other"} => r.amount = 0}

Senders == {"session", "owner"}

Refusals == {"TargetNotAllowed", "ExceedsBalance", "ExceedsMaxTransaction",
             "ExceedsDailyLimit", "BelowMinBalance"}

\* The constructor's Set: the configured targets and the asset itself.
allowed == config.allowedTargets \cup {Asset}

\* The counterparty, as a set: empty when the selector is none of the three.
decodeCounterparty(r) ==
  IF r.method \in {"transfer", "approve", "transferFromSelf", "transferFromOther"}
    THEN {r.party} ELSE {}

preCheckPasses(r) ==
  /\ r.target \in allowed
  /\ r.target = Asset => decodeCounterparty(r) \subseteq allowed

\* What leaves the balance.  A router is taken to pull what its calldata
\* says, and no more than there is; an approval moves nothing.
applyRouterPull(r) ==
  IF r.method # "swap" THEN 0
  ELSE IF r.amount > balance THEN balance ELSE r.amount

applyTransfer(r) ==
  IF r.target # Asset THEN applyRouterPull(r)
  ELSE IF r.method \in {"transfer", "transferFromSelf"} THEN r.amount ELSE 0

\* mutant: nothing counts but the operation itself.
BaseForgotten == 0

\* The window's spend as it counts towards today's limit.
spentToday == IF window.day = today THEN window.spent ELSE 0

belowFloor(moved) == balance - moved < config.minBalance

\* What sendUnchecked does with a request while `limit' is the ceiling.
outcome(r, limit) ==
  LET moved == applyTransfer(r) IN
  IF ~preCheckPasses(r) THEN "TargetNotAllowed"
  ELSE IF moved > balance THEN "ExceedsBalance"
  ELSE IF moved > 0 /\ moved > limit THEN "ExceedsMaxTransaction"
  ELSE IF moved > 0 /\ spentToday + moved > config.dailyLimit THEN "ExceedsDailyLimit"
  ELSE IF belowFloor(moved) THEN "BelowMinBalance"
  ELSE "Allow"

\* The window is assigned before the floor is looked at, and a refusal at the
\* floor puts back the balance alone.
windowAfter(r, limit) ==
  LET moved == applyTransfer(r) IN
  IF outcome(r, limit) \in {"Allow", "BelowMinBalance"} /\ moved > 0
    THEN [day |-> today, spent |-> spentToday + moved]
    ELSE window

sendUnchecked(r, by, limit) ==
  LET ok == outcome(r, limit) = "Allow"
      moved == IF ok THEN applyTransfer(r) ELSE 0
  IN  /\ balance' = balance - moved
      /\ window' = windowAfter(r, limit)
      /\ logged' = logged + moved
      /\ receipt' = [request |-> r, by |-> by, outcome |-> outcome(r, limit)]
      /\ UNCHANGED <<config, today>>

send(r) == sendUnchecked(r, "session", ceiling) /\ UNCHANGED ceiling

\* mutant: the raised ceiling is put back only after a success.
RestoredOnSuccess(r) ==
  IF outcome(r, config.dailyLimit) = "Allow" THEN ceiling ELSE config.dailyLimit

\* `finally' restores the ceiling whatever the outcome.
restoredCeiling(r) == ceiling

sendAsOwner(r) ==
  /\ sendUnchecked(r, "owner", config.dailyLimit)
  /\ ceiling' = restoredCeiling(r)

advance ==
  /\ today < LastDay
  /\ today' = today + 1
  /\ logged' = 0
  /\ UNCHANGED <<config, ceiling, balance, window, receipt>>

Init ==
  /\ config \in Configs
  /\ ceiling = config.maxTransaction
  /\ balance \in 0..Supply
  /\ today = 1
  /\ window = [day |-> today, spent |-> 0]
  /\ receipt = [request |-> [target |-> Account, method |-> "other",
                             party |-> Account, amount |-> 0],
                by |-> "session", outcome |-> "Allow"]
  /\ logged = 0

Next == (\E r \in Requests : send(r) \/ sendAsOwner(r)) \/ advance

Spec == Init /\ [][Next]_vars

-----------------------------------------------------------------------------
\* Every variable stays in its range: no operation takes the balance below
\* zero (applyTransfer's balance check, the router's cap) or the accumulator
\* past its width (sendUnchecked).
TypeOK ==
  /\ config \in Configs
  /\ ceiling \in Lib!Uint
  /\ balance \in 0..Supply
  /\ window \in Lib!Window
  /\ today \in Lib!Day
  /\ receipt \in [request: Requests, by: Senders, outcome: Refusals \cup {"Allow"}]
  /\ logged \in Nat

\* The simulator's accumulator never under-counts what its log says left
\* today, owner-approved operations included, and both stay within the daily
\* limit (sendUnchecked, sendAsOwner: "approval raises one limit, not all of
\* them").
AccumulatorCoversLog ==
  /\ logged <= spentToday
  /\ spentToday <= config.dailyLimit

\* What the real hook decides about a call that takes `moved' out of the
\* account, from the simulator's own state: PolicyLib, then the floor.
HookDecision(r, limit) ==
  LET moved == applyTransfer(r)
      limits == [maxTransaction |-> limit, dailyLimit |-> config.dailyLimit]
      decided == Lib!evaluate(window, limits, moved, today).decision
  IN  IF ~preCheckPasses(r) THEN "TargetNotAllowed"
      ELSE IF moved > balance THEN "ExceedsBalance"
      ELSE IF moved > 0 /\ decided # "Allow" THEN decided
      ELSE IF balance - moved < config.minBalance THEN "BelowMinBalance"
      ELSE "Allow"

\* "It re-implements the hook's exact semantics": along every history, each
\* request gets the decision the hook would give it under the ceiling the
\* policy names for its sender; a ceiling raised for the owner is never left
\* behind for the session key (sendUnchecked against PolicyLib.evaluate).
DecidesLikeHook ==
  [][today' = today =>
       receipt'.outcome =
         HookDecision(receipt'.request,
                      IF receipt'.by = "owner" THEN config.dailyLimit
                                               ELSE config.maxTransaction)]_vars
=============================================================================
