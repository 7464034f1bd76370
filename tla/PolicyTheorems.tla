---------------------------- MODULE PolicyTheorems ----------------------------
(***************************************************************************)
(* The two decision procedures, for every input: the arithmetic core of    *)
(* the hook (PolicyLib.sol), and the policy engine (PolicyEngine.ts), whose*)
(* loop decides what its documented rules say and which is never more      *)
(* permissive than the hook about amounts.                                 *)
(***************************************************************************)
EXTENDS PolicyEngine, PolicyLib, TLAPS

-----------------------------------------------------------------------------
(* PolicyLib *)

\* What counts against today's limit is a uint: PolicyLib.evaluate's `base'.
LEMMA BaseType ==
  ASSUME NEW w \in Window, NEW today \in Day
  PROVE  base(w, today) \in Uint
BY MaxUintAssumption DEF base, Window, Uint

\* evaluate is total: for every stored window, limits, amount and day it
\* returns one of the four decisions (the checked addition never panics) and
\* a well-formed window.
THEOREM EvaluateTotal ==
  ASSUME NEW w \in Window, NEW l \in Limits, NEW amount \in Uint,
         NEW today \in Day
  PROVE  /\ evaluate(w, l, amount, today).decision \in Decision
         /\ evaluate(w, l, amount, today).next \in Window
BY MaxUintAssumption
   DEF evaluate, base, movesBackwards, overTransaction, overflows, overDaily,
       Window, Limits, Uint, Day, Decision

\* P_MAX_TRANSFER, P_DAILY_SPEND and P_WINDOW_FORWARD of PolicyLib.sol: what
\* an allowed spend satisfies, and exactly what it commits.
THEOREM EvaluateAllows ==
  ASSUME NEW w \in Window, NEW l \in Limits, NEW amount \in Uint,
         NEW today \in Day,
         evaluate(w, l, amount, today).decision = "Allow"
  PROVE  LET next == evaluate(w, l, amount, today).next
         IN  /\ amount <= l.maxTransaction
             /\ next = [day |-> today, spent |-> base(w, today) + amount]
             /\ next.day = today
             /\ next.spent = base(w, today) + amount
             /\ next.spent <= l.dailyLimit
             /\ w.day <= today
BY MaxUintAssumption, BaseType
   DEF evaluate, movesBackwards, overTransaction, overflows, overDaily,
       Window, Limits, Uint, Day

\* P_NO_MUTATION of PolicyLib.sol: a refused spend returns the window it was
\* given.
THEOREM EvaluateRefuses ==
  ASSUME NEW w \in Window, NEW l \in Limits, NEW amount \in Uint,
         NEW today \in Day,
         evaluate(w, l, amount, today).decision # "Allow"
  PROVE  evaluate(w, l, amount, today).next = w
BY DEF evaluate

\* The view PolicyLib.remainingToday and the check agree: evaluate allows a
\* spend on a day that is not in the past exactly when the amount is at most
\* maxTransaction and at most what remainingToday reports.  (A zero spend on
\* an exhausted day counts as allowed only if the accumulator is within the
\* limit.)
THEOREM RemainingIsWhatEvaluateAllows ==
  ASSUME NEW w \in Window, NEW l \in Limits, NEW amount \in Uint,
         NEW today \in Day, w.day <= today, base(w, today) <= l.dailyLimit
  PROVE  evaluate(w, l, amount, today).decision = "Allow" <=>
           /\ amount <= l.maxTransaction
           /\ amount <= remainingToday(w, l, today)
BY MaxUintAssumption, BaseType
   DEF evaluate, remainingToday, movesBackwards, overTransaction, overflows,
       overDaily, Window, Limits, Uint, Day

-----------------------------------------------------------------------------
(* The policy engine *)

\* The five rows carry one of the decisions a policy can return, and only the
\* last can ask for a human.
LEMMA RowDecisions ==
  ASSUME NEW p, NEW intent, NEW state
  PROVE  LET row == policyRows(p, intent, state) IN
         /\ DOMAIN row = 1..5
         /\ \A i \in 1..4 : row[i].decision \in {"ALLOW", "BLOCK"}
         /\ row[5].decision \in {"ALLOW", "REQUIRE_APPROVAL"}
PROOF
  BY DEF policyRows, AllowlistPolicy, MaxTransactionPolicy, MinBalancePolicy,
         DailySpendPolicy, ApprovalThresholdPolicy

\* Where the loop can be after a row that does not ask for a human.
Open(acc) == acc.settled = FALSE /\ acc.decision = "ALLOW"
Blocked(acc) == acc.settled = TRUE /\ acc.decision = "BLOCK"

\* One turn of the loop: a settled decision stays, a pass changes nothing, a
\* BLOCK settles.
LEMMA OneTurn ==
  ASSUME NEW acc, NEW row
  PROVE  /\ Blocked(acc) => Blocked(consider(acc, row))
         /\ Open(acc) /\ row.decision = "ALLOW" => Open(consider(acc, row))
         /\ Open(acc) /\ row.decision = "BLOCK" => Blocked(consider(acc, row))
PROOF
  BY DEF Open, Blocked, consider

\* The loop of PolicyEngine.evaluate, with its early settling, decides what
\* the rows call for: BLOCK if any row blocks, REQUIRE_APPROVAL if none does
\* and some row asks, ALLOW only when every row passes.
THEOREM LoopMatchesRows ==
  ASSUME NEW p, NEW intent, NEW state
  PROVE  evaluateIntent(p, intent, state).decision
           = RowsDecide(policyRows(p, intent, state))
PROOF
<1> DEFINE row == policyRows(p, intent, state)
           a1 == consider(Undecided, row[1])
           a2 == consider(a1, row[2])
           a3 == consider(a2, row[3])
           a4 == consider(a3, row[4])
           a5 == consider(a4, row[5])
<1>1. /\ DOMAIN row = 1..5
      /\ \A i \in 1..4 : row[i].decision \in {"ALLOW", "BLOCK"}
      /\ row[5].decision \in {"ALLOW", "REQUIRE_APPROVAL"}
  BY RowDecisions
<1>2. evaluateIntent(p, intent, state) = a5
  BY DEF evaluateIntent
<1> HIDE DEF row
<1>3. Open(Undecided)
  BY DEF Open, Undecided
<1>4. \/ Open(a1) /\ row[1].decision = "ALLOW"
      \/ Blocked(a1) /\ row[1].decision = "BLOCK"
  BY <1>1, <1>3, OneTurn
<1> HIDE DEF a1
<1>5. \/ Open(a2) /\ \A i \in 1..2 : row[i].decision = "ALLOW"
      \/ Blocked(a2) /\ \E i \in 1..2 : row[i].decision = "BLOCK"
  BY <1>1, <1>4, OneTurn
<1> HIDE DEF a2
<1>6. \/ Open(a3) /\ \A i \in 1..3 : row[i].decision = "ALLOW"
      \/ Blocked(a3) /\ \E i \in 1..3 : row[i].decision = "BLOCK"
  BY <1>1, <1>5, OneTurn
<1> HIDE DEF a3
<1>7. \/ Open(a4) /\ \A i \in 1..4 : row[i].decision = "ALLOW"
      \/ Blocked(a4) /\ \E i \in 1..4 : row[i].decision = "BLOCK"
  BY <1>1, <1>6, OneTurn
<1> HIDE DEF a4
<1>8. CASE Open(a4) /\ \A i \in 1..4 : row[i].decision = "ALLOW"
  <2>1. \A i \in 1..5 : i \in 1..4 \/ i = 5
    OBVIOUS
  <2>2. a5.decision = row[5].decision
    BY <1>1, <1>8 DEF consider, Open
  <2>3. RowsDecide(row) = row[5].decision
    BY <1>1, <1>8, <2>1 DEF RowsDecide
  <2> QED
    BY <1>2, <2>2, <2>3 DEF row
<1>9. CASE Blocked(a4) /\ \E i \in 1..4 : row[i].decision = "BLOCK"
  <2>1. a5.decision = "BLOCK"
    BY <1>9, OneTurn DEF Blocked
  <2>2. RowsDecide(row) = "BLOCK"
    BY <1>1, <1>9 DEF RowsDecide
  <2> QED
    BY <1>2, <2>1, <2>2 DEF row
<1> QED
  BY <1>7, <1>8, <1>9

\* The engine never lets through an amount the hook refuses: if it does not
\* block an action on a spend figure no lower than the hook's accumulator and
\* on the account's balance, then PolicyLib allows what the action really
\* moves, which is at most its notional, and the floor holds afterwards.
THEOREM EngineNoLaxerThanHook ==
  ASSUME NEW p, NEW intent, NEW w \in Window, NEW today \in Day,
         NEW spend \in Nat, NEW funds \in Nat, NEW moved \in Uint,
         p.maxTransaction \in Uint, p.dailySpend \in Uint, p.minBalance \in Uint,
         intent.notional \in Nat, moved <= intent.notional,
         w.day <= today, base(w, today) <= spend,
         evaluateIntent(p, intent, [dailySpend |-> spend, balance |-> funds]).decision
           # "BLOCK"
  PROVE  /\ evaluate(w, [maxTransaction |-> p.maxTransaction,
                         dailyLimit |-> p.dailySpend], moved, today).decision = "Allow"
         /\ funds - moved >= p.minBalance
PROOF
<1> DEFINE state == [dailySpend |-> spend, balance |-> funds]
           row == policyRows(p, intent, state)
<1>1. \A i \in 1..5 : row[i].decision # "BLOCK"
  BY LoopMatchesRows, RowDecisions DEF RowsDecide
<1>2. /\ MaxTransactionPolicy(p, intent) # "BLOCK"
      /\ MinBalancePolicy(p, intent, state) # "BLOCK"
      /\ DailySpendPolicy(p, intent, state) # "BLOCK"
  BY <1>1 DEF policyRows
<1>3. /\ intent.notional <= p.maxTransaction
      /\ funds - intent.notional >= p.minBalance
      /\ spend + intent.notional <= p.dailySpend
  BY <1>2 DEF MaxTransactionPolicy, MinBalancePolicy, DailySpendPolicy
<1>4. base(w, today) \in Uint
  BY BaseType
<1>5. /\ moved <= p.maxTransaction
      /\ base(w, today) + moved <= p.dailySpend
      /\ funds - moved >= p.minBalance
  BY <1>3, <1>4, MaxUintAssumption DEF Uint
<1> DEFINE limits == [maxTransaction |-> p.maxTransaction,
                      dailyLimit |-> p.dailySpend]
<1>6. ~movesBackwards(w, today)
  BY DEF movesBackwards, Window, Day
<1>7. ~overTransaction(limits, moved)
  BY <1>5, MaxUintAssumption DEF overTransaction, Uint
<1>8. ~overflows(base(w, today), moved) /\ ~(base(w, today) + moved > MaxUint)
  BY <1>4, <1>5, MaxUintAssumption DEF overflows, Uint
<1>9. ~overDaily(limits, base(w, today) + moved)
  BY <1>4, <1>5, MaxUintAssumption DEF overDaily, Uint
<1> HIDE DEF limits
<1>10. evaluate(w, limits, moved, today).decision = "Allow"
  BY <1>6, <1>7, <1>8, <1>9 DEF evaluate
<1> QED
  BY <1>5, <1>10 DEF limits
=============================================================================
