------------------------------ MODULE PolicySpec ------------------------------
(***************************************************************************)
(* The harness contracts/formal/PolicySpec.sol: one window, one pair of    *)
(* limits fixed by the constructor, and a step whose two arguments are     *)
(* adversarial.  In particular `today' is any day, earlier or later than   *)
(* the stored one.                                                         *)
(*                                                                         *)
(* The contract asserts facts about a single step.  The history variable   *)
(* `allowed' adds up what each day was allowed over the whole run, so that *)
(* the promise of the product ("never more than the daily limit in a UTC   *)
(* day") can be stated for sequences of steps.                             *)
(***************************************************************************)
EXTENDS PolicyLib

CONSTANT Days      \* the days the caller may claim

ASSUME DaysAssumption == Days \subseteq Day

VARIABLES
  limits,    \* maxTransaction and dailyLimit, set once by the constructor
  window,    \* day and spent
  decision,  \* what the last step decided
  allowed    \* history: the amounts allowed on each day, added up

vars == <<limits, window, decision, allowed>>

\* The constructor: require(maxTx > 0) and require(daily >= maxTx).
Init ==
  /\ limits \in {l \in Limits : /\ l.maxTransaction > 0
                                /\ l.dailyLimit >= l.maxTransaction}
  /\ window = ZeroWindow
  /\ decision = "Allow"
  /\ allowed = [d \in Days |-> 0]

step(amount, today) ==
  LET r == evaluate(window, limits, amount, today)
      ok == r.decision = "Allow"
  IN  /\ window' = IF ok THEN r.next ELSE window
      /\ decision' = r.decision
      /\ allowed' = [allowed EXCEPT ![today] = IF ok THEN @ + amount ELSE @]
      /\ UNCHANGED limits

Next == \E amount \in Uint, today \in Days : step(amount, today)

Spec == Init /\ [][Next]_vars

-----------------------------------------------------------------------------
\* Every variable stays in its range.  For `decision' this is the claim that
\* evaluate is total: it decides and never panics ("The verified core. Total:
\* it decides, and never reverts", PolicyLib.sol).
TypeOK ==
  /\ limits \in Limits
  /\ window \in Window
  /\ decision \in Decision
  /\ allowed \in [Days -> Nat]

\* What a day was allowed over the whole run never exceeds the daily limit,
\* whatever days the caller claims and in whatever order: a day left behind
\* is never reopened with a fresh accumulator (PolicyLib.evaluate).
DailyTotalBounded == \A d \in Days : allowed[d] <= limits.dailyLimit

\* The stored window is the exact account of its own day, and no later day
\* has been charged: the accumulator neither forgets an amount it allowed nor
\* carries one over from an earlier day (PolicyLib.evaluate's UTC-day reset).
WindowIsExact ==
  \A d \in Days : /\ d = window.day => allowed[d] = window.spent
                  /\ d > window.day => allowed[d] = 0

\* The asserts of PolicySpec.step as one statement about a step: a refusal
\* leaves the window alone (P_NO_MUTATION); an allowed step never goes back to
\* an earlier day (P_WINDOW_FORWARD) and charges at most maxTransaction
\* (P_MAX_TRANSFER).
StepDiscipline ==
  [][/\ decision' # "Allow" => UNCHANGED window
     /\ window'.day >= window.day
     /\ window'.spent - base(window, window'.day) <= limits.maxTransaction
    ]_vars
=============================================================================
