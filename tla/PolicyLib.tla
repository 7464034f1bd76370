------------------------------ MODULE PolicyLib ------------------------------
(***************************************************************************)
(* The deterministic spend check of contracts/src/lib/PolicyLib.sol.       *)
(*                                                                         *)
(* A window is the accumulator the hook stores per account: the UTC day it *)
(* was last written on and the outflow recorded within that day.  Limits   *)
(* are the two ceilings of a policy.  `evaluate' returns a decision and    *)
(* the window to commit; on every refusal that window is the stored one.   *)
(***************************************************************************)
EXTENDS Integers

CONSTANT MaxUint   \* type(uint256).max; a small number in a model

ASSUME MaxUintAssumption == MaxUint \in Nat \ {0}

Uint == 0..MaxUint
Day == Nat         \* block.timestamp / 1 days, a uint64 no chain exhausts

Limits == [maxTransaction: Uint, dailyLimit: Uint]
Window == [day: Day, spent: Uint]

Decision == {"Allow", "ExceedsMaxTransaction", "ExceedsDailyLimit",
             "WindowMovedBackwards"}

\* A window that was never written, or that `delete' cleared.
ZeroWindow == [day |-> 0, spent |-> 0]

\* mutant: the UTC-day reset forgotten.
BaseNoReset(w, today) == w.spent

\* mutant: every write starts from an empty accumulator.
BaseAlwaysZero(w, today) == 0

\* What already counts against today's limit: the UTC-day reset.
base(w, today) == IF w.day = today THEN w.spent ELSE 0

\* mutant: any day is accepted.
AnyDay(w, today) == FALSE

movesBackwards(w, today) == today < w.day

\* mutant: the separate overflow guard removed.
NoOverflowGuard(b, amount) == FALSE

overflows(b, amount) == amount > MaxUint - b

overDaily(l, wouldBe) == wouldBe > l.dailyLimit

\* mutant: the per-operation ceiling compared with the wrong limit.
TransactionVsDaily(l, amount) == amount > l.dailyLimit

overTransaction(l, amount) == amount > l.maxTransaction

\* The verified core.  "Panic" is the arithmetic revert of a checked addition
\* in Solidity 0.8; the guard before it is there to make it unreachable.
evaluate(w, l, amount, today) ==
  LET refuse(why) == [decision |-> why, next |-> w]
      b == base(w, today)
      wouldBe == b + amount
  IN  IF movesBackwards(w, today) THEN refuse("WindowMovedBackwards")
      ELSE IF overTransaction(l, amount) THEN refuse("ExceedsMaxTransaction")
      ELSE IF overflows(b, amount) THEN refuse("ExceedsDailyLimit")
      ELSE IF wouldBe > MaxUint THEN refuse("Panic")
      ELSE IF overDaily(l, wouldBe) THEN refuse("ExceedsDailyLimit")
      ELSE [decision |-> "Allow",
            next |-> [day |-> today, spent |-> wouldBe]]

\* The struct-shaped adapter reverts exactly when `evaluate' does not allow;
\* its condition and its result are kept apart, like a guard and an update.
applySpendReverts(w, l, amount, today) ==
  evaluate(w, l, amount, today).decision # "Allow"

applySpend(w, l, amount, today) == evaluate(w, l, amount, today).next

\* The non-reverting view of the remaining daily allowance.
remainingToday(w, l, today) ==
  LET b == base(w, today)
  IN  IF b >= l.dailyLimit THEN 0 ELSE l.dailyLimit - b
=============================================================================
