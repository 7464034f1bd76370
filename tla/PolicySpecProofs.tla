--------------------------- MODULE PolicySpecProofs ---------------------------
(***************************************************************************)
(* The properties of the PolicySpec harness for every width, every set of  *)
(* claimable days and every pair of limits.                                *)
(*                                                                         *)
(* DailyTotalBounded is not inductive by itself: a step allowed today must *)
(* know what today was charged already.  WindowIsExact says so, and with   *)
(* it the bound on the window's own `spent' makes the invariant inductive. *)
(***************************************************************************)
EXTENDS PolicySpec, PolicyTheorems

IInv ==
  /\ TypeOK
  /\ window.spent <= limits.dailyLimit
  /\ DailyTotalBounded
  /\ WindowIsExact

\* The constructor establishes the inductive invariant.
LEMMA InitIInv == Init => IInv
BY MaxUintAssumption, DaysAssumption
   DEF Init, IInv, TypeOK, DailyTotalBounded, WindowIsExact, ZeroWindow,
       Limits, Window, Uint, Day, Decision

\* Every step, for any amount and day, keeps it.
LEMMA StepIInv ==
  ASSUME IInv, NEW amount \in Uint, NEW today \in Days, step(amount, today)
  PROVE  IInv'
<1> DEFINE r == evaluate(window, limits, amount, today)
<1>1. /\ window \in Window /\ limits \in Limits /\ today \in Day
      /\ allowed \in [Days -> Nat]
  BY DaysAssumption DEF IInv, TypeOK
<1>2. /\ r.decision \in Decision /\ r.next \in Window
  BY <1>1, EvaluateTotal
<1>3. CASE r.decision = "Allow"
  <2>1. /\ window' = r.next /\ decision' = "Allow" /\ limits' = limits
        /\ allowed' = [allowed EXCEPT ![today] = @ + amount]
    BY <1>3 DEF step
  <2>2. /\ r.next.day = today
        /\ r.next.spent = base(window, today) + amount
        /\ r.next.spent <= limits.dailyLimit
        /\ window.day <= today
    BY <1>1, <1>3, EvaluateAllows
  <2>3. allowed[today] = base(window, today)
    BY <1>1, <2>2 DEF IInv, WindowIsExact, base, Window, Day
  <2>4. TypeOK'
    BY <1>1, <1>2, <2>1 DEF TypeOK, Decision, Uint
  <2>5. DailyTotalBounded' /\ WindowIsExact'
    BY <1>1, <2>1, <2>2, <2>3, DaysAssumption
       DEF IInv, DailyTotalBounded, WindowIsExact, Uint, Day, Window, Limits
  <2> QED BY <2>1, <2>2, <2>4, <2>5 DEF IInv
<1>4. CASE r.decision # "Allow"
  <2>1. /\ window' = window /\ decision' = r.decision /\ limits' = limits
        /\ allowed' = allowed
    BY <1>1, <1>4 DEF step
  <2> QED
    BY <1>2, <2>1 DEF IInv, TypeOK, DailyTotalBounded, WindowIsExact
<1> QED BY <1>3, <1>4

\* The inductive invariant of the harness: over any sequence of steps, with
\* any claimed days, the window is the exact account of its day and no day
\* was allowed more than the daily limit (PolicyLib.evaluate).
THEOREM InductiveInvariant == Spec => []IInv
<1>1. IInv /\ [Next]_vars => IInv'
  <2> SUFFICES ASSUME IInv, [Next]_vars PROVE IInv'
    OBVIOUS
  <2>1. CASE Next
    BY <2>1, StepIInv DEF Next
  <2>2. CASE UNCHANGED vars
    BY <2>2 DEF vars, IInv, TypeOK, DailyTotalBounded, WindowIsExact
  <2> QED BY <2>1, <2>2
<1> QED BY InitIInv, <1>1, PTL DEF Spec

\* evaluate is total along every run: no step panics, every value keeps its
\* width (PolicyLib.sol "Total: it decides, and never reverts").
THEOREM TypeCorrect == Spec => []TypeOK
<1>1. IInv => TypeOK
  BY DEF IInv
<1> QED BY InductiveInvariant, <1>1, PTL

\* No UTC day is ever allowed more than the daily limit over a whole run, for
\* every width, every limits and every order of claimed days.
THEOREM DailyTotalIsBounded == Spec => []DailyTotalBounded
<1>1. IInv => DailyTotalBounded
  BY DEF IInv
<1> QED BY InductiveInvariant, <1>1, PTL

\* The stored accumulator is exactly what its day was allowed, and no later
\* day was charged.
THEOREM WindowIsAlwaysExact == Spec => []WindowIsExact
<1>1. IInv => WindowIsExact
  BY DEF IInv
<1> QED BY InductiveInvariant, <1>1, PTL

\* Every step of the harness keeps P_MAX_TRANSFER, P_WINDOW_FORWARD and
\* P_NO_MUTATION.
THEOREM EveryStepIsDisciplined == Spec => StepDiscipline
<1> DEFINE D == /\ decision' # "Allow" => UNCHANGED window
                /\ window'.day >= window.day
                /\ window'.spent - base(window, window'.day)
                     <= limits.maxTransaction
<1>1. ASSUME IInv, NEW amount \in Uint, NEW today \in Days, step(amount, today)
      PROVE  D
  <2> DEFINE r == evaluate(window, limits, amount, today)
  <2>1. /\ window \in Window /\ limits \in Limits /\ today \in Day
    BY <1>1, DaysAssumption DEF IInv, TypeOK
  <2>2. CASE r.decision = "Allow"
    <3>1. /\ window' = r.next /\ decision' = "Allow"
      BY <1>1, <2>2 DEF step
    <3>2. /\ amount <= limits.maxTransaction
          /\ r.next.day = today
          /\ r.next.spent = base(window, today) + amount
          /\ window.day <= today
      BY <2>1, <2>2, EvaluateAllows
    <3>3. base(window, today) \in Uint
      BY <2>1, BaseType
    <3> QED
      BY <2>1, <3>1, <3>2, <3>3 DEF Uint, Limits, Window, Day
  <2>3. CASE r.decision # "Allow"
    <3>1. window' = window
      BY <1>1, <2>3 DEF step
    <3>2. /\ window.spent - base(window, window.day) <= limits.maxTransaction
          /\ window.day >= window.day
      BY <2>1, MaxUintAssumption DEF base, Window, Limits, Uint, Day
    <3> QED BY <3>1, <3>2
  <2> QED BY <2>2, <2>3
<1>2. IInv /\ [Next]_vars => [D]_vars
  BY <1>1 DEF Next
<1> QED BY InductiveInvariant, <1>2, PTL DEF Spec, StepDiscipline
=============================================================================
