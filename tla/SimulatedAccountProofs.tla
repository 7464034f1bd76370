------------------------ MODULE SimulatedAccountProofs ------------------------
(***************************************************************************)
(* The simulated account, for every configuration, balance and request:    *)
(* its accumulator covers its log, it decides as the hook would, and the   *)
(* trader that runs on one reports what left it.                           *)
(***************************************************************************)
EXTENDS Trader, TLAPS

\* What the two properties rest on: types, the ceiling being back in place
\* between calls, a window that is never ahead of the clock, and the daily
\* limit.
Inv ==
  /\ config \in Configs
  /\ ceiling = config.maxTransaction
  /\ balance \in Nat /\ today \in Nat /\ logged \in Nat
  /\ window \in [day: Nat, spent: Nat]
  /\ window.day <= today
  /\ logged <= spentToday
  /\ spentToday <= config.dailyLimit

\* The limits of a configuration are machine integers.
LEMMA ConfigFields ==
  ASSUME config \in Configs
  PROVE  /\ config.maxTransaction \in Nat /\ config.dailyLimit \in Nat
         /\ config.minBalance \in Nat
         /\ config.dailyLimit <= MaxUint
PROOF
  BY SimulatedAssumption, WidthAssumption DEF Lib!Uint

\* What leaves is a natural number, and on acceptance at most the balance.
LEMMA MovedType ==
  ASSUME NEW r \in Requests, balance \in Nat
  PROVE  applyTransfer(r) \in Nat
PROOF
  BY WidthAssumption DEF Requests, applyTransfer, applyRouterPull, Lib!Uint

\* The constructor establishes the invariant.
LEMMA Initially == Init => Inv
PROOF
  BY ConfigFields, SimulatedAssumption, WidthAssumption
     DEF Init, Inv, spentToday, Lib!Uint

\* A request under the policy's ceiling or the owner's keeps the accumulator
\* above the log and below the limit.
LEMMA SendPreserves ==
  ASSUME Inv, NEW r \in Requests, NEW by, NEW limit \in Nat,
         sendUnchecked(r, by, limit), ceiling' = ceiling
  PROVE  Inv'
PROOF
<1> DEFINE moved == applyTransfer(r)
<1>1. moved \in Nat
  BY MovedType DEF Inv
<1>2. /\ config.dailyLimit \in Nat /\ config' = config /\ today' = today
      /\ spentToday \in Nat
  BY ConfigFields DEF Inv, sendUnchecked, spentToday
<1> HIDE DEF moved
<1>3. CASE outcome(r, limit) = "Allow"
  <2>1. moved <= balance /\ (moved > 0 => spentToday + moved <= config.dailyLimit)
    BY <1>1, <1>2, <1>3 DEF outcome, moved, Inv
  <2>2. /\ balance' = balance - moved /\ logged' = logged + moved
        /\ window' = IF moved > 0 THEN [day |-> today, spent |-> spentToday + moved]
                                  ELSE window
    BY <1>3 DEF sendUnchecked, windowAfter, moved
  <2>3. CASE moved > 0
    BY <1>1, <1>2, <2>1, <2>2, <2>3 DEF Inv, spentToday
  <2>4. CASE moved = 0
    BY <1>1, <1>2, <2>1, <2>2, <2>4 DEF Inv, spentToday
  <2> QED
    BY <1>1, <2>3, <2>4
<1>4. CASE outcome(r, limit) = "BelowMinBalance"
  <2>1. moved > 0 => spentToday + moved <= config.dailyLimit
    BY <1>1, <1>2, <1>4 DEF outcome, moved, Inv
  <2>2. /\ balance' = balance - 0 /\ logged' = logged + 0
        /\ window' = IF moved > 0 THEN [day |-> today, spent |-> spentToday + moved]
                                  ELSE window
    BY <1>4 DEF sendUnchecked, windowAfter, moved
  <2>3. CASE moved > 0
    BY <1>1, <1>2, <2>1, <2>2, <2>3 DEF Inv, spentToday
  <2>4. CASE moved = 0
    BY <1>1, <1>2, <2>1, <2>2, <2>4 DEF Inv, spentToday
  <2> QED
    BY <1>1, <2>3, <2>4
<1>5. CASE outcome(r, limit) \notin {"Allow", "BelowMinBalance"}
  <2>1. balance' = balance - 0 /\ logged' = logged + 0 /\ window' = window
    BY <1>5 DEF sendUnchecked, windowAfter
  <2> QED
    BY <1>2, <2>1 DEF Inv, spentToday
<1> QED
  BY <1>3, <1>4, <1>5

\* Every call under either key, and the clock, keeps it.
LEMMA Preserved == Inv /\ [Next]_vars => Inv'
PROOF
<1> SUFFICES ASSUME Inv, [Next]_vars PROVE Inv'
  OBVIOUS
<1>0. config.maxTransaction \in Nat /\ config.dailyLimit \in Nat
  BY ConfigFields DEF Inv
<1>1. CASE \E r \in Requests : send(r)
  BY <1>0, <1>1, SendPreserves DEF send, Inv
<1>2. CASE \E r \in Requests : sendAsOwner(r)
  BY <1>0, <1>2, SendPreserves DEF sendAsOwner, restoredCeiling, Inv
<1>3. CASE advance
  BY <1>0, <1>3 DEF advance, Inv, spentToday
<1>4. CASE UNCHANGED vars
  BY <1>4 DEF vars, Inv, spentToday
<1> QED
  BY <1>1, <1>2, <1>3, <1>4 DEF Next

\* The invariant holds of every history of the simulated account.
THEOREM InductiveInvariant == Spec => []Inv
PROOF
  BY Initially, Preserved, PTL DEF Spec

\* Whatever is sent under either key, what left today is covered by the
\* simulator's accumulator, and that is within the daily limit.
THEOREM AccumulatorCovers == Spec => []AccumulatorCoversLog
PROOF
<1>1. Inv => AccumulatorCoversLog
  BY DEF Inv, AccumulatorCoversLog
<1> QED
  BY <1>1, InductiveInvariant, PTL

\* The simulator's chain of checks and the hook's agree on every request: the
\* guards the simulator leaves out (a window ahead of the clock, overflow of
\* the accumulator) never apply to it.
LEMMA SameDecision ==
  ASSUME Inv, NEW r \in Requests, NEW limit \in Nat
  PROVE  outcome(r, limit) = HookDecision(r, limit)
PROOF
<1> DEFINE moved == applyTransfer(r)
           limits == [maxTransaction |-> limit, dailyLimit |-> config.dailyLimit]
<1>1. moved \in Nat
  BY MovedType DEF Inv
<1>2. /\ Lib!base(window, today) = spentToday /\ spentToday \in Nat
      /\ ~Lib!movesBackwards(window, today)
  BY DEF Inv, spentToday, Lib!base, Lib!movesBackwards
<1>3. /\ config.dailyLimit \in Nat /\ config.dailyLimit <= MaxUint
      /\ MaxUint \in Nat
  BY ConfigFields, WidthAssumption DEF Inv
<1> HIDE DEF moved
<1>4. Lib!evaluate(window, limits, moved, today).decision
        = IF moved > limit THEN "ExceedsMaxTransaction"
          ELSE IF spentToday + moved > config.dailyLimit THEN "ExceedsDailyLimit"
          ELSE "Allow"
  <2>1. Lib!overTransaction(limits, moved) <=> moved > limit
    BY DEF Lib!overTransaction
  <2>2. Lib!overflows(spentToday, moved) => spentToday + moved > config.dailyLimit
    BY <1>1, <1>2, <1>3 DEF Lib!overflows
  <2>3. Lib!overDaily(limits, spentToday + moved)
          <=> spentToday + moved > config.dailyLimit
    BY DEF Lib!overDaily
  <2>4. spentToday + moved > MaxUint => Lib!overflows(spentToday, moved)
    BY <1>1, <1>2, <1>3 DEF Lib!overflows
  <2> HIDE DEF limits
  <2> QED
    BY <1>2, <2>1, <2>2, <2>3, <2>4 DEF Lib!evaluate
<1> QED
  BY <1>1, <1>2, <1>4 DEF outcome, HookDecision, moved, belowFloor

\* Along every history each request gets the hook's decision, under the
\* ceiling the policy names for its sender.
THEOREM DecidesAsHook == Spec => DecidesLikeHook
PROOF
<1> DEFINE ceilingOf(by) == IF by = "owner" THEN config.dailyLimit
                                             ELSE config.maxTransaction
<1>1. Inv /\ [Next]_vars =>
        [today' = today =>
           receipt'.outcome = HookDecision(receipt'.request, ceilingOf(receipt'.by))]_vars
  <2> SUFFICES ASSUME Inv, Next, today' = today
               PROVE  receipt'.outcome
                        = HookDecision(receipt'.request, ceilingOf(receipt'.by))
    BY DEF Next
  <2>0. config.maxTransaction \in Nat /\ config.dailyLimit \in Nat
    BY ConfigFields DEF Inv
  <2>1. ~advance
    BY DEF advance, Inv
  <2>2. CASE \E r \in Requests : send(r)
    BY <2>0, <2>2, SameDecision DEF send, sendUnchecked, Inv
  <2>3. CASE \E r \in Requests : sendAsOwner(r)
    BY <2>0, <2>3, SameDecision DEF sendAsOwner, sendUnchecked, Inv
  <2> QED
    BY <2>1, <2>2, <2>3 DEF Next
<1> QED
  BY <1>1, InductiveInvariant, PTL DEF Spec, DecidesLikeHook

-----------------------------------------------------------------------------
(* The trader *)

\* The types of the loop's own state, and the property itself: each accepted
\* swap adds to the results what it takes from the balance.
TraderInv ==
  /\ proposal \in Lib!Uint /\ signal \in Nat
  /\ memory \in [spend: [0..LastDay -> Nat], balance: Nat, executions: Nat]
  /\ results \in [Decisions -> [count: Nat, amount: Nat]]
  /\ ReportsWhatLeft

\* The trader starts on a fresh account with nothing to report.
LEMMA TraderInitially == TraderInit => TraderInv
PROOF
<1> SUFFICES ASSUME TraderInit PROVE TraderInv
  OBVIOUS
<1>1. balance \in Nat
  BY SimulatedAssumption, WidthAssumption DEF TraderInit, Init, Lib!Uint
<1>2. proposal \in Lib!Uint /\ signal \in Nat
  BY WidthAssumption DEF TraderInit, Lib!Uint
<1>3. /\ memory \in [spend: [0..LastDay -> Nat], balance: Nat, executions: Nat]
      /\ memory.executions = 0
      /\ driver = "trader" => memory.balance = balance
  BY <1>1 DEF TraderInit, setBalance
<1>4. /\ results \in [Decisions -> [count: Nat, amount: Nat]]
      /\ results["ALLOW"].count = 0 /\ results["ALLOW"].amount = 0
  BY DEF TraderInit, Decisions
<1> QED
  BY <1>1, <1>2, <1>3, <1>4 DEF TraderInv, ReportsWhatLeft

\* The swap the trader builds is a request of the account.
LEMMA SwapIsRequest ==
  ASSUME proposal \in Lib!Uint
  PROVE  buildSwap(proposal) \in Requests
PROOF
  BY TraderAssumption, SimulatedAssumption DEF buildSwap, Requests, Methods

\* What the trader sends is a request like any other: its account behaves as
\* a simulated account.
LEMMA TraderStep ==
  ASSUME TraderInv, [TraderNext]_<<vars, traderVars>>
  PROVE  [Next]_vars
PROOF
<1>1. ASSUME executes PROVE Next
  BY <1>1, SwapIsRequest DEF executes, TraderInv, Next
<1> QED
  BY <1>1 DEF TraderNext, propose, proposeThrows, refused, returns, Next

\* A swap the account accepts takes at most what was proposed, and exactly
\* that when there is a reserve to keep.
LEMMA AcceptedSwap ==
  ASSUME Inv, proposal \in Lib!Uint, send(buildSwap(proposal)),
         receipt'.outcome = "Allow"
  PROVE  /\ balance' \in Nat /\ balance' >= balance - proposal
         /\ config.minBalance > 0 => balance' = balance - proposal
PROOF
<1> DEFINE r == buildSwap(proposal)
<1>1. /\ proposal \in Nat /\ balance \in Nat /\ config.minBalance \in Nat
  BY ConfigFields, WidthAssumption DEF Inv, Lib!Uint
<1>2. r.target # Asset /\ r.method = "swap" /\ r.amount = proposal
  BY TraderAssumption DEF buildSwap
<1>3. outcome(r, ceiling) = "Allow" /\ balance' = balance - applyTransfer(r)
  BY DEF send, sendUnchecked
<1> HIDE DEF r
<1>4. applyTransfer(r) = IF proposal > balance THEN balance ELSE proposal
  BY <1>2 DEF applyTransfer, applyRouterPull
<1>5. ~(balance - applyTransfer(r) < config.minBalance)
  BY <1>3 DEF outcome, belowFloor
<1> QED
  BY <1>1, <1>3, <1>4, <1>5

\* A result is added to the ones under its own decision only.
LEMMA PushFacts ==
  ASSUME NEW d, proposal \in Nat, results \in [Decisions -> [count: Nat, amount: Nat]]
  PROVE  /\ push(d) \in [Decisions -> [count: Nat, amount: Nat]]
         /\ d # "ALLOW" => push(d)["ALLOW"] = results["ALLOW"]
         /\ d = "ALLOW" =>
              /\ push(d)["ALLOW"].count = results["ALLOW"].count + 1
              /\ push(d)["ALLOW"].amount = results["ALLOW"].amount + proposal
PROOF
<1>1. "ALLOW" \in Decisions
  BY DEF Decisions
<1> DEFINE e == [count |-> results[d].count + 1,
                 amount |-> results[d].amount + proposal]
<1>2. push(d) = [results EXCEPT ![d] = e]
  BY DEF push
<1>3. d \in Decisions => e \in [count: Nat, amount: Nat]
  OBVIOUS
<1>4. e.count = results[d].count + 1 /\ e.amount = results[d].amount + proposal
  OBVIOUS
<1> HIDE DEF e
<1> QED
  BY <1>1, <1>2, <1>3, <1>4

\* Every step of the loop keeps the reports in step with the account.
LEMMA TraderPreserved ==
  ASSUME Inv, TraderInv, [TraderNext]_<<vars, traderVars>>
  PROVE  TraderInv'
PROOF
<1>0. /\ proposal \in Lib!Uint /\ proposal \in Nat /\ balance \in Nat
      /\ signal \in Nat
      /\ memory \in [spend: [0..LastDay -> Nat], balance: Nat, executions: Nat]
      /\ results \in [Decisions -> [count: Nat, amount: Nat]]
      /\ results["ALLOW"].count \in Nat /\ results["ALLOW"].amount \in Nat
      /\ memory.balance \in Nat /\ memory.executions \in Nat
  BY WidthAssumption DEF Inv, TraderInv, Lib!Uint, Decisions
<1>1. CASE propose
  <2>1. proposal' \in Lib!Uint /\ signal' \in Nat
    <3>1. Amounts \subseteq Lib!Uint /\ ScriptedProposal \in Lib!Uint
      <4>1. /\ Transcript \in Seq(Lib!Uint) /\ Transcript # <<>>
            /\ Amounts \subseteq Lib!Uint
        BY TraderAssumption
      <4>2. Len(Transcript) \in Nat \ {0}
        BY <4>1
      <4>3. signal \in Nat
        BY <1>0
      <4> QED
        BY <4>1, <4>2, <4>3 DEF ScriptedProposal
    <3> QED
      BY <1>0, <1>1, <3>1 DEF propose, takes
  <2> QED
    BY <1>1, <2>1 DEF propose, TraderInv, ReportsWhatLeft, vars
<1>2. CASE proposeThrows \/ returns
  BY <1>2 DEF proposeThrows, returns, TraderInv, ReportsWhatLeft, vars
<1>3. CASE executes
  <2>1. /\ driver = "trader" /\ send(buildSwap(proposal))
        /\ settled(receipt'.outcome = "Allow")
        /\ UNCHANGED <<driver, proposal, signal>> /\ config' = config
    BY <1>3 DEF executes, send, sendUnchecked
  <2>2. CASE receipt'.outcome = "Allow"
    <3>1. memory' = recordExecution /\ results' = push("ALLOW")
      BY <2>1, <2>2 DEF settled
    <3>2. /\ memory' \in [spend: [0..LastDay -> Nat], balance: Nat, executions: Nat]
          /\ memory'.balance = memory.balance
          /\ memory'.executions = memory.executions + 1
      BY <1>0, <3>1 DEF recordExecution
    <3>3. /\ results' \in [Decisions -> [count: Nat, amount: Nat]]
          /\ results'["ALLOW"].count = results["ALLOW"].count + 1
          /\ results'["ALLOW"].amount = results["ALLOW"].amount + proposal
      BY <1>0, <3>1, PushFacts
    <3>4. /\ balance' \in Nat /\ balance' >= balance - proposal
          /\ config.minBalance > 0 => balance' = balance - proposal
      BY <1>0, <2>1, <2>2, AcceptedSwap
    <3>5. ReportsWhatLeft'
      <4>1. /\ memory.executions = results["ALLOW"].count
            /\ memory.balance - balance <= results["ALLOW"].amount
            /\ config.minBalance > 0 =>
                 memory.balance - balance = results["ALLOW"].amount
        BY <2>1 DEF TraderInv, ReportsWhatLeft
      <4>2. memory'.executions = results'["ALLOW"].count
        BY <3>2, <3>3, <4>1
      <4>3. memory'.balance - balance' <= results'["ALLOW"].amount
        BY <1>0, <3>2, <3>3, <3>4, <4>1
      <4>4. ASSUME config.minBalance > 0
            PROVE  memory'.balance - balance' = results'["ALLOW"].amount
        <5>1. /\ balance' = balance - proposal
              /\ memory.balance - balance = results["ALLOW"].amount
          BY <3>4, <4>1, <4>4, Zenon
        <5> QED
          BY <1>0, <3>2, <3>3, <5>1
      <4> QED
        BY <2>1, <4>2, <4>3, <4>4 DEF ReportsWhatLeft
    <3> QED
      BY <1>0, <2>1, <3>2, <3>3, <3>5 DEF TraderInv
  <2>3. CASE receipt'.outcome # "Allow"
    <3>1. memory' = memory /\ results' = results
      BY <2>1, <2>3 DEF settled
    <3>2. balance' = balance
      <4>1. outcome(buildSwap(proposal), ceiling) # "Allow"
        BY <2>1, <2>3 DEF send, sendUnchecked
      <4>2. balance' = balance - 0
        BY <2>1, <4>1 DEF send, sendUnchecked
      <4> QED BY <1>0, <4>2
    <3> QED
      BY <2>1, <3>1, <3>2 DEF TraderInv, ReportsWhatLeft
  <2> QED
    BY <2>2, <2>3
<1>4. CASE refused
  <2>1. /\ results' = push(verdict) /\ verdict # "ALLOW"
        /\ UNCHANGED <<driver, proposal, signal, memory, balance, config>>
    BY <1>4 DEF refused, vars
  <2>2. /\ results' \in [Decisions -> [count: Nat, amount: Nat]]
        /\ results'["ALLOW"] = results["ALLOW"]
    BY <1>0, <2>1, PushFacts
  <2> QED
    BY <2>1, <2>2 DEF TraderInv, ReportsWhatLeft
<1>5. CASE driver = "direct" /\ Next /\ UNCHANGED traderVars
  BY <1>5 DEF traderVars, TraderInv, ReportsWhatLeft
<1>6. CASE driver = "trader" /\ advance /\ UNCHANGED traderVars
  BY <1>6 DEF traderVars, advance, TraderInv, ReportsWhatLeft
<1>7. CASE UNCHANGED <<vars, traderVars>>
  BY <1>7 DEF vars, traderVars, TraderInv, ReportsWhatLeft
<1> QED
  BY <1>1, <1>2, <1>3, <1>4, <1>5, <1>6, <1>7 DEF TraderNext

\* Whoever drives it, the account of a trader is a simulated account: what
\* is proved of every history of requests holds of the agent's.
THEOREM TraderUsesAccount == TraderSpec => Spec /\ []TraderInv
PROOF
<1>1. TraderInit => Init
  BY DEF TraderInit
<1> QED
  BY <1>1, TraderInitially, Initially, TraderStep, Preserved, TraderPreserved,
     PTL DEF TraderSpec, Spec

\* What runTrader reports as allowed is what left the account, for every
\* model, transcript and configuration, although its state provider never
\* learns of a spend.
THEOREM ReportsWhatLeftHolds == TraderSpec => []ReportsWhatLeft
PROOF
<1>1. TraderInv => ReportsWhatLeft
  BY DEF TraderInv
<1> QED
  BY <1>1, TraderUsesAccount, PTL
=============================================================================
