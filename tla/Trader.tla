-------------------------------- MODULE Trader --------------------------------
(***************************************************************************)
(* apps/agents/trader: an agent whose proposals come from a model          *)
(* (apps/agents/shared/llm.ts), run on a SimulatedAccount of its own with  *)
(* the in-memory state provider (state/MemoryStateProvider.ts).  Nothing   *)
(* tells that provider what the agent spends, so the engine judges every   *)
(* proposal on the opening state and the account alone keeps the budget.   *)
(*                                                                         *)
(* The loop is sequential and the account private: a proposal's evaluation *)
(* and its execution are one step.  The account may also be driven         *)
(* directly, by the demo and the tests, as SimulatedAccount has it.        *)
(***************************************************************************)
EXTENDS SimulatedAccount, PolicyEngine

CONSTANTS
  Router,       \* options.router
  Recipients,   \* policies.allowedRecipients
  Transcript,   \* what the scripted model replays
  Amounts,      \* bound: the amounts a language model may propose
  Signals,      \* the price signals the loop goes through
  Drivers       \* subset of {"trader", "direct"}

ASSUME TraderAssumption ==
  /\ Router \in Addr \ {Asset} /\ Recipients \subseteq Addr
  /\ Transcript \in Seq(Lib!Uint) /\ Transcript # <<>>
  /\ Amounts \subseteq Lib!Uint /\ Signals \in Nat
  /\ Drivers \subseteq {"trader", "direct"}

VARIABLES
  driver,    \* who sends to the account
  scripted,  \* ScriptedModel, or one that asks a provider
  signal,    \* signals the loop has taken up
  phase,     \* where the loop is
  proposal,  \* the amount proposed
  memory,    \* MemoryStateProvider: spend, balance and executions
  results    \* what runTrader will return: under each decision, how many
             \* results and how much in all they name

traderVars == <<driver, scripted, signal, phase, proposal, memory, results>>

Phases == {"propose", "execute", "returned", "rejected"}

-----------------------------------------------------------------------------
(* MemoryStateProvider *)

setBalance(amount) == [spend |-> [d \in 0..LastDay |-> 0], balance |-> amount,
                       executions |-> 0]

stateFor(day) == [dailySpend |-> memory.spend[day], balance |-> memory.balance]

\* The execution is noted; neither figure moves.
recordExecution == [memory EXCEPT !.executions = @ + 1]

-----------------------------------------------------------------------------
(* The policy and the swap *)

\* The document the account was configured from, as agent.policy.json has it:
\* whatever may be spent at once needs an approval only at the ceiling.
policyOf(c) ==
  [maxTransaction |-> c.maxTransaction, dailySpend |-> c.dailyLimit,
   minBalance |-> c.minBalance, approvalThreshold |-> c.maxTransaction,
   allowedContracts |-> c.allowedTargets, allowedRecipients |-> Recipients,
   asset |-> Asset, allowUnknownSelectors |-> FALSE]

\* The swap pays out to the account itself, and is decoded from its bytes.
buildSwap(amount) ==
  [target |-> Router, method |-> "swap", party |-> Account, amount |-> amount]

decodedSwap(amount) ==
  [kind |-> "SWAP", target |-> Router, counterparty |-> {Account},
   movesValue |-> amount > 0, notional |-> amount]

-----------------------------------------------------------------------------
(* The models *)

\* The transcript, its last entry repeated.
ScriptedProposal ==
  Transcript[IF signal < Len(Transcript) THEN signal + 1 ELSE Len(Transcript)]

takes(amounts) ==
  /\ \/ \E n \in amounts : proposal' = n /\ phase' = "execute"
     \/ ~scripted /\ UNCHANGED <<proposal, phase>>   \* HOLD, or no amount
  /\ signal' = signal + 1

\* model.propose for the next signal.
propose ==
  /\ driver = "trader" /\ phase = "propose" /\ signal < Signals
  /\ takes(IF scripted THEN {ScriptedProposal} ELSE Amounts)
  /\ UNCHANGED <<vars, driver, scripted, memory, results>>

\* The provider is down, answers with an error, with something that is not
\* the JSON asked for, or with an amount that does not parse: runTrader throws.
proposeThrows ==
  /\ driver = "trader" /\ phase = "propose" /\ signal < Signals /\ ~scripted
  /\ phase' = "rejected"
  /\ UNCHANGED <<vars, driver, scripted, signal, proposal, memory, results>>

-----------------------------------------------------------------------------
(* The loop *)

verdict == evaluateIntent(policyOf(config), decodedSwap(proposal), stateFor(today)).decision

\* results.push
push(decision) ==
  [results EXCEPT ![decision] =
     [count |-> results[decision].count + 1,
      amount |-> results[decision].amount + proposal]]

\* mutant: the account's refusal is swallowed and reported as an execution.
RefusalSwallowed(ok) ==
  /\ memory' = recordExecution
  /\ results' = push("ALLOW")
  /\ phase' = "propose"

\* The account refuses after the engine allowed: execute throws, and with it
\* runTrader, whose results are lost to the caller.
settled(ok) ==
  /\ memory' = IF ok THEN recordExecution ELSE memory
  /\ results' = IF ok THEN push("ALLOW") ELSE results
  /\ phase' = IF ok THEN "propose" ELSE "rejected"

\* protectedAccount.execute of an allowed swap.
executes ==
  /\ driver = "trader" /\ phase = "execute" /\ verdict = "ALLOW"
  /\ send(buildSwap(proposal))
  /\ settled(receipt'.outcome = "Allow")
  /\ UNCHANGED <<driver, scripted, signal, proposal>>

\* Blocked, or in need of an approval nobody can give: no approver is wired.
refused ==
  /\ driver = "trader" /\ phase = "execute" /\ verdict # "ALLOW"
  /\ results' = push(verdict)
  /\ phase' = "propose"
  /\ UNCHANGED <<vars, driver, scripted, signal, proposal, memory>>

returns ==
  /\ driver = "trader" /\ phase = "propose" /\ signal = Signals
  /\ phase' = "returned"
  /\ UNCHANGED <<vars, driver, scripted, signal, proposal, memory, results>>

-----------------------------------------------------------------------------
TraderInit ==
  /\ Init
  /\ driver \in Drivers /\ scripted \in BOOLEAN
  /\ driver = "direct" => scripted
  /\ signal = 0 /\ phase = "propose" /\ proposal = 0
  /\ memory = setBalance(IF driver = "trader" THEN balance ELSE 0)
  /\ results = [d \in Decisions |-> [count |-> 0, amount |-> 0]]

TraderNext ==
  \/ propose \/ proposeThrows \/ executes \/ refused \/ returns
  \/ driver = "direct" /\ Next /\ UNCHANGED traderVars
  \/ driver = "trader" /\ advance /\ UNCHANGED traderVars

TraderSpec == TraderInit /\ [][TraderNext]_<<vars, traderVars>>

-----------------------------------------------------------------------------
\* What runTrader reports is what left the account, although its state
\* provider never learns of a spend: the ALLOWs among its results are the
\* operations the account accepted, and their amounts add up to its outflow.
\* (A router that is let at a balance below the amount takes what there is;
\* a reserve rules that out.)
ReportsWhatLeft ==
  LET claimed == results["ALLOW"].amount
      outflow == memory.balance - balance
  IN  driver = "trader" =>
        /\ memory.executions = results["ALLOW"].count
        /\ outflow <= claimed
        /\ config.minBalance > 0 => outflow = claimed
=============================================================================
