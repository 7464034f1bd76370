--------------------------- MODULE AgentPolicyHook ---------------------------
(***************************************************************************)
(* contracts/src/AgentPolicyHook.sol installed on one ERC-7579 account,    *)
(* with the account's execution path, the tracked ERC-20 and the calls     *)
(* that contracts make back into the account.  Every mapping of the hook   *)
(* is keyed by msg.sender, so one account is the whole state it can reach. *)
(*                                                                         *)
(* An operation is a stack of execution frames.  `execute' pushes a frame  *)
(* after preCheck; the call made by a frame may re-enter the account and   *)
(* push another (a call to the account itself, or an executor module);     *)
(* postCheck pops a frame and keeps its effects; a revert anywhere pops it *)
(* and restores everything the frame saved, as the EVM does.  Time moves,  *)
(* and other people's transactions run, only between operations.           *)
(***************************************************************************)
EXTENDS PolicyLib, Sequences

CONSTANTS
  Addr,        \* every address a call can name
  Parties,     \* those that can be a recipient or a spender
  Asset,       \* the tracked ERC-20
  Hook,        \* this contract
  Account,     \* the account the hook is installed on
  Policies,    \* the limits an owner may install
  TargetSets,  \* the allowlists an owner may install
  Extras,      \* asset methods beyond transfer, approve and transferFrom
  Amounts,     \* the amounts calls, pulls and inflows name
  UnhookedAmounts,  \* amounts moved or approved while no hook is installed
  Supply,      \* bound: tokens in existence
  MaxDepth,    \* bound: nested executions
  LastDay      \* bound: days explored

Policy == [maxTransaction: Uint, dailyLimit: Uint, minBalance: Uint]

ASSUME HookAssumption ==
  /\ {Asset, Hook, Account} \subseteq Addr
  /\ Account \in Parties /\ Parties \subseteq Addr
  /\ Asset # Hook /\ Asset # Account /\ Hook # Account
  /\ Policies \subseteq Policy
  /\ TargetSets \subseteq SUBSET Addr
  /\ Extras \subseteq {"increaseAllowance"}
  /\ Amounts \subseteq Uint /\ UnhookedAmounts \subseteq Uint
  /\ Supply \in Uint
  /\ MaxDepth \in Nat
  /\ LastDay \in Nat

VARIABLES
  config,         \* config[account]: the installed policy as a set, or {}
  window,         \* window[account]
  allowedTarget,  \* allowedTarget[account], as the set of allowed targets
  balance,        \* Asset.balanceOf(account)
  allowance,      \* Asset.allowance(account, spender)
  today,          \* block.timestamp / 1 days
  frames,         \* the open executions of the account, innermost last
  netOut          \* history: what completed operations took out today

vars == <<config, window, allowedTarget, balance, allowance, today, frames,
          netOut>>

\* Everything an EVM revert restores.
Storage == [config |-> config, window |-> window,
            allowedTarget |-> allowedTarget, balance |-> balance,
            allowance |-> allowance]

-----------------------------------------------------------------------------
(* Calls, and what the hook decodes of them *)

Methods == {"transfer", "approve", "transferFrom", "other"} \cup Extras

\* The account's calldata: how it is encoded, and the call inside it.  party
\* is the recipient or spender a method of the asset names.
Call == [encoding: {"single", "batch", "delegatecall", "malformed",
                    "otherSelector"},
         target: Addr, method: Methods, party: Parties, amount: Amounts \cup {0}]

\* Calls worth telling apart: party and amount matter to the asset only.
DistinctCalls ==
  {c \in Call : c.target # Asset \/ c.method = "other" =>
                  c.method = "other" /\ c.party = Account /\ c.amount = 0}

\* Only a well-formed single execution through execute or executeFromExecutor
\* is decoded; everything else reverts.
decodeSingleExecution(call) == call.encoding = "single"

\* The counterparty the calldata claims, as a set: empty when the method is
\* not one of the three recognised ones (address(0) in the code).
decodeErc20Counterparty(call) ==
  IF call.method \in {"transfer", "approve", "transferFrom"}
    THEN {call.party} ELSE {}

\* mutant: only the execution's target is checked.
PreCheckTargetOnly(call) ==
  config # {} /\ decodeSingleExecution(call) /\ call.target \in allowedTarget

\* The conditions under which preCheck returns instead of reverting.
preCheckPasses(call) ==
  /\ config # {}
  /\ decodeSingleExecution(call)
  /\ call.target \in allowedTarget
  /\ call.target = Asset => decodeErc20Counterparty(call) \subseteq allowedTarget

measuredOutflow(before, after) == IF before > after THEN before - after ELSE 0

limitsOf(c) == [maxTransaction |-> c.maxTransaction, dailyLimit |-> c.dailyLimit]

\* mutant: a missing policy is treated as nothing to check.
PostCheckSkipsMissing(before, day) ==
  \A c \in config :
    /\ measuredOutflow(before, balance) > 0 =>
         ~applySpendReverts(window, limitsOf(c),
                            measuredOutflow(before, balance), day)
    /\ balance >= c.minBalance

\* mutant: the floor is looked at only when something left.
PostCheckFloorOnOutflow(before, day) ==
  \E c \in config :
    measuredOutflow(before, balance) > 0 =>
      /\ ~applySpendReverts(window, limitsOf(c),
                            measuredOutflow(before, balance), day)
      /\ balance >= c.minBalance

\* The conditions under which postCheck(hookData) returns.
postCheckPasses(before, day) ==
  \E c \in config :
    /\ measuredOutflow(before, balance) > 0 =>
         ~applySpendReverts(window, limitsOf(c),
                            measuredOutflow(before, balance), day)
    /\ balance >= c.minBalance

\* mutant: the accumulator written back is the one read at preCheck.
WindowNotAdvanced(before, day) == window

\* mutant: the amount is added to whatever is stored, the new day forgotten.
WindowAddsBlindly(before, day) ==
  [day |-> day, spent |-> window.spent + measuredOutflow(before, balance)]

\* The window postCheck(hookData) leaves.
postCheckWindow(before, day) ==
  LET outflow == measuredOutflow(before, balance)
  IN  IF outflow > 0
        THEN applySpend(window, limitsOf(CHOOSE c \in config : TRUE), outflow, day)
        ELSE window

-----------------------------------------------------------------------------
(* The stack *)

HookData == [balanceBefore: Uint, today: Day, target: Addr]

Top == frames[Len(frames)]
Popped == SubSeq(frames, 1, Len(frames) - 1)

\* Code other than the account's may run: between operations, or while the
\* innermost call is to a contract that is neither the asset nor the hook.
ForeignCode == frames # <<>> => Top.call.target \notin {Asset, Hook}

\* The innermost call is to t and has not been made yet.
Calling(t) == frames # <<>> /\ Top.call.target = t /\ ~Top.done

CallMade ==
  frames' = [frames EXCEPT ![Len(frames)] =
               [call |-> Top.call, done |-> TRUE, hookData |-> Top.hookData,
                saved |-> Top.saved]]

-----------------------------------------------------------------------------
(* Installing and removing the policy *)

Init ==
  /\ config = {}
  /\ window = ZeroWindow
  /\ allowedTarget = {}
  /\ balance \in 0..Supply
  /\ allowance = [a \in Parties |-> 0]
  /\ today = 1
  /\ frames = <<>>
  /\ netOut = 0

\* onInstall by the owner's bootstrap.  It adds to the allowlist, and leaves
\* the window as it finds it.
onInstall(p, targets) ==
  /\ frames = <<>>
  /\ config = {}
  /\ config' = {p}
  /\ allowedTarget' = allowedTarget \cup targets
  /\ netOut' = 0
  /\ UNCHANGED <<window, balance, allowance, today, frames>>

\* mutant: the accumulator survives the policy it was counted under.
UninstallKeepsWindow == config' = {} /\ UNCHANGED <<window, allowedTarget>>

\* onUninstall deletes the configuration and the window, not the allowlist.
deletePolicy ==
  /\ config' = {}
  /\ window' = ZeroWindow
  /\ UNCHANGED allowedTarget

onUninstall ==
  /\ frames = <<>>
  /\ config # {}
  /\ deletePolicy
  /\ netOut' = 0
  /\ UNCHANGED <<balance, allowance, today, frames>>

-----------------------------------------------------------------------------
(* An execution *)

\* The account receives an execution and preCheck returns hookData.
preCheck(call) ==
  /\ ForeignCode
  /\ Len(frames) < MaxDepth
  /\ preCheckPasses(call)
  /\ frames' = Append(frames,
       [call |-> call, done |-> FALSE,
        hookData |-> [balanceBefore |-> balance, today |-> today,
                      target |-> call.target],
        saved |-> Storage])
  /\ UNCHANGED <<config, window, allowedTarget, balance, allowance, today, netOut>>

\* The call to the asset.  transferFrom is the one that names the account as
\* its source: any other moves nothing of the account's, or is an inflow.
assetCall ==
  LET c == Top.call IN
  /\ Calling(Asset)
  /\ \/ /\ c.method = "transfer" /\ c.amount <= balance
        /\ balance' = IF c.party = Account THEN balance ELSE balance - c.amount
        /\ UNCHANGED allowance
     \/ /\ c.method = "approve"
        /\ allowance' = [allowance EXCEPT ![c.party] = c.amount]
        /\ UNCHANGED balance
     \/ /\ c.method = "increaseAllowance"
        /\ allowance[c.party] + c.amount <= MaxUint
        /\ allowance' = [allowance EXCEPT ![c.party] = @ + c.amount]
        /\ UNCHANGED balance
     \/ /\ c.method = "transferFrom"
        /\ c.amount <= balance /\ c.amount <= allowance[Account]
        /\ balance' = IF c.party = Account THEN balance ELSE balance - c.amount
        /\ allowance' = [allowance EXCEPT ![Account] = @ - c.amount]
     \/ c.method = "other" /\ UNCHANGED <<balance, allowance>>
  /\ CallMade
  /\ UNCHANGED <<config, window, allowedTarget, today, netOut>>

\* A call to the hook itself, where msg.sender is the account: it may remove
\* the policy, or run postCheck on hookData of the caller's making.  (onInstall
\* reverts with AlreadyInstalled, preCheck and the views write nothing.)
hookCall ==
  /\ Calling(Hook)
  /\ \/ deletePolicy
     \/ \E before \in Uint, day \in 0..LastDay :
          /\ postCheckPasses(before, day)
          /\ window' = postCheckWindow(before, day)
          /\ UNCHANGED <<config, allowedTarget>>
  /\ CallMade
  /\ UNCHANGED <<balance, allowance, today, netOut>>

\* postCheck of the innermost execution: it measures, accumulates, checks the
\* floor, and the frame's effects stay.
postCheck ==
  LET before == Top.hookData.balanceBefore
      day == Top.hookData.today
  IN
  /\ frames # <<>>
  /\ postCheckPasses(before, day)
  /\ window' = postCheckWindow(before, day)
  /\ frames' = Popped
  /\ netOut' = IF Len(frames) = 1 THEN netOut + measuredOutflow(before, balance)
                                  ELSE netOut
  /\ UNCHANGED <<config, allowedTarget, balance, allowance, today>>

\* The innermost execution fails: the call, preCheck of something it called,
\* or postCheck reverts.  Whoever called it may go on or fail in turn.
revertFrame ==
  /\ frames # <<>>
  /\ config' = Top.saved.config
  /\ window' = Top.saved.window
  /\ allowedTarget' = Top.saved.allowedTarget
  /\ balance' = Top.saved.balance
  /\ allowance' = Top.saved.allowance
  /\ frames' = Popped
  /\ UNCHANGED <<today, netOut>>

-----------------------------------------------------------------------------
(* The rest of the chain *)

\* A spender uses its allowance, inside an operation or in a transaction of
\* its own.
pull(s, n) ==
  /\ ForeignCode
  /\ n <= allowance[s] /\ n <= balance
  /\ balance' = balance - n
  /\ allowance' = [allowance EXCEPT ![s] = @ - n]
  /\ UNCHANGED <<config, window, allowedTarget, today, frames, netOut>>

\* Anyone sends the account tokens.
inflow(n) ==
  /\ ForeignCode
  /\ balance + n <= Supply
  /\ balance' = balance + n
  /\ UNCHANGED <<config, window, allowedTarget, allowance, today, frames, netOut>>

\* With no hook installed the account executes anything.
unhookedExecute(s, n) ==
  /\ frames = <<>>
  /\ config = {}
  /\ \/ n <= balance /\ balance' = balance - n /\ UNCHANGED allowance
     \/ allowance' = [allowance EXCEPT ![s] = n] /\ UNCHANGED balance
  /\ UNCHANGED <<config, window, allowedTarget, today, frames, netOut>>

nextDay ==
  /\ frames = <<>>
  /\ today < LastDay
  /\ today' = today + 1
  /\ netOut' = 0
  /\ UNCHANGED <<config, window, allowedTarget, balance, allowance, frames>>

Next ==
  \/ \E p \in Policies, targets \in TargetSets : onInstall(p, targets)
  \/ onUninstall
  \/ \E call \in DistinctCalls : preCheck(call)
  \/ assetCall
  \/ hookCall
  \/ postCheck
  \/ revertFrame
  \/ \E s \in Parties \ {Account}, n \in Amounts : pull(s, n)
  \/ \E n \in Amounts : inflow(n)
  \/ \E s \in Parties, n \in UnhookedAmounts : unhookedExecute(s, n)
  \/ nextDay

Spec == Init /\ [][Next]_vars

-----------------------------------------------------------------------------
(* Properties *)

StorageType == [config: {{}} \cup {{p} : p \in Policies}, window: Window,
                allowedTarget: SUBSET Addr, balance: 0..Supply,
                allowance: [Parties -> Uint]]

Frame == [call: DistinctCalls, done: BOOLEAN, hookData: HookData,
          saved: StorageType]

\* Every variable stays in its range; in particular the account never holds
\* more than exists and no accumulator leaves the width of a uint256.
TypeOK ==
  /\ Storage \in StorageType
  /\ today \in Day
  /\ frames \in Seq(Frame) /\ Len(frames) <= MaxDepth
  /\ netOut \in Nat

\* The repository's invariant_DailySpendNeverExceedsLimit, with re-entrant
\* executions, uninstall and reinstall with other limits: the accumulator is
\* within the limit of the policy in force, at every moment (postCheck).
AccumulatorWithinLimit == \A p \in config : window.spent <= p.dailyLimit

\* The accumulator never under-counts: what completed operations took out of
\* the account today is covered by it, however the operations nest and
\* whatever they revert.  If the window is of another day, a spend today is
\* either still to come or no longer possible (postCheck, PolicyLib.evaluate).
AccumulatorCoversOutflow ==
  \A p \in config :
    /\ window.day = today => netOut <= window.spent
    /\ window.day < today => netOut = 0
    /\ netOut <= p.dailyLimit

\* The window is never ahead of the chain's day, so the accumulator never
\* locks the account out, unless the owner allowlisted the hook itself: its
\* postCheck trusts the day it is handed (postCheck, hookData).
WindowNotAhead == Hook \notin allowedTarget => window.day <= today

\* No execution changes the policy it runs under, even one that is allowed to
\* call the hook: when an operation ends, the configuration and the allowlist
\* are those it began with (onUninstall inside an execution makes postCheck
\* revert with NotInstalled).
ExecutionKeepsPolicy ==
  [][frames # <<>> /\ frames' = <<>> =>
       config' = frames[1].saved.config /\ allowedTarget' = frames[1].saved.allowedTarget]_vars

\* An operation that ends with the account below its floor changed nothing:
\* the floor is checked with no outflow too, so an operation cannot even
\* leave the account short after receiving tokens (postCheck).
FloorHolds ==
  [][\A p \in config :
       frames # <<>> /\ frames' = <<>> /\ balance' < p.minBalance
         => Storage' = frames[1].saved]_vars

\* No operation leaves an address that is not allowlisted with a larger
\* allowance than it had ("a spender that is not allowlisted cannot receive an
\* approval at all", docs/future-work.md), even through a nested execution
\* (preCheck's counterparty check).
SpendersAllowlisted ==
  [][frames # <<>> /\ frames' = <<>> =>
       \A s \in Parties :
         allowance'[s] > frames[1].saved.allowance[s] => s \in allowedTarget]_vars

\* The promise to the owner, of which the hook is an implementation: the
\* policy is the one in force between operations, and an operation spends when
\* its outermost execution completes.
Budget == INSTANCE SpendBudget WITH
            policy <- IF frames = <<>> THEN config ELSE frames[1].saved.config,
            out <- netOut

\* Every behaviour of the hook, re-entrant executions and reverts included,
\* is one the owner was promised.
ImplementsBudget == Budget!Spec
=============================================================================
