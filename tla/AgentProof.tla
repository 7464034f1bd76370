------------------------------ MODULE AgentProof ------------------------------
(***************************************************************************)
(* packages/sdk/src/core/AgentProof.ts: execute() and check() called       *)
(* concurrently on one account, from the decoded intent to the mined       *)
(* operation.  It composes the policy engine, the state provider, the      *)
(* approvers (approval/index.ts, ledger.ts), the enforcer and its          *)
(* executors (HookEnforcer.ts, adapters/executors.ts, SimulatedAccount.ts) *)
(* and the hook, which has the last word.                                  *)
(*                                                                         *)
(* JavaScript runs one continuation at a time: a step is what happens      *)
(* between two awaits.                                                     *)
(***************************************************************************)
EXTENDS GraphStateProvider, PolicyEngine

CONSTANTS
  Policy,       \* the resolved policy
  Installed,    \* allowedTarget as the hook was installed with it
  Intents,      \* what is asked for; moved is the most the chain would measure
  Calls,        \* the calls agents make: a mode and an intent
  Outside,      \* what others do with the account
  Executors,    \* subset of {"bundler", "eoa", "simulated"}
  Approvers,    \* the approvers selectApprover falls back on, "none" for none
  Ledgers,      \* what LEDGER_APPROVAL_ENABLED may find: subset of LedgerStates
  Opening,      \* opening balances
  MaxCalls      \* bound: calls of execute and check

\* The flag is off, on without a device that answers, or on with one.
LedgerStates == {"off", "unreachable", "ready"}

Fallbacks == {"none", "dashboard", "console", "auto"}

ASSUME AgentProofAssumption ==
  /\ resolvable(Policy)
  /\ {Policy.maxTransaction, Policy.dailySpend, Policy.minBalance,
      Policy.approvalThreshold} \subseteq Uint
  /\ Intents # {}
  /\ \A i \in Intents : i.moved \in Uint /\ i.notional \in Nat
  /\ Calls \subseteq [mode: {"check", "execute"}, intent: Intents]
  /\ Outside \subseteq {i \in Intents : i.moved > 0}
  /\ Executors \subseteq {"bundler", "eoa", "simulated"}
  /\ Approvers \subseteq Fallbacks /\ Ledgers \subseteq LedgerStates
  /\ Opening \subseteq Uint /\ MaxCalls \in Nat

VARIABLES
  executor,   \* the executor the instance was given
  ledger,     \* what the process found of a Ledger when it started
  approver,   \* the approver it was given; "refused" if it did not start
  run,        \* each caller: where its call is, and what it has decided
  calls,      \* calls started
  sequence,   \* PolicyEngine.sequence: decisions made
  pending,    \* DashboardApprover.pending: decisions waiting for a click
  clicked,    \* history: who said yes to which decision while it was asked
  ops,        \* the operations handed to the executor, by decision
  nonce,      \* the account's next nonce
  published   \* decisions handed to onDecision and onAuditRecord

setup == <<executor, ledger, approver>>

vars == <<chainVars, providerVars, setup, run, calls, sequence, pending, clicked,
          ops, nonce, published>>

Ids == 1..MaxCalls

NoRun == [pc |-> "idle", mode |-> "check", intent |-> CHOOSE i \in Intents : TRUE,
          id |-> 0, owner |-> FALSE]

NoOp == [status |-> "none", owner |-> FALSE, nonce |-> 0, abandoned |-> FALSE,
         intent |-> CHOOSE i \in Intents : TRUE]

At(r, pc) == run[r].pc = pc
Goto(r, pc) == run' = [run EXCEPT ![r].pc = pc]
\* The call returns or throws; what it gathered is garbage, except a spend
\* read still under way.
Return(r) ==
  /\ run' = [run EXCEPT ![r] = NoRun]
  /\ read' = [read EXCEPT ![r] = IF InFlight(r) THEN @ ELSE NoRead]
Publish(id) == published' = published \cup {id}

-----------------------------------------------------------------------------
(* The hook *)

hookLimits == [maxTransaction |-> Policy.maxTransaction,
               dailyLimit |-> Policy.dailySpend]

hookAllows(i) ==
  /\ i.target \in Installed
  /\ i.target = Policy.asset => i.counterparty \subseteq Installed
  /\ i.moved <= balance
  /\ i.moved > 0 => ~applySpendReverts(window, hookLimits, i.moved, today)
  /\ balance - i.moved >= Policy.minBalance

\* An operation the hook lets through.
Settle(i) ==
  /\ balance' = balance - i.moved
  /\ window' = IF i.moved > 0 THEN applySpend(window, hookLimits, i.moved, today)
                              ELSE window
  /\ dayTotal' = IF i.moved > 0 THEN [dayTotal EXCEPT ![today] = window'.spent]
                                ELSE dayTotal
  /\ UNCHANGED today

-----------------------------------------------------------------------------
(* A call *)

\* execute(action) or check(action): decode, and start gathering.
start(r, call) ==
  /\ At(r, "idle") /\ ~InFlight(r)
  /\ approver # "refused"
  /\ calls < MaxCalls
  /\ calls' = calls + 1
  /\ run' = [run EXCEPT ![r] = [NoRun EXCEPT !.pc = "gather", !.mode = call.mode,
                                             !.intent = call.intent]]
  /\ getDailySpend(r)
  /\ UNCHANGED <<chainVars, spendVars, setup, sequence, pending, clicked, ops,
                 nonce, published>>

\* The awaits of gatherState.  A spend read outlives a call that threw because
\* its balance read failed, and still fills the cache.
gather(r) ==
  /\ \/ queryIndexedSpend(r)
     \/ readOnchainSpend(r)
     \/ At(r, "gather") /\ getBalance(r)
  /\ UNCHANGED <<chainVars, setup, run, calls, sequence, pending, clicked,
                 ops, nonce, published>>

\* Promise.all rejects, because the spend is unavailable or the balance read
\* failed: the call throws and nothing is published.
gatherThrows(r) ==
  /\ At(r, "gather")
  /\ read[r].stage = "failed" \/ read[r].funds = "asked"
  /\ Return(r)
  /\ UNCHANGED <<chainVars, spendVars, setup, calls, sequence, pending,
                 clicked, ops, nonce, published>>

stateOf(r) == [dailySpend |-> read[r].spend, balance |-> read[r].balance]

\* Evaluate, and go where the decision leads: publish it, ask a human, or
\* hand the action to the executor.
decide(r) ==
  LET decision == evaluateIntent(Policy, run[r].intent, stateOf(r)).decision
      id == sequence + 1
      asks == decision = "REQUIRE_APPROVAL" /\ approver # "none"
      returns == \/ run[r].mode = "check"
                 \/ ~asks /\ decision # "ALLOW"
  IN
  /\ At(r, "gather") /\ read[r].stage = "done" /\ read[r].funds = "answered"
  /\ sequence' = id
  /\ IF returns
       THEN Return(r) /\ Publish(id) /\ UNCHANGED pending
       ELSE /\ run' = [run EXCEPT ![r].pc = IF asks THEN "approval" ELSE "sending",
                                  ![r].id = id]
            /\ pending' = IF asks /\ approver = "dashboard" THEN pending \cup {id}
                                                             ELSE pending
            /\ UNCHANGED <<published, read>>
  /\ UNCHANGED <<chainVars, spendVars, setup, calls, clicked, ops, nonce>>

-----------------------------------------------------------------------------
(* Approval *)

\* createLedgerTransport: the libraries are there, the device is open and gives
\* its address, or the transport throws.
createLedgerTransport(device) == device = "ready"

\* mutant: no device is reached, so the browser is asked instead.
FallsBack(device, fallback) ==
  IF createLedgerTransport(device) THEN "ledger" ELSE fallback

\* A flag that finds no device keeps the process from starting; it is never
\* a reason to use the fallback.
selectApprover(device, fallback) ==
  CASE device = "off" -> fallback
    [] device # "off" /\ createLedgerTransport(device) -> "ledger"
    [] OTHER -> "refused"

Yes(r, by) == clicked \cup {[id |-> run[r].id, by |-> by]}

\* The waiting call resumes with the outcome.
outcome(r, approved) ==
  /\ pending' = pending \ {run[r].id}
  /\ IF approved
       THEN /\ run' = [run EXCEPT ![r].pc = "sending", ![r].owner = TRUE]
            /\ UNCHANGED <<published, read>>
       ELSE Return(r) /\ Publish(run[r].id)
  /\ UNCHANGED <<chainVars, spendVars, setup, calls, sequence, ops, nonce>>

\* A click.  resolve() ignores an id that is no longer pending.
click(r, approved) ==
  /\ At(r, "approval") /\ run[r].id \in pending
  /\ clicked' = IF approved THEN Yes(r, "dashboard") ELSE clicked
  /\ outcome(r, approved)

\* mutant: no timer is set.
TimerNeverFires(r) == FALSE

\* The 120 s timer of a request that is still pending: silence is a denial.
timerFires(r) == At(r, "approval") /\ run[r].id \in pending

timeout(r) ==
  /\ timerFires(r)
  /\ outcome(r, FALSE)
  /\ UNCHANGED clicked

\* The terminal: only "y" is a yes, and nothing bounds the wait for an answer.
consoleAnswers(r, approved) ==
  /\ At(r, "approval") /\ approver = "console"
  /\ clicked' = IF approved THEN Yes(r, "console") ELSE clicked
  /\ outcome(r, approved)

\* AGENTPROOF_AUTO_APPROVE: nobody is asked.
autoApprove(r) ==
  /\ At(r, "approval") /\ approver = "auto"
  /\ outcome(r, TRUE)
  /\ UNCHANGED clicked

\* The device signs the text it shows; its address is then asked for.
deviceConfirms(r) ==
  /\ At(r, "approval") /\ approver = "ledger"
  /\ clicked' = Yes(r, "ledger")
  /\ Goto(r, "address")
  /\ UNCHANGED <<chainVars, providerVars, setup, calls, sequence, pending, ops,
                 nonce, published>>

deviceNamesKey(r) ==
  /\ At(r, "address")
  /\ outcome(r, TRUE)
  /\ UNCHANGED clicked

\* The device declines, or is unplugged before it has given both.
deviceDeclines(r) ==
  /\ approver = "ledger"
  /\ At(r, "approval") \/ At(r, "address")
  /\ outcome(r, FALSE)
  /\ UNCHANGED clicked

-----------------------------------------------------------------------------
(* Execution *)

\* Only a bundler's operation carries a nonce this code has read.
Op(r, status) == [status |-> status, owner |-> run[r].owner,
                  nonce |-> IF executor = "bundler" THEN nonce ELSE 0,
                  abandoned |-> FALSE, intent |-> run[r].intent]

\* The executor refuses before anything is submitted: it has no owner path, an
\* RPC fails, or the estimation, the dry run or the simulated account reverts
\* in the hook.
sendThrows(r) ==
  /\ At(r, "sending")
  /\ executor = "simulated" => ~hookAllows(run[r].intent)
  /\ Return(r)
  /\ UNCHANGED <<chainVars, spendVars, setup, calls, sequence, pending,
                 clicked, ops, nonce, published>>

\* The simulated account executes within the call, under either key.  The
\* owner's raised ceiling decides nothing here: the engine has already blocked
\* whatever is above maxTransaction.
sendSimulated(r) ==
  /\ At(r, "sending") /\ executor = "simulated"
  /\ hookAllows(run[r].intent)
  /\ Settle(run[r].intent)
  /\ ops' = [ops EXCEPT ![run[r].id] = Op(r, "mined")]
  /\ nonce' = nonce + 1
  /\ Goto(r, "sent")
  /\ Unclean(r)
  /\ UNCHANGED <<spendVars, setup, calls, sequence, pending, clicked,
                 published>>

\* The bundler takes a session-key operation whose estimation passed; an EOA
\* signer sends a transaction whose dry run passed, under either key.
submit(r) ==
  /\ At(r, "sending") /\ executor # "simulated"
  /\ executor = "bundler" => ~run[r].owner
  /\ hookAllows(run[r].intent)
  /\ ops' = [ops EXCEPT ![run[r].id] = Op(r, "pooled")]
  /\ Goto(r, "sent")
  /\ UNCHANGED <<chainVars, providerVars, setup, calls, sequence, pending,
                 clicked, nonce, published>>

\* A pooled operation is included, now or long after its sender gave up; the
\* hook judges it on the state of that moment.  A bundler's operations carry
\* the account's nonce as it was read; an EOA gives each transaction its own.
mine(id) ==
  /\ ops[id].status = "pooled"
  /\ executor = "bundler" => ops[id].nonce = nonce
  /\ nonce' = nonce + 1
  /\ \/ /\ hookAllows(ops[id].intent)
        /\ Settle(ops[id].intent)
        /\ ops' = [ops EXCEPT ![id].status = "mined"]
        /\ read' = [r \in Runs |-> IF run[r].id = id THEN read[r]
                                   ELSE [read[r] EXCEPT !.clean = FALSE]]
     \/ /\ ~hookAllows(ops[id].intent)
        /\ ops' = [ops EXCEPT ![id].status = "reverted"]
        /\ UNCHANGED <<chainVars, read>>
  /\ UNCHANGED <<spendVars, setup, run, calls, sequence, pending, clicked,
                 published>>

\* mutant: only operations of the session key are reported.
PublishSession(r) == IF run[r].owner THEN UNCHANGED published ELSE Publish(run[r].id)

publishExecuted(r) == Publish(run[r].id)

\* The transaction hash arrives: record the execution, publish, return.
finish(r) ==
  /\ At(r, "sent") /\ ops[run[r].id].status = "mined"
  /\ recordExecution
  /\ publishExecuted(r)
  /\ Return(r)
  /\ UNCHANGED <<chainVars, setup, calls, sequence, pending, clicked, ops,
                 nonce>>

\* The receipt says reverted, or the wait for one ends (30 polls of a bundler,
\* a failed poll counting as no receipt): the call throws.
receiptThrows(r) ==
  /\ At(r, "sent") /\ executor # "simulated"
  /\ ops' = [ops EXCEPT ![run[r].id].abandoned = TRUE]
  /\ Return(r)
  /\ UNCHANGED <<chainVars, spendVars, setup, calls, sequence, pending,
                 clicked, nonce, published>>

-----------------------------------------------------------------------------
(* The rest of the world *)

\* An operation that never went through this SDK, under a key with a nonce
\* sequence of its own.
bypass(i) ==
  /\ hookAllows(i)
  /\ Settle(i)
  /\ read' = [r \in Runs |-> [read[r] EXCEPT !.clean = FALSE]]
  /\ UNCHANGED <<spendVars, setup, run, calls, sequence, pending, clicked,
                 ops, nonce, published>>

nextDay ==
  /\ today < LastDay
  /\ today' = today + 1
  /\ read' = [r \in Runs |-> [read[r] EXCEPT !.clean = FALSE]]
  /\ UNCHANGED <<window, balance, dayTotal, spendVars, setup, run, calls,
                 sequence, pending, clicked, ops, nonce, published>>

background ==
  /\ \E d \in Days : expire(d) \/ handleSpendRecorded(d)
  /\ UNCHANGED <<chainVars, setup, run, calls, sequence, pending, clicked,
                 ops, nonce, published>>

-----------------------------------------------------------------------------
Init ==
  /\ \E opening \in Opening : InitState(opening)
  /\ executor \in Executors /\ ledger \in Ledgers
  /\ \E fallback \in Approvers : approver = selectApprover(ledger, fallback)
  /\ run = [r \in Runs |-> NoRun]
  /\ calls = 0 /\ sequence = 0
  /\ pending = {} /\ clicked = {}
  /\ ops = [id \in Ids |-> NoOp]
  /\ nonce = 0
  /\ published = {}

\* What a call does by itself, without a human and without the chain.
progress(r) ==
  \/ gather(r) \/ gatherThrows(r) \/ decide(r)
  \/ timeout(r) \/ autoApprove(r) \/ deviceNamesKey(r)
  \/ sendThrows(r) \/ sendSimulated(r) \/ submit(r)
  \/ finish(r) \/ receiptThrows(r)

Next ==
  \/ \E r \in Runs, call \in Calls : start(r, call)
  \/ \E r \in Runs : progress(r)
  \/ \E r \in Runs, approved \in BOOLEAN :
       click(r, approved) \/ consoleAnswers(r, approved)
  \/ \E r \in Runs : deviceConfirms(r) \/ deviceDeclines(r)
  \/ \E id \in Ids : mine(id)
  \/ \E i \in Outside : bypass(i)
  \/ nextDay
  \/ background

\* Node keeps running: awaited requests settle or reject, timers fire.
Spec == Init /\ [][Next]_vars /\ \A r \in Runs : WF_vars(progress(r))

-----------------------------------------------------------------------------
(* Properties *)

Pcs == {"idle", "gather", "approval", "address", "sending", "sent"}

\* Every variable stays in its range; a gathered spend is a figure some source
\* gave, never a sum of several, so the hook's limit bounds it (reconcile).
TypeOK ==
  /\ StateTypeOK
  /\ \A r \in Runs : read[r].spend <= Policy.dailySpend
  /\ executor \in Executors /\ ledger \in Ledgers
  /\ approver \in Approvers \cup {"ledger", "refused"}
  /\ run \in [Runs -> [pc: Pcs, mode: {"check", "execute"}, intent: Intents,
                       id: 0..MaxCalls, owner: BOOLEAN]]
  /\ calls \in 0..MaxCalls /\ sequence \in 0..calls
  /\ pending \subseteq Ids /\ published \subseteq Ids
  /\ clicked \subseteq [id: Ids, by: {"dashboard", "console", "ledger"}]
  /\ ops \in [Ids -> [status: {"none", "pooled", "mined", "reverted"},
                      owner: BOOLEAN, nonce: Nat, abandoned: BOOLEAN,
                      intent: Intents]]
  /\ nonce \in Nat

\* "the next read reflects the new execution" (recordExecution): a read begun
\* after an execution was recorded counts it, cached or not, as long as the
\* chain answers, the day is not over, and no other read was under way when
\* the cache was dropped.  Without that last condition a read that started
\* earlier puts its old value back in the cache.
ReadReflectsRecorded ==
  ~chainDown =>
    \A r \in Runs :
      read[r].stage = "done" /\ read[r].day = today => read[r].spend >= read[r].atLeast

\* The two layers agree ("assert the two never disagree", SimulatedAccount.ts):
\* a value-moving action the engine let through on state read from the chain
\* is not refused by the hook if nothing else happened on the chain since.
AllowedIsExecutable ==
  \A r \in Runs :
    (/\ run[r].pc \in {"sending", "sent"} /\ read[r].clean
     /\ run[r].intent.movesValue
     /\ run[r].pc = "sent" => ops[run[r].id].status = "pooled")
    => hookAllows(run[r].intent)

\* No call takes more of the asset than the figure the limits were compared
\* with, whatever it bundles: exact-output swaps, settlements of open debts,
\* permits, or bytes the decoders cannot read ("never the quoted amount",
\* uniswapV4.ts; "the FULL approved allowance", erc20.ts).
NotionalCoversOutflow ==
  /\ \A r \in Runs : At(r, "idle") \/ run[r].intent.moved <= run[r].intent.notional
  /\ \A id \in Ids : ops[id].intent.moved <= ops[id].intent.notional

\* Every operation at or above the threshold went out under the owner's key,
\* after a human said yes to that very request before it timed out; no other
\* operation uses that key, and where a Ledger was asked for the yes came from
\* the device (seekApproval, the approvers, "Silently downgrading hardware
\* confirmation to a browser click is a change to the trust model",
\* ledger.ts).  Auto-approval, which asks nobody, is the stated exception.
EscalationNeedsHuman ==
  \A id \in Ids : ops[id].status # "none" =>
    LET yes == {c.by : c \in {y \in clicked : y.id = id}} IN
    /\ ops[id].owner => yes # {} \/ approver = "auto"
    /\ yes # {} => ops[id].owner
    /\ ops[id].owner /\ ledger # "off" => "ledger" \in yes
    /\ ops[id].intent.notional >= Policy.approvalThreshold => ops[id].owner

\* An operation that reached the chain is published by the call that sent it:
\* the only ones missing are those whose call still waits, or threw for want
\* of a receipt (execute's last lines, BundlerExecutor.waitForReceipt).
MinedIsPublished ==
  \A id \in Ids :
    ops[id].status = "mined" =>
      \/ id \in published
      \/ \E r \in Runs : run[r].id = id /\ At(r, "sent")
      \/ ops[id].abandoned

\* Every call returns or throws, whatever the sources, the human and the
\* bundler do (DashboardApprover's timer, waitForReceipt's bounded polling),
\* unless it waits for the yes or no of a terminal or a device, which have no
\* timer.
CallReturns ==
  \A r \in Runs :
    ~At(r, "idle") ~> \/ At(r, "idle")
                      \/ At(r, "approval") /\ approver \in {"console", "ledger"}
=============================================================================
