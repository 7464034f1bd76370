# AgentProof: a TLA+ verification project

AgentProof puts limits on what an autonomous agent can do with an account. The
limits live in two layers. Off chain, an SDK decodes each action, reads how much
was spent today, and decides ALLOW, BLOCK or REQUIRE_APPROVAL. On chain, an
ERC-7579 hook measures what left the account and reverts whatever breaks the
policy. Around them stand an HTTP API that sells the decision (paid with x402), a
web console from which the owner approves and edits, an ENS name under which the
policy is published, and agents that use all of it. This project models these
parts and the ways they meet, checks them with TLC on small instances, and proves
the central claims with TLAPS for every value of the constants. Paths below are
relative to `src/agentProof/`.

## 1. Inventory

| Component | State it keeps | Operations | What makes it correct |
|---|---|---|---|
| `contracts/src/lib/PolicyLib.sol` | none (pure) | `evaluate`, `applySpend`, `remainingToday` | total; a refusal changes nothing; no day is allowed more than its limit |
| `contracts/formal/PolicySpec.sol` | one window, two limits | `constructor`, `step` | the same over whole histories, for any order of days |
| `contracts/src/AgentPolicyHook.sol`, `lib/ExecutionLib.sol` | `config`, `window`, `allowedTarget` per account | `onInstall`, `onUninstall`, `preCheck`, `postCheck` | nothing an operation does (nest, revert, call the hook) makes the accumulator under-count or changes the policy |
| `packages/sdk/src/testing/SimulatedAccount.ts` | balance, window, ceiling, clock, log | `send`, `sendUnchecked`, `sendAsOwner`, `advance` | decides as the hook would; never under-counts |
| `packages/sdk/src/decode/` | none (pure) | `decode` of ERC-20, native, x402 and Universal Router actions | the notional is never less than what can leave; what cannot be read is unbounded |
| `packages/sdk/src/core/PolicyEngine.ts`, `policies/`, `core/policy.ts` | a sequence number | `evaluate`, `resolvePolicy` | any BLOCK wins, approval never rescues one; never laxer than the hook |
| `packages/sdk/src/state/GraphStateProvider.ts` | a cache with expiry | `getDailySpend`, `getBalance`, `recordExecution` | a read counts every recorded execution; fails closed |
| `packages/sdk/src/state/MemoryStateProvider.ts` | opening spend and balance | reads | the account behind it keeps the budget |
| `subgraphs/agent-history/src/mapping.ts` | daily aggregates | one handler per event | lags, never invents |
| `packages/sdk/src/core/AgentProof.ts` | none of its own | `createAgentProof`, `check`, `execute` | section 4 |
| `packages/sdk/src/approval/` | pending requests, timers | `request`, `resolve`, a console prompt, a Ledger signature, auto-approval | silence and late clicks never approve; a device that was asked for is not replaced by something weaker |
| `packages/sdk/src/enforcement/`, `adapters/executors.ts` | a nonce read from the chain | `send`, `sendAsOwner` | escalated operations use the owner's key, and no others do |
| `packages/sdk/src/identity/`, `contracts/src/AgentSubnameRegistrar.sol`, `scripts/install-hook.ts` | ENS records and roles, the installed hash | `registerAgent`, `setPolicyHash`, `suspend`, `transferOwnership`, install, startup checks | file, ENS and hook agree on the policy hash before an agent runs |
| `packages/api/src/server.ts`, `routes/`, `stream.ts` | current policy and engine, pending approvals, session, subscribers, backlog | verify, decode, approve, login, publish, policy GET and PUT, event stream | decision, audit label and file belong to one policy; whoever subscribes late still sees what is pending |
| `packages/api/src/x402/` | claims, audit queue | gate, claim, release, evict, record, flush | at most one result per payment, no charge without a result, audit in order |
| `packages/x402-client/` | none | `fetchPaid` | at most one payment per call, within price and policy |
| `apps/agents/`, `recipes/` | the trader's report | the trader's loop, the researcher's query, verify before a swap | reports what left the account; never acts on an unanswered escalation |
| `apps/console/` | cards, decisions, session, policy form, scenes of the demos | stream hook, approve and deny, edit, attack bench, live demo | what it shows about an approval or a verdict is what happened |
| `scripts/demo-runner.ts` | the act it is in | scenes, publishing, its own approver | its events do not harm the page that shows them |
| privacy, proof registry, utilities | - | - | not modelled or data only, see section 7 |

**How they interact.** `AgentProof.execute` calls the decoders, awaits the state
provider (which awaits the subgraph, then the chain), calls the engine, may await
an approver, awaits an executor (which may await a bundler for a minute), then
tells the provider to drop its cache and publishes the decision. The hook meets
the SDK only through the chain: its window and balance are what the provider
reads, its `SpendRecorded` events are what the subgraph indexes, its revert is how
an executor fails. The API runs the same decoders and engine behind a gate that
claims the payment, verifies it at a facilitator, does the work, settles, and
queues an audit record for a Hedera topic; an escalation inside it waits for the
console's click. The console hears of approvals and decisions over server-sent
events with a short backlog. The policy document reaches the layers by different
code: `core/policy.ts` off chain, `scripts/install-hook.ts` on chain, PUT
`/v1/policy` into the API's memory and file, the registrar into ENS.

**What is hard.** Executions that re-enter the account and revert at any depth;
uninstalling and reinstalling; days that roll over between a read and its use; two
callers deciding on one spend; a cache refilled by a read that began too early; a
timer against a late click; an operation mined after its sender gave up; payments
claimed, evicted and released while their work is in flight; a settlement that
fails after the work; a crash between the write of a file and its use; two
browsers editing one policy; a name handed over while an agent starts; a stream
that breaks, replays and forgets; an answer given in another tab. `PROJECT.json`
lists each of these as a hazard at its line, with the properties that watch it.

## 2. Modules

```
PolicyLib  <--  PolicySpec           <-- MCPolicySpec
   ^            PolicyTheorems (of PolicyLib and PolicyEngine), PolicySpecProofs
   |
   +--------  AgentPolicyHook  ---- implements ---> SpendBudget
   |            MCAgentPolicyHook, AgentPolicyHookProofs
   +--------  SimulatedAccount  <-- Trader  <-- MCSimulatedAccount
   |            SimulatedAccountProofs
   +--------  GraphStateProvider  <--+
PolicyEngine  <----------------------+-- AgentProof  <--+-- MCAgentProof
   ^   ^                                                |   AgentProofProofs
   |   +----  Decoders  <-------------------------------+
   |
   +--------  VerificationApi (also ReplayGuard, HcsAudit)
   |             <-- PaidVerification  <-- MCPaidVerification
   |                   PaidVerificationProofs
   +--------  PolicyEditor  <-- PolicyBinding  <-- MCPolicyBinding
                       PolicyBindingProofs

EventStream  <-- DashboardApi  <-- OpsPage, BenchPage, HomePage, DemoRunner
                                     <-- Console  <-- MCConsole
                                         ConsoleProofs
```

(`A <-- B`: B extends or instantiates A.) One rule is common to all TypeScript
modules: JavaScript runs one continuation at a time, so a step is what happens
between two awaits.

* **PolicyLib** is the arithmetic, branch for branch. Integers are `0..MaxUint`
  and the overflow guard is the code's.
* **PolicySpec** is the repository's own SMT harness as a state machine. A history
  variable adds up what each day was allowed, so that the product's promise can be
  stated about runs and not only about one step.
* **SpendBudget** is what the hook promises an owner: an operation takes at most
  `maxTransaction`, the operations of a day at most `dailyLimit` together.
* **AgentPolicyHook** is the hook on one account (its mappings are keyed by the
  caller). `frames` is the stack of open executions. `preCheck` pushes a frame with
  its `hookData` and a copy of the storage, `postCheck` pops it and keeps the
  effects, `revertFrame` pops it and restores the copy, as the EVM does. Between
  the two the asset moves tokens, foreign code pulls allowances or sends tokens
  (`pull`, `inflow`), and an allowlisted hook can be called by the account itself
  (`hookCall`). The account's execution path is that of
  `contracts/test/mocks/MockAccount.sol`; the token and the EVM are external.
* **SimulatedAccount** is the in-process stand-in with its hand-written undo. It
  instantiates PolicyLib so that each decision can be compared with the hook's.
  **Trader** adds the agent that lives on one: a scripted or a language model
  (which may hold, propose any amount, or throw), the engine over the in-memory
  provider, and the loop over price signals. That provider is never told of a
  spend, so the engine judges every proposal on the opening state and the account
  alone keeps the budget.
* **PolicyEngine** is pure: the six policies in the order `createAgentProof` gives
  them (the sixth where a pool provider is configured), the loop with its early
  settling, and the rules the loop is for, stated without it (`RowsDecide`,
  `RowsDeciding`).
* **Decoders** turns an action into what the engine is told: selector and
  arguments for ERC-20, value for native, requirement for x402, and for the
  Universal Router a sequence of commands with nested V4 actions, V3 swaps and
  Permit2. Beside each stands what the action can really take from the account.
  A V2 path is always undecodable, as in the code. `TAKE` counts as inbound, as
  the code assumes. Unreadable bytes outside the router make the decoder throw, so
  that no intent exists; inside it they make the stream unbounded.
* **GraphStateProvider** has one step per `await`. It also holds what it reads
  from: the hook's window, the balance, the subgraph's aggregate.
* **AgentProof** composes decoders, engine and provider with every approver, the
  enforcer, three executors (bundler, EOA, simulated) and the hook. `run[r]` says
  where the call of caller `r` is; `ops` are the operations handed to an executor;
  `clicked` are the human answers. `selectApprover` and `createLedgerTransport`
  choose the approver at start: a Ledger that was asked for and cannot be reached
  keeps the process from starting. The bundler's nonce read, estimation and
  submission are one step: an operation whose nonce or estimation is out of date by
  the time it is submitted behaves like one that goes out of date in the pool,
  which `mine` covers.
* **ReplayGuard** keeps claims in order of insertion and forgets them by age and
  by count. **HcsAudit** is the queue and its single flush; a submission that fails
  drops its record, as the code does. **VerificationApi** is verify and decode
  behind the gate, with the facilitator, the dashboard's approver, the policy swap
  and the audit trail, and a crash that takes the memory with it.
  **PaidVerification** adds the callers: anyone, and one client that is the
  console's proxy, the researcher (both through `fetchPaid`) or the recipe.
* **PolicyEditor** is the policy form of two browsers, PUT `/v1/policy` and its
  file: validation, display units against base units, the write that is not atomic,
  the swap after it, and a restart that reads whatever is there. **PolicyBinding**
  adds the ENS name with its roles, the hook's installed hash, the API's cached
  comparison of the three, and an agent's start. The resolver is external.
* **EventStream** is the backlog, the connection of one page and the frames on
  their way. **DashboardApi** is the rest of what the console calls: session,
  verify up to its escalation, approve, publish, and the approver's timer.
  **OpsPage**, **BenchPage** and **HomePage** are the operator's page, the attack
  bench and the live demo; **DemoRunner** is the script that publishes scenes;
  **Console** lets one page at a time meet the others.

Data is abstracted throughout: a hash is the policy it is of, a digest its payload,
a signature the key and the message, an id the call it belongs to.

## 3. Runs

| Run | Bounds | Shows |
|---|---|---|
| `policy_spec` | integers up to 4, all limits, three days in any order | totals per day, exactness of the window, the harness's asserts |
| `hook_nested` | depth 2, 2 tokens moved one at a time, 2 days, everything allowlisted incl. the hook | re-entrancy, reverts, forged `hookData`, floor, refinement of SpendBudget |
| `hook_lifecycle` | depth 1, two policies, three allowlists, 3 days | install, uninstall, reinstall; who can be given an allowance |
| `simulated_account` | 16 configurations, 3 tokens, 2 days; 3 price signals, amounts 0 to 2 | agreement with PolicyLib along every history; the trader's report |
| `agent_concurrent` | 2 callers, 3 calls of `execute`, bundler and simulated executors, dashboard, Ledger off, unreachable or ready | reads, approvals and publication under every interleaving |
| `agent_returns` | 1 caller, 1 call of `execute` or `check`, EOA, 3 approvers, 63 decoded actions, 2 days, operations that bypass the SDK | the notional bounds the outflow, the hook accepts what the engine allows, every call returns |
| `paid_verify` | 4 request slots, 2 payments, one claim remembered, 2 quotes around the ceiling, one policy edit or crash | one result per payment, no charge without one, audit, liveness |
| `policy_binding` | 2 browsers, 2 edits, 2 owners, 2 transactions or restarts | file, form, name and hook |
| `console` | backlog 2, 3 frames on the wire, one tick of the approval timer, one fault, 2 scenes | what each page shows of approvals, decisions and a dead stream |
| `hook_extra_methods`, `agent_installed`, `console_runner` | as above | the three disagreements of section 5 |

The bounds are the smallest at which the interesting cases occur. Depth 2 is the
first at which an inner `postCheck` writes the window under an outer one. A daily
limit of 2 or 3 with amounts 1 and 2 makes one operation fit and two not. Two days
are what a rollover needs, and three let a window two days old be met. Two callers
are what a race needs; with three calls a third one reads what the first two left
in the cache, and is the retry that races an abandoned operation of the bundler
for a nonce. In `agent_concurrent` the opening balance of 4 lets the daily limit
and the floor of 1 bind in the same run. One remembered claim and two payments
make eviction by count happen, and a lifetime of 0 makes eviction by age happen at
the first tick; the recipe needs two slots for the client, since it decodes and
then verifies with the same payload. Two browsers, two edits and one restart let an
edit be typed over another and a torn file be read back. A backlog of 2 forgets
after three frames. `CHECK_DEADLOCK FALSE` is used where calls, signals, edits or
events are bounded and everything may be over; the hook and the core are checked
for deadlock. Symmetry permutes interchangeable callers, browsers or owners and is
used only where no liveness is checked.

In `console` one page is open at a time, agents call while the operator's page is
open, and the demo runner publishes while the bench is; `console_runner` puts the
runner beside the operator's page. A connection that is dead without the browser
noticing and without any close is outside the model.

**Fairness.** `AgentProof!Spec` assumes weak fairness of each caller's own next
step: an awaited request settles or rejects, a timer fires, a bounded poll ends.
Node's event loop gives that as long as the process runs. A click, a mined
operation, an indexer's progress and the clock are not assumed: `CallReturns`
holds without them because the approver's timer and the bounded wait for a receipt
are steps of the call. A console prompt and a Ledger wait for a human without a
timer; the property says that no other wait is unbounded.
`PaidVerification!Spec` assumes the same of each request being served, of the
client, and of the audit flush. `Console!Spec` assumes only that a browser reports
a connection it knows to be closed (`onerror`).

## 4. What the properties say

* *DailyTotalBounded, WindowIsExact, StepDiscipline*: the core over whole runs.
* *AccumulatorCoversOutflow, AccumulatorWithinLimit, FloorHolds,
  ExecutionKeepsPolicy, SpendersAllowlisted, ImplementsBudget*: the hook. The
  theorem *WindowIsNotAhead* has a condition that matters: the window can be pushed
  ahead of the chain if the owner allowlists the hook itself, because `postCheck`
  trusts the day it is handed. And *SpendersAllowlisted* holds for tokens whose
  allowances move through `approve` alone.
* *AccumulatorCoversLog, DecidesLikeHook, ReportsWhatLeft*: the simulator, and the
  trader on it, whatever its model proposes. With the shipped
  `agent.policy.json` the account is not among its own allowed recipients, and the
  trader's swaps, whose counterparty is the account, are blocked.
* *NotionalCoversOutflow*: no action takes more of the tracked asset than the figure
  the engine judged it by. *AllowedIsExecutable*: the engine is no laxer than the
  hook about actions that move value. (About actions that move none it is: the hook
  checks the counterparty of a zero approval, the engine does not.)
  *ReadReflectsRecorded*: a read begun after an execution was recorded counts it,
  provided the chain answers and no other read was under way when the cache was
  dropped; without that proviso it fails, since the older read refills the cache.
  *EscalationNeedsHuman*: the owner's key is used exactly for operations someone
  said yes to, about that very request and in time, and on the device where one was
  configured. *MinedIsPublished*: what reached the chain is published unless its
  call gave up waiting.
* *OneCallPerPayment*: a payment buys one result, unless its claim was evicted or
  lost in a crash. *PaidIsAnswered*: a settled payment had its result.
  *ChargedWithinLimits*: the client pays no more than its ceiling and its policy
  allow. *EscalatedNeedsClick*: no ALLOW for an escalated request without a click.
  *AuditNamesPolicy*: a record names the policy that decided, unless it was swapped
  while the request waited. *AuditInOrder*: the topic takes records once each, in the
  order they were written, and a waiting record has a flush to take it.
  *RequestsAnswered*: every request is answered unless the process dies, and the
  client's call ends.
* *SavedIsServed*: once no PUT is under way the file holds the policy that is served,
  and a restart finds one to serve, unless two PUTs overlapped or a write was cut
  short. *EditsKept*: each limit served has the last value an operator gave it, unless
  two PUTs overlapped or a form was submitted over a policy it had not shown.
  *RunningIsBound*: a running agent's policy is the one the hook enforces and one its
  name has published. *SuspendedStaysDown*: a process started while the name says
  suspended never comes to run, unless the session key set the record back to active
  in between. *OwnersRepoint*: only those who have owned the registrar change the
  published hash; a former owner keeps the resolver's roles, because
  `transferOwnership` leaves them. *AgreementIsReal*: a console is told that ENS
  agrees only if the name published that very hash, now or, the record being cached,
  before.
* *NothingMissed*: an approval written to the page's connection that is pending and
  not run out is on the page once the wire is empty. *ToldTheTruth*: what a card or
  banner says was the outcome.
  *VerdictOfScene*: a verdict is shown under the scene it belongs to.
  *StaleIsShown*: a stream that died is shown as dead in the end. Two exceptions are
  part of the statements: a card that runs out is labelled "expired" even if it was
  answered in another tab, was replayed, or its answer's response was lost; and a
  call open when the live demo moves on may still land.

Each property has a mutant in `PROJECT.json`: a plausible slip in one definition
that TLC shows to break it.

## 5. Findings

1. `increaseAllowance` gives an allowance to an address outside the allowlist
   (`hook_extra_methods`); `docs/future-work.md:81` says that cannot happen.
2. `scripts/install-hook.ts:59` installs neither the asset nor the allowed
   recipients as targets, so the hook refuses every transfer the SDK allows
   (`agent_installed`), against `README.md:233`.
3. After an approval `scripts/demo-runner.ts:163` publishes an approval event
   without its intent. The operator's page puts it in place of the card and its
   rendering throws (`console_runner`), against `useStream.ts:73`.

Differences met while modelling and not kept as runs:

* A spender that pulls its allowance in a transaction of its own moves tokens
  without the accumulator noticing, against `docs/future-work.md:78`.
* The simulator's refusal at the minimum balance leaves the window advanced,
  against its header and `packages/sdk/tests/unit/differential.test.ts:146`.
* `checkPolicy` of the x402 client multiplies a quote that is in atomic units
  already by 1e6; it errs towards refusing.
* An audit record whose submission fails is dropped.
* `useStream` never retries and calls every failure "unauthorized", against the
  comments at `useStream.ts:24` and `:98`.
* The API's shutdown waits for open event streams, which do not end by themselves.
* The session key's role on the status record lets it set "active" again after a
  suspension; an agent that was down may then be started.

## 6. What is proved

Every invariant and action property of the passing runs is also a theorem, for
every value of the constants, except the three liveness properties (below). Each
component has one inductive invariant, `IInv` or `Inv`, a conjunction of named
parts; the parts TLC can evaluate were checked on the component's own instance
before they were proved.

**Assumptions** are those of the modules, evaluated by TLC on every run: `MaxUint`
is a positive natural, limits and amounts are machine integers, the asset, hook and
account are different addresses, the router is not the asset, documents are ones
`resolvePolicy` accepts, and markers such as `Unset`, `Torn` and `"none"` are not
documents, payloads or request ids. Bounds on calls, days, depth, edits, claims,
faults and time are arbitrary naturals; the set of callers is finite, the sets of
requests, browsers and owners are arbitrary. Three theorems have a hypothesis of
their own:

* *SpendersAllowlisted* needs `Extras = {}`, a token on which `approve` is the only
  way to grant. `hook_extra_methods` is the counterexample without it.
* *AllowedIsExecutable* needs a hook installed with the policy's contracts, the
  asset and the recipients, and intents that move no more than their notional.
  `agent_installed` is the counterexample without the first. The second is what
  the decoders guarantee, and *DecodedIsExecutable* draws it from them.
* *NotionalCoversOutflow* needs intents that come from the decoders, of actions that
  take at most `UNBOUNDED` of the asset (2^255 in the code). `MCAgentProof` has TLC
  evaluate that the actions of `agent_returns` are such.

**The arguments.**

* **PolicyTheorems**: `evaluate` is total, what allowing and refusing imply,
  `remainingToday` is exactly what the daily check accepts; the engine's loop
  decides what its rows call for (*LoopMatchesRows*), and what the engine does not
  block on a spend no lower than the hook's, PolicyLib allows
  (*EngineNoLaxerThanHook*). The other modules cite these.
* **PolicySpecProofs**: types, *DailyTotalBounded*, *WindowIsExact*,
  *StepDiscipline*. The bound alone is not inductive, since a step must know what
  its day was charged already; adding exactness of the window and its own bound
  closes the induction.
* **AgentPolicyHookProofs**: types, *AccumulatorWithinLimit*,
  *AccumulatorCoversOutflow*, *WindowNotAhead*, *ExecutionKeepsPolicy*,
  *FloorHolds*, *SpendersAllowlisted* and the refinement *ImplementsBudget*, for any
  depth of nesting. A revert brings back an old storage, so the invariant says of
  the storage saved in every open frame what it says of the current one, that all
  frames share the policy and the allowlist of the first, and that inside an
  operation the policy is that one or deleted. If deleted, no `postCheck` can
  return, which is why an operation cannot shed its policy. For allowances
  `GrantsHeld` adds the same twofold statement: neither the current allowances nor
  any saved ones exceed those the operation began with, except for allowlisted
  spenders, and every open call on the asset names an allowlisted party.
* **SimulatedAccountProofs**: *AccumulatorCoversLog* and *DecidesLikeHook*. The
  simulator leaves out two of PolicyLib's guards; the invariant (window not ahead
  of the clock, spend within a limit that fits the width) shows they never apply.
  *TraderUsesAccount* carries both to the trader, whose steps are requests of the
  account or leave it alone; *ReportsWhatLeft* then follows from what one accepted
  swap takes: at most the amount proposed, and exactly that when a reserve must be
  left, since the account refuses an operation that empties it.
* **PolicyBindingProofs**: types, *SavedIsServed*, *EditsKept*, *RunningIsBound*,
  *SuspendedStaysDown*, *OwnersRepoint*, *AgreementIsReal*. The invariant follows a
  PUT through its steps: where file, served policy and intended limits stand in each
  (`FileFollows`, `LimitsFollow`), as long as at most one is under way (`OneEdit`).
  That an amount survives the form's text, the patch and the file rests on the
  uniqueness of division with remainder, for any unit. For the name it ties each
  startup check to the history of what was published and who owned it.
* **PaidVerificationProofs**: types, *OneCallPerPayment*, *PaidIsAnswered*,
  *ChargedWithinLimits*, *EscalatedNeedsClick*, *AuditNamesPolicy*, *AuditInOrder*.
  `HoldInv` is the heart: the claim of a payload that is at work or has bought its
  result is in the guard, and one request holds it. It needs the guard's keys to be
  distinct and eviction, insertion and release to disturb no other claim. `ReqOK`
  says what a request may hold at each of its steps, `AuditShape` that the topic,
  the record being submitted and the queue are one increasing sequence, and `CallOK`
  where the client's call stands against its own requests.
* **AgentProofProofs**: types, *ReadReflectsRecorded*, *EscalationNeedsHuman*,
  *MinedIsPublished*, *AllowedIsExecutable*. `CacheInv` and `ReadInv` bound a read
  from below by what was recorded when it began; `CleanInv` says what a read that
  nothing on the chain overtook still knows. `CountInv` and `IdInv` (every decision
  belongs to one call, and numbers to come have left no trace) are what keeps a yes
  from reaching another request. `DecidedInv` keeps the state a call was decided on,
  from which *EngineNoLaxerThanHook* gives *AllowedIsExecutable*. The last part is
  about the decoders: *V4Step* and *CommandStep* show of one v4 action and of one
  command that what it adds to the outflow covers what it adds to debt and payment,
  with `debt + paid <= outflow` of the tracked asset as the invariant along a
  stream. Going through a stream is a recursive function; that it exists
  (*FoldExists*) and that the invariant reaches its end (*Positions*) are shown with
  the least position where it would fail. *DecodedCovers* puts the decoders
  together, *NotionalCoversOutflow* follows.
* **ConsoleProofs**: *NothingMissed*, *ToldTheTruth*, *VerdictOfScene*. `Covered`
  says that a live request sent to the page is on the screen or still on the wire,
  and every event kept or carried was announced with its request's deadline.
  `ClickInv` and `TellInv` relate the confirmed, refused and lost clicks to what the
  page says, with the exceptions of section 4 as the sets `elsewhere` and
  `doubtful`.

**Model-checked only.** The liveness properties *CallReturns*, *RequestsAnswered* and
*StaleIsShown* rest on fairness and are outside the prover's reach.

## 7. Not modelled, and the plan

Not modelled: hash commitments, redaction and amount buckets (pure functions of
data); the proof registry (read once, attached to decisions); byte-level encodings,
hashing and hex; the console's static sections, styling, architecture map, spend
gauge and subgraph panel; the API's read-only routes; fixture capture, deployment
checks and the live backend of the runner, which only read or build clients; the
Ledger's device protocol below "confirmed, declined, names another key".

Next:

Theorems relating components: the agent's window as one PolicySpec allows, and for
the simulated account a budget per sender, since SpendBudget knows one ceiling and
`sendAsOwner` has another.

## 8. Running it

`tlc -config HookNested.cfg MCAgentPolicyHook` and likewise for the other
configurations; `tlapm AgentPolicyHookProofs.tla` and likewise for the other
modules of theorems (`PaidVerificationProofs` and `AgentProofProofs` take longest). The longest run, `paid_verify`, takes some two minutes with
two workers.
