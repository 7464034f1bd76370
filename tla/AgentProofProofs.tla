--------------------------- MODULE AgentProofProofs ---------------------------
(***************************************************************************)
(* Concurrent calls of one AgentProof instance, for any number of callers, *)
(* calls, days and intents, and for any policy, executor and approver;     *)
(* and the decoders that make an intent of an action.                      *)
(***************************************************************************)
EXTENDS AgentProof, Decoders, PolicyTheorems, FiniteSetTheorems, WellFoundedInduction

\* A spend the hook can have recorded, and what a source may answer.
Budget == 0..Policy.dailySpend
Known == {{}} \cup {{v} : v \in Budget}

ReadType == [stage: Stages, day: Days, indexed: Known, spend: Budget,
             funds: {"none", "asked", "answered"}, balance: Uint,
             atLeast: Budget, clean: BOOLEAN]
RunType == [pc: Pcs, mode: {"check", "execute"}, intent: Intents,
            id: 0..MaxCalls, owner: BOOLEAN]
OpType == [status: {"none", "pooled", "mined", "reverted"}, owner: BOOLEAN,
           nonce: Nat, abandoned: BOOLEAN, intent: Intents]

\* Where the engine's decision lies behind the call.
Decided == {"approval", "address", "sending", "sent"}

\* The approver was chosen when the process started, and a Ledger that was
\* asked for is never replaced.
SetupInv ==
  /\ executor \in Executors /\ ledger \in Ledgers
  /\ approver \in Approvers \cup {"ledger", "refused"}
  /\ ledger # "off" => approver \in {"ledger", "refused"}

\* The hook's window is of a day that has come, and within the daily limit.
ChainInv ==
  /\ window \in Window /\ balance \in Uint /\ today \in Days
  /\ dayTotal \in [Days -> Budget]
  /\ window.day <= today /\ window.spent <= Policy.dailySpend

ProviderTypes ==
  /\ indexed \in [Days -> Budget] /\ cache \in [Days -> Known]
  /\ recorded \in [Days -> Budget] /\ chainDown \in BOOLEAN
  /\ read \in [Runs -> ReadType]

\* Nothing is known of a day to come, and what the cache holds of this one is
\* no less than what was recorded when it was last dropped.
CacheInv ==
  /\ \A d \in Days : d > today => recorded[d] = 0 /\ cache[d] = {}
  /\ ~chainDown =>
       /\ recorded[today] <= onchainSpend(today)
       /\ \A v \in cache[today] : recorded[today] <= v

\* What is known of one read x on a day with rec recorded.
ReadOK(x, day, rec, down) ==
  /\ x.day <= day
  /\ ~down /\ x.day = day =>
       /\ x.stage \in {"indexed", "onchain"} => x.atLeast = rec
       /\ x.stage = "done" => x.atLeast <= x.spend

ReadInv == \A r \in Runs : ReadOK(read[r], today, recorded[today], chainDown)

\* What is known of a read that nothing on the chain has overtaken.
CleanOK(x, day, spent, funds) ==
  x.clean => /\ x.day = day
             /\ x.stage = "done" => spent <= x.spend
             /\ x.funds = "answered" => x.balance = funds

Executed(r) == run[r].pc = "sent" /\ ops[run[r].id].status # "pooled"

CleanInv ==
  \A r \in Runs : Executed(r) \/ CleanOK(read[r], today, onchainSpend(today), balance)

CallTypes ==
  /\ run \in [Runs -> RunType] /\ ops \in [Ids -> OpType] /\ nonce \in Nat
  /\ calls \in 0..MaxCalls /\ sequence \in 0..calls
  /\ pending \subseteq Ids /\ published \subseteq Ids
  /\ clicked \subseteq [id: Ids, by: {"dashboard", "console", "ledger"}]

Gathering(calling) == {r \in Runs : calling[r].pc = "gather"}

\* Every decision made or still to be made belongs to a call.
CountInv == sequence + Cardinality(Gathering(run)) <= calls

\* Decisions carry numbers of their own, and those to come have left no trace.
IdInv ==
  /\ \A r \in Runs : IF run[r].pc \in Decided THEN run[r].id \in 1..sequence
                     ELSE run[r].id = 0 /\ run[r].owner = FALSE
  /\ \A r, s \in Runs : run[r].id = run[s].id /\ run[r].id # 0 => r = s
  /\ \A id \in Ids : id > sequence => ops[id].status = "none"
  /\ \A c \in clicked : c.id <= sequence
  /\ \A id \in pending : approver = "dashboard"
  /\ \A r \in Runs : run[r].pc \in {"approval", "address", "sending"} =>
       ops[run[r].id].status = "none"

\* A call past its decision keeps the state y it was decided on.
DecidedOK(x, y) ==
  x.pc \in Decided =>
    /\ y.stage = "done" /\ y.funds = "answered"
    /\ evaluateIntent(Policy, x.intent,
         [dailySpend |-> y.spend, balance |-> y.balance]).decision # "BLOCK"

DecidedInv == \A r \in Runs : DecidedOK(run[r], read[r])

YesOf(clicks, id) == {c.by : c \in {y \in clicks : y.id = id}}

\* Under which key an operation of decision id goes out.
OwnerOK(id, owner, asked, clicks, who, device) ==
  /\ owner => YesOf(clicks, id) # {} \/ who = "auto"
  /\ YesOf(clicks, id) # {} => owner
  /\ owner /\ device # "off" => "ledger" \in YesOf(clicks, id)
  /\ asked.notional >= Policy.approvalThreshold => owner

\* What a call x has of a human's consent.
HumanOK(x, clicks, who, device) ==
  /\ x.pc = "approval" => YesOf(clicks, x.id) = {}
  /\ x.pc = "address" => "ledger" \in YesOf(clicks, x.id)
  /\ x.pc = "sending" => OwnerOK(x.id, x.owner, x.intent, clicks, who, device)

HumanInv ==
  /\ \A r \in Runs : HumanOK(run[r], clicked, approver, ledger)
  /\ \A id \in Ids : ops[id].status # "none" =>
       OwnerOK(id, ops[id].owner, ops[id].intent, clicked, approver, ledger)

\* What was handed to the executor is published, waited for, or given up.
ReportInv ==
  \A id \in Ids : ops[id].status \in {"pooled", "mined"} =>
    \/ id \in published
    \/ \E r \in Runs : run[r].id = id /\ run[r].pc = "sent"
    \/ ops[id].abandoned

StateInv == SetupInv /\ ChainInv /\ ProviderTypes /\ CacheInv /\ ReadInv /\ CleanInv
ProcessInv == CallTypes /\ CountInv /\ IdInv /\ DecidedInv /\ HumanInv /\ ReportInv

IInv == StateInv /\ ProcessInv

-----------------------------------------------------------------------------
(* The state *)

\* The limits are machine integers, and so is every spend within them.
LEMMA PolicyFacts ==
  /\ hookLimits \in Limits
  /\ hookLimits.dailyLimit = Policy.dailySpend
  /\ Policy.dailySpend \in Nat /\ Policy.approvalThreshold \in Nat
  /\ 0 \in Budget /\ Budget \subseteq Uint /\ Budget \subseteq Nat /\ Uint \subseteq Nat
  /\ 1 \in Days /\ Days \subseteq Nat
  /\ {} \in Known
<1>1. {Policy.maxTransaction, Policy.dailySpend, Policy.minBalance,
       Policy.approvalThreshold} \subseteq Uint
  BY AgentProofAssumption
<1>2. MaxUint \in Nat /\ LastDay \in Nat \ {0}
  BY MaxUintAssumption, StateAssumption
<1> QED BY <1>1, <1>2 DEF hookLimits, Limits, Budget, Uint, Days, Known

\* The idle call, the operation that is not there, the read that is not there.
LEMMA Blanks ==
  /\ NoRun \in RunType /\ NoRun.pc = "idle" /\ NoRun.id = 0 /\ NoRun.owner = FALSE
  /\ NoOp \in OpType /\ NoOp.status = "none"
  /\ NoRead \in ReadType /\ NoRead.stage = "none" /\ NoRead.clean = FALSE /\ NoRead.day = 1
<1>1. (CHOOSE i \in Intents : TRUE) \in Intents
  BY AgentProofAssumption, Zenon
<1>2. MaxCalls \in Nat
  BY AgentProofAssumption
<1> QED BY <1>1, <1>2, PolicyFacts
        DEF NoRun, RunType, Pcs, NoOp, OpType, NoRead, ReadType, Stages

\* An operation the hook lets through stays within its limits, and today's
\* spend only grows.
LEMMA SettleStep ==
  ASSUME ChainInv, NEW i \in Intents, hookAllows(i), Settle(i)
  PROVE  /\ ChainInv' /\ today' = today
         /\ onchainSpend(today) <= onchainSpend(today)'
<1>0. /\ window \in Window /\ balance \in Uint /\ today \in Days /\ today \in Day
      /\ dayTotal \in [Days -> Budget]
      /\ window.day <= today /\ window.spent <= Policy.dailySpend
      /\ window.day \in Nat /\ window.spent \in Nat /\ today \in Nat
  BY PolicyFacts DEF ChainInv, Window, Day, Uint
<1>1. i.moved \in Uint /\ i.moved \in Nat /\ MaxUint \in Nat
  BY AgentProofAssumption, MaxUintAssumption DEF Uint
<1>2. balance' \in Uint /\ today' = today
  BY <1>0, <1>1 DEF Settle, hookAllows, Uint
<1>3. CASE i.moved > 0
  <2>1. evaluate(window, hookLimits, i.moved, today).decision = "Allow"
    BY <1>3 DEF hookAllows, applySpendReverts
  <2>2. window' = [day |-> today, spent |-> base(window, today) + i.moved]
        /\ window'.spent <= Policy.dailySpend /\ window'.day = today
    BY <1>0, <1>1, <1>3, <2>1, EvaluateAllows, PolicyFacts DEF Settle, applySpend
  <2>3. window' \in Window
    BY <1>0, <1>1, <1>3, EvaluateTotal, PolicyFacts DEF Settle, applySpend
  <2>4. window'.spent \in Budget
    BY <2>2, <2>3, PolicyFacts DEF Budget, Window, Uint
  <2>5. dayTotal' \in [Days -> Budget]
    BY <1>0, <1>3, <2>4 DEF Settle
  <2>6. ChainInv'
    BY <1>0, <1>2, <2>2, <2>3, <2>5 DEF ChainInv
  <2>7. onchainSpend(today)' = base(window, today) + i.moved
    BY <1>2, <2>2 DEF onchainSpend
  <2>8. onchainSpend(today) = base(window, today) /\ base(window, today) \in Nat
    BY <1>0 DEF onchainSpend, base
  <2> QED BY <1>1, <1>2, <2>6, <2>7, <2>8
<1>4. CASE ~(i.moved > 0)
  <2>1. UNCHANGED <<window, dayTotal>>
    BY <1>4 DEF Settle
  <2>2. ChainInv'
    BY <1>0, <1>2, <2>1 DEF ChainInv
  <2> QED BY <1>0, <1>2, <2>1, <2>2 DEF onchainSpend
<1> QED BY <1>3, <1>4

\* Midnight: nothing is spent yet on the new day.
LEMMA DayStep ==
  ASSUME ChainInv, nextDay
  PROVE  /\ ChainInv' /\ today' = today + 1
         /\ onchainSpend(today)' = 0
<1>1. /\ window \in Window /\ balance \in Uint /\ today \in Days /\ today < LastDay
      /\ dayTotal \in [Days -> Budget] /\ LastDay \in Nat
      /\ window.day <= today /\ window.spent <= Policy.dailySpend /\ window.day \in Nat
      /\ UNCHANGED <<window, balance, dayTotal>> /\ today' = today + 1
  BY StateAssumption DEF ChainInv, nextDay, Window, Day
<1>2. today' \in Days /\ window'.day <= today' /\ window'.day # today'
  BY <1>1 DEF Days
<1> QED BY <1>1, <1>2 DEF ChainInv, onchainSpend

\* What a step may do to the day and to its spend.
SpendMoves ==
  \/ today' = today /\ onchainSpend(today) <= onchainSpend(today)'
  \/ today' = today + 1 /\ onchainSpend(today)' = 0

\* A step that reads nothing: a read is kept, dropped or overtaken.
Fading ==
  /\ read' \in [Runs -> ReadType]
  /\ \A r \in Runs : read'[r] \in {read[r], NoRead, [read[r] EXCEPT !.clean = FALSE]}

ProviderInv == ProviderTypes /\ CacheInv /\ ReadInv

\* What the hook reports as spent today is a number within the daily limit.
LEMMA SpendType ==
  ASSUME ChainInv
  PROVE  /\ today \in Nat /\ today \in Days
         /\ \A d \in Days : onchainSpend(d) \in Budget /\ onchainSpend(d) \in Nat
<1>1. today \in Days /\ window.spent \in Nat /\ window.spent <= Policy.dailySpend
  BY DEF ChainInv, Window, Uint
<1> QED BY <1>1, PolicyFacts DEF onchainSpend, Budget

\* The chain may move under the provider, which learns nothing.
LEMMA FadeStep ==
  ASSUME ChainInv, ChainInv', ProviderInv, SpendMoves, UNCHANGED spendVars, Fading
  PROVE  ProviderInv'
<1>0. /\ indexed \in [Days -> Budget] /\ cache \in [Days -> Known]
      /\ recorded \in [Days -> Budget] /\ chainDown \in BOOLEAN
      /\ read \in [Runs -> ReadType] /\ read' \in [Runs -> ReadType]
      /\ UNCHANGED <<indexed, cache, recorded, chainDown>>
  BY DEF ProviderInv, ProviderTypes, Fading, spendVars
<1>1. /\ \A d \in Days : d > today => recorded[d] = 0 /\ cache[d] = {}
      /\ ~chainDown => /\ recorded[today] <= onchainSpend(today)
                       /\ \A v \in cache[today] : recorded[today] <= v
  BY DEF ProviderInv, CacheInv
<1>2. /\ today \in Nat /\ today \in Days /\ onchainSpend(today) \in Nat
      /\ recorded[today] \in Nat /\ \A d \in Days : d \in Nat
  BY <1>0, SpendType, PolicyFacts
<1>3. onchainSpend(today)' \in Nat /\ today' \in Days
  <2>1. window'.spent \in Nat /\ today' \in Days
    BY DEF ChainInv, Window, Uint
  <2> QED BY <2>1 DEF onchainSpend
<1>4. CacheInv'
  <2>1. CASE today' = today /\ onchainSpend(today) <= onchainSpend(today)'
    <3>1. ~chainDown => recorded[today] <= onchainSpend(today)'
      BY <1>1, <1>2, <1>3, <2>1
    <3> QED BY <1>0, <1>1, <2>1, <3>1 DEF CacheInv
  <2>2. CASE today' = today + 1 /\ onchainSpend(today)' = 0
    <3>1. recorded[today'] = 0 /\ cache[today'] = {}
      BY <1>1, <1>2, <1>3, <2>2
    <3>2. \A d \in Days : d > today' => d > today
      BY <1>2, <2>2
    <3> QED BY <1>0, <1>1, <2>2, <3>1, <3>2 DEF CacheInv
  <2> QED BY <2>1, <2>2 DEF SpendMoves
<1>5. ReadInv'
  <2> SUFFICES ASSUME NEW r \in Runs
               PROVE  ReadOK(read'[r], today', recorded'[today'], chainDown')
    BY DEF ReadInv, ReadOK
  <2>1. /\ ReadOK(read[r], today, recorded[today], chainDown)
        /\ read[r] \in ReadType /\ read[r].day \in Nat /\ read[r].atLeast \in Nat
        /\ read[r].spend \in Nat
    BY <1>0, PolicyFacts DEF ProviderInv, ReadInv, ReadType
  <2>2. \/ read'[r] = NoRead
        \/ /\ read'[r].day = read[r].day /\ read'[r].stage = read[r].stage
           /\ read'[r].atLeast = read[r].atLeast /\ read'[r].spend = read[r].spend
    BY <2>1 DEF Fading, ReadType
  <2>3. ReadOK(NoRead, today', recorded'[today'], chainDown')
    BY <1>3, Blanks DEF ReadOK, Days
  <2>4. today' = today \/ today' = today + 1
    BY DEF SpendMoves
  <2> QED BY <1>0, <1>2, <2>1, <2>2, <2>3, <2>4 DEF ReadOK
<1>6. ProviderTypes'
  BY <1>0 DEF ProviderTypes
<1> QED BY <1>4, <1>5, <1>6 DEF ProviderInv

\* One read moves on, and may fill the cache.
LEMMA OneRead ==
  ASSUME ChainInv, ProviderInv, UNCHANGED <<window, today, indexed, recorded>>,
         NEW r \in Runs, NEW x \in ReadType, read' = [read EXCEPT ![r] = x],
         cache' \in [Days -> Known], chainDown' \in BOOLEAN, chainDown => chainDown',
         \A d \in Days : d > today => cache'[d] = {},
         ~chainDown' => \A v \in cache'[today] : recorded[today] <= v,
         ReadOK(x, today, recorded[today], chainDown')
  PROVE  ProviderInv'
<1>1. ProviderTypes'
  BY DEF ProviderInv, ProviderTypes
<1>2. CacheInv'
  <2>1. onchainSpend(today)' = onchainSpend(today)
    BY DEF onchainSpend
  <2> QED BY <2>1 DEF ProviderInv, CacheInv
<1>3. ReadInv'
  <2> SUFFICES ASSUME NEW s \in Runs
               PROVE  ReadOK(read'[s], today', recorded'[today'], chainDown')
    BY DEF ReadInv, ReadOK
  <2>1. CASE s = r
    <3>1. read'[s] = x
      BY <2>1 DEF ProviderInv, ProviderTypes
    <3> QED BY <3>1
  <2>2. CASE s # r
    <3>1. read'[s] = read[s] /\ ReadOK(read[s], today, recorded[today], chainDown)
      BY <2>2 DEF ProviderInv, ProviderTypes, ReadInv
    <3> QED BY <3>1 DEF ReadOK
  <2> QED BY <2>1, <2>2
<1> QED BY <1>1, <1>2, <1>3 DEF ProviderInv

\* A read begins, or is answered from the cache.
LEMMA StartRead ==
  ASSUME ChainInv, ProviderInv, UNCHANGED <<window, today>>, UNCHANGED spendVars,
         NEW r \in Runs, getDailySpend(r)
  PROVE  /\ ProviderInv' /\ read' \in [Runs -> ReadType]
         /\ \A s \in Runs \ {r} : read'[s] = read[s]
         /\ CleanOK(read'[r], today, onchainSpend(today), balance)
<1> DEFINE hit == cache[today] # {}
           v0 == CHOOSE v \in cache[today] : TRUE
           x == [stage |-> IF hit THEN "done" ELSE "indexed", day |-> today,
                 indexed |-> {}, spend |-> IF hit THEN v0 ELSE 0,
                 funds |-> "asked", balance |-> 0,
                 atLeast |-> recorded[today], clean |-> ~hit]
<1>0. /\ UNCHANGED <<indexed, cache, recorded, chainDown>>
      /\ cache \in [Days -> Known] /\ chainDown \in BOOLEAN
      /\ recorded \in [Days -> Budget] /\ read \in [Runs -> ReadType]
      /\ \A d \in Days : d > today => cache[d] = {}
      /\ ~chainDown => \A v \in cache[today] : recorded[today] <= v
      /\ today \in Days /\ today \in Nat
  BY SpendType DEF spendVars, ProviderInv, ProviderTypes, CacheInv
<1>1. hit => v0 \in cache[today]
  OBVIOUS
<1>2. cache[today] \subseteq Budget /\ recorded[today] \in Budget
  BY <1>0 DEF Known
<1> HIDE DEF v0
<1>3. x \in ReadType
  BY <1>0, <1>1, <1>2, PolicyFacts DEF ReadType, Stages
<1>4. ReadOK(x, today, recorded[today], chainDown)
  <2>1. recorded[today] \in Nat
    BY <1>2, PolicyFacts
  <2> QED BY <1>0, <1>1, <2>1 DEF ReadOK
<1>5. read' = [read EXCEPT ![r] = x]
  BY DEF getDailySpend, v0
<1> HIDE DEF x
<1>6. ProviderInv'
  BY <1>0, <1>3, <1>4, <1>5, OneRead
<1>7. read' \in [Runs -> ReadType] /\ read'[r] = x /\ \A s \in Runs \ {r} : read'[s] = read[s]
  BY <1>0, <1>3, <1>5
<1>8. CleanOK(x, today, onchainSpend(today), balance)
  BY DEF CleanOK, x
<1> QED BY <1>6, <1>7, <1>8

\* The larger of what the sources answered.
LEMMA ReconcileFacts ==
  ASSUME NEW a \in Known, NEW b \in Known, a \cup b # {}
  PROVE  /\ reconcile(a \cup b) \in Budget
         /\ \A v \in a \cup b : v <= reconcile(a \cup b)
<1>0. a \subseteq Budget /\ b \subseteq Budget /\ Budget \subseteq Nat
  <2>1. \A k \in Known : k \subseteq Budget
    BY DEF Known
  <2> QED BY <2>1, PolicyFacts
<1>1. a \cup b \subseteq Budget /\ a \cup b \subseteq Nat
  BY <1>0
<1>2. \E v \in a \cup b : \A w \in a \cup b : w <= v
  <2>1. CASE a = {} \/ b = {}
    <3>1. PICK v \in Budget : a \cup b = {v}
      BY <2>1 DEF Known
    <3> QED BY <1>1, <3>1
  <2>2. CASE a # {} /\ b # {}
    <3>1. PICK v \in Budget, w \in Budget : a = {v} /\ b = {w}
      BY <2>2 DEF Known
    <3>2. v \in Nat /\ w \in Nat
      BY PolicyFacts
    <3>3. v <= w \/ w <= v
      BY <3>2
    <3> QED BY <3>1, <3>2, <3>3
  <2> QED BY <2>1, <2>2
<1>3. /\ reconcile(a \cup b) \in a \cup b
      /\ \A v \in a \cup b : v <= reconcile(a \cup b)
  BY <1>2, Zenon DEF reconcile
<1> QED BY <1>1, <1>3

\* The awaits of a read.
LEMMA GatherRead ==
  ASSUME ChainInv, ProviderInv, UNCHANGED chainVars, NEW r \in Runs,
         queryIndexedSpend(r) \/ readOnchainSpend(r) \/ getBalance(r)
  PROVE  /\ ProviderInv' /\ read' \in [Runs -> ReadType]
         /\ \A s \in Runs \ {r} : read'[s] = read[s]
         /\ CleanOK(read[r], today, onchainSpend(today), balance) =>
              CleanOK(read'[r], today, onchainSpend(today), balance)
         /\ read[r].stage \in {"indexed", "onchain"} \/ read[r].funds = "asked"
<1>0. /\ UNCHANGED <<window, today, balance>>
      /\ indexed \in [Days -> Budget] /\ cache \in [Days -> Known] /\ chainDown \in BOOLEAN
      /\ recorded \in [Days -> Budget] /\ read \in [Runs -> ReadType]
      /\ \A d \in Days : d > today => cache[d] = {}
      /\ ~chainDown => /\ recorded[today] <= onchainSpend(today)
                       /\ \A v \in cache[today] : recorded[today] <= v
      /\ today \in Days /\ today \in Nat /\ onchainSpend(today) \in Nat
      /\ \A d \in Days : onchainSpend(d) \in Budget /\ onchainSpend(d) \in Nat /\ d \in Nat
  BY SpendType, PolicyFacts DEF chainVars, ProviderInv, ProviderTypes, CacheInv
<1>1. /\ ReadOK(read[r], today, recorded[today], chainDown)
      /\ read[r] \in ReadType /\ read[r].day \in Days /\ read[r].indexed \in Known
      /\ recorded[today] \in Nat /\ read[r].clean \in BOOLEAN
      /\ balance \in Uint
  BY <1>0, PolicyFacts DEF ProviderInv, ReadInv, ReadType, ChainInv
<1> DEFINE Kept(x) == CleanOK(read[r], today, onchainSpend(today), balance) =>
                        CleanOK(x, today, onchainSpend(today), balance)
<1>2. ASSUME NEW x \in ReadType, ProviderInv', read' = [read EXCEPT ![r] = x], Kept(x)
      PROVE  /\ ProviderInv' /\ read' \in [Runs -> ReadType]
             /\ \A s \in Runs \ {r} : read'[s] = read[s]
             /\ Kept(read'[r])
  BY <1>0, <1>2
<1>3. CASE queryIndexedSpend(r)
  <2>1. PICK answer \in {{}, {indexed[read[r].day]}} :
          read' = [read EXCEPT ![r].stage = "onchain", ![r].indexed = answer]
    BY <1>3 DEF queryIndexedSpend
  <2> DEFINE x == [read[r] EXCEPT !.stage = "onchain", !.indexed = answer]
  <2>2. read[r].stage = "indexed" /\ UNCHANGED <<indexed, cache, recorded, chainDown>>
    BY <1>3 DEF queryIndexedSpend
  <2>3. answer \in Known
    BY <1>0, <1>1, <2>1 DEF Known
  <2>4. x \in ReadType /\ read' = [read EXCEPT ![r] = x]
    BY <1>0, <1>1, <2>1, <2>3 DEF ReadType, Stages
  <2>5. ReadOK(x, today, recorded[today], chainDown) /\ Kept(x)
    BY <1>1, <2>2 DEF ReadOK, ReadType, CleanOK
  <2> HIDE DEF x
  <2>6. ProviderInv'
    BY <1>0, <2>2, <2>4, <2>5, OneRead
  <2> QED BY <1>2, <2>2, <2>4, <2>5, <2>6
<1>4. CASE getBalance(r)
  <2> DEFINE x == [read[r] EXCEPT !.funds = "answered", !.balance = balance]
  <2>1. read[r].funds = "asked" /\ UNCHANGED <<indexed, cache, recorded, chainDown>>
    BY <1>4 DEF getBalance
  <2>2. x \in ReadType /\ read' = [read EXCEPT ![r] = x]
    BY <1>0, <1>1, <1>4 DEF ReadType, getBalance
  <2>3. ReadOK(x, today, recorded[today], chainDown) /\ Kept(x)
    BY <1>1, <2>1 DEF ReadOK, ReadType, CleanOK
  <2> HIDE DEF x
  <2>4. ProviderInv'
    BY <1>0, <2>1, <2>2, <2>3, OneRead
  <2> QED BY <1>2, <2>1, <2>2, <2>3, <2>4
<1>5. CASE readOnchainSpend(r)
  <2> DEFINE day == read[r].day
  <2>0. read[r].stage = "onchain" /\ UNCHANGED <<indexed, recorded>> /\ day <= today /\ day \in Nat
    BY <1>0, <1>1, <1>5 DEF readOnchainSpend, ReadOK
  <2>1. PICK answer \in {{}, {onchainSpend(day)}} :
          /\ IF read[r].indexed \cup answer = {}
               THEN /\ read' = [read EXCEPT ![r].stage = "failed"]
                    /\ UNCHANGED cache
               ELSE /\ read' = [read EXCEPT ![r].stage = "done",
                                  ![r].spend = reconcile(read[r].indexed \cup answer),
                                  ![r].clean = @ /\ answer # {}]
                    /\ cache' = [cache EXCEPT ![day] =
                                   {reconcile(read[r].indexed \cup answer)}]
          /\ chainDown' = (chainDown \/ answer = {})
    BY <1>5 DEF readOnchainSpend
  <2>2. answer \in Known /\ chainDown' \in BOOLEAN /\ (chainDown => chainDown')
    BY <1>0, <1>1, <2>1 DEF Known
  <2>3. CASE read[r].indexed \cup answer = {}
    <3> DEFINE x == [read[r] EXCEPT !.stage = "failed"]
    <3>1. x \in ReadType /\ read' = [read EXCEPT ![r] = x]
      BY <1>0, <1>1, <2>1, <2>3 DEF ReadType, Stages
    <3>2. ReadOK(x, today, recorded[today], chainDown') /\ Kept(x) /\ UNCHANGED cache
      BY <1>1, <2>0, <2>1, <2>3 DEF ReadOK, ReadType, CleanOK
    <3> HIDE DEF x
    <3>3. ProviderInv'
      BY <1>0, <2>0, <2>2, <3>1, <3>2, OneRead
    <3> QED BY <1>2, <2>0, <3>1, <3>2, <3>3
  <2>4. CASE read[r].indexed \cup answer # {}
    <3> DEFINE n == reconcile(read[r].indexed \cup answer)
               x == [read[r] EXCEPT !.stage = "done", !.spend = n,
                                    !.clean = @ /\ answer # {}]
    <3>1. n \in Budget /\ n \in Nat /\ \A v \in answer : v <= n
      BY <1>1, <2>2, <2>4, ReconcileFacts, PolicyFacts
    <3>2. ~chainDown' => onchainSpend(day) <= n
      BY <2>1, <3>1
    <3>3. read' = [read EXCEPT ![r] = x] /\ cache' = [cache EXCEPT ![day] = {n}]
      BY <1>0, <1>1, <2>1, <2>4 DEF ReadType
    <3> HIDE DEF n
    <3>4. x \in ReadType
      BY <1>1, <3>1 DEF ReadType, Stages
    <3>5. ReadOK(x, today, recorded[today], chainDown')
      BY <1>0, <1>1, <2>0, <2>2, <3>1, <3>2 DEF ReadOK, ReadType
    <3>6. Kept(x)
      <4>1. answer # {} => onchainSpend(day) <= n
        BY <2>1, <3>1
      <4> QED BY <1>1, <4>1 DEF CleanOK, ReadType
    <3>7. cache' \in [Days -> Known] /\ \A d \in Days : d > today => cache'[d] = {}
      BY <1>0, <1>1, <2>0, <3>1, <3>3 DEF Known
    <3>8. ~chainDown' => \A v \in cache'[today] : recorded[today] <= v
      BY <1>0, <1>1, <2>0, <2>2, <3>1, <3>2, <3>3
    <3> HIDE DEF x
    <3>9. ProviderInv'
      BY <1>0, <2>0, <2>2, <3>3, <3>4, <3>5, <3>7, <3>8, OneRead
    <3> QED BY <1>2, <2>0, <3>3, <3>4, <3>6, <3>9
  <2> QED BY <2>3, <2>4
<1> QED BY <1>3, <1>4, <1>5

\* A call that ends drops its read, unless that is still under way.
LEMMA ReturnFades ==
  ASSUME ProviderInv, NEW r \in Runs, Return(r)
  PROVE  /\ Fading
         /\ \A s \in Runs \ {r} : read'[s] = read[s]
         /\ read'[r] = IF InFlight(r) THEN read[r] ELSE NoRead
<1>1. read \in [Runs -> ReadType]
  BY DEF ProviderInv, ProviderTypes
<1>2. read' = [read EXCEPT ![r] = IF InFlight(r) THEN @ ELSE NoRead]
  BY DEF Return
<1> QED BY <1>1, <1>2, Blanks DEF Fading

\* The chain moves: the reads it overtakes are no longer clean.
LEMMA OvertakenFades ==
  ASSUME ProviderInv, NEW S,
         read' = [r \in Runs |-> IF r \in S THEN read[r]
                                 ELSE [read[r] EXCEPT !.clean = FALSE]]
  PROVE  /\ Fading
         /\ \A r \in Runs : /\ read'[r] \in {read[r], [read[r] EXCEPT !.clean = FALSE]}
                            /\ r \in S => read'[r] = read[r]
                            /\ r \notin S => read'[r].clean = FALSE
                            /\ \A x : DecidedOK(x, read[r]) => DecidedOK(x, read'[r])
<1>1. read \in [Runs -> ReadType]
  BY DEF ProviderInv, ProviderTypes
<1>2. ASSUME NEW r \in Runs
      PROVE  LET y == [read[r] EXCEPT !.clean = FALSE] IN
             /\ y \in ReadType /\ y.clean = FALSE
             /\ y.stage = read[r].stage /\ y.funds = read[r].funds
             /\ y.spend = read[r].spend /\ y.balance = read[r].balance
  BY <1>1 DEF ReadType
<1>3. \A r \in Runs : read'[r] = IF r \in S THEN read[r] ELSE [read[r] EXCEPT !.clean = FALSE]
  OBVIOUS
<1>4. Fading
  BY <1>1, <1>2, <1>3 DEF Fading
<1>5. \A r \in Runs : \A x : DecidedOK(x, read[r]) => DecidedOK(x, read'[r])
  BY <1>2, <1>3 DEF DecidedOK
<1> QED BY <1>2, <1>3, <1>4, <1>5

\* An execution is recorded: today's cache entry goes, and with no read under
\* way no old value can come back.
LEMMA RecordStep ==
  ASSUME ChainInv, ProviderInv, UNCHANGED chainVars, NEW r \in Runs,
         recordExecution, Return(r)
  PROVE  ProviderInv'
<1>0. /\ UNCHANGED <<window, today, balance, indexed, chainDown>>
      /\ indexed \in [Days -> Budget] /\ cache \in [Days -> Known] /\ chainDown \in BOOLEAN
      /\ recorded \in [Days -> Budget] /\ read \in [Runs -> ReadType]
      /\ today \in Days /\ today \in Nat
      /\ onchainSpend(today) \in Budget /\ onchainSpend(today) \in Nat
      /\ onchainSpend(today)' = onchainSpend(today)
  BY SpendType DEF chainVars, ProviderInv, ProviderTypes, recordExecution, onchainSpend
<1>1. cache' \in [Days -> Known] /\ cache'[today] = {}
      /\ \A d \in Days : d # today => cache'[d] = cache[d]
  BY <1>0, PolicyFacts DEF recordExecution, invalidatedCache
<1>2. /\ recorded' \in [Days -> Budget]
      /\ \A d \in Days : d # today => recorded'[d] = recorded[d]
      /\ \/ recorded'[today] = recorded[today]
         \/ /\ recorded'[today] = onchainSpend(today)
            /\ \A q \in Runs : ~InFlight(q)
  BY <1>0 DEF recordExecution
<1>3. Fading
  BY ReturnFades
<1>4. ProviderTypes'
  BY <1>0, <1>1, <1>2, <1>3 DEF ProviderTypes, Fading
<1>5. CacheInv'
  <2>1. \A d \in Days : d > today => recorded'[d] = 0 /\ cache'[d] = {}
    BY <1>0, <1>1, <1>2, PolicyFacts DEF ProviderInv, CacheInv
  <2>2. ~chainDown => recorded'[today] <= onchainSpend(today)
    BY <1>0, <1>2 DEF ProviderInv, CacheInv
  <2> QED BY <1>0, <1>1, <2>1, <2>2 DEF CacheInv
<1>6. ReadInv'
  <2> SUFFICES ASSUME NEW s \in Runs
               PROVE  ReadOK(read'[s], today', recorded'[today'], chainDown')
    BY DEF ReadInv, ReadOK
  <2>1. ReadOK(read[s], today, recorded[today], chainDown) /\ read[s] \in ReadType
    BY <1>0 DEF ProviderInv, ReadInv
  <2>2. \/ read'[s] = NoRead
        \/ /\ read'[s].day = read[s].day /\ read'[s].stage = read[s].stage
           /\ read'[s].atLeast = read[s].atLeast /\ read'[s].spend = read[s].spend
    BY <1>3, <2>1 DEF Fading, ReadType
  <2>3. ReadOK(NoRead, today', recorded'[today'], chainDown')
    BY <1>0, Blanks DEF ReadOK, Days
  <2> QED BY <1>0, <1>2, <2>1, <2>2, <2>3 DEF ReadOK, InFlight
<1> QED BY <1>4, <1>5, <1>6 DEF ProviderInv

\* A cache entry expires, or the indexer catches up.
LEMMA BackgroundStep ==
  ASSUME ChainInv, ProviderInv, background
  PROVE  ProviderInv' /\ UNCHANGED read
<1>0. /\ UNCHANGED <<window, today, recorded, chainDown, read>>
      /\ indexed \in [Days -> Budget] /\ cache \in [Days -> Known] /\ chainDown \in BOOLEAN
      /\ recorded \in [Days -> Budget] /\ read \in [Runs -> ReadType]
      /\ dayTotal \in [Days -> Budget]
      /\ onchainSpend(today)' = onchainSpend(today)
  BY DEF background, chainVars, ChainInv, ProviderInv, ProviderTypes, expire,
         handleSpendRecorded, onchainSpend
<1>1. /\ cache' \in [Days -> Known] /\ indexed' \in [Days -> Budget]
      /\ \A d \in Days : cache'[d] \subseteq cache[d]
  BY <1>0, PolicyFacts DEF background, expire, handleSpendRecorded
<1>2. ProviderTypes'
  BY <1>0, <1>1 DEF ProviderTypes
<1>3. CacheInv'
  <2>1. \A d \in Days : d > today => recorded[d] = 0 /\ cache'[d] = {}
    BY <1>1 DEF ProviderInv, CacheInv
  <2> QED BY <1>0, <1>1, <2>1, SpendType DEF ProviderInv, CacheInv
<1>4. ReadInv'
  BY <1>0 DEF ProviderInv, ReadInv, ReadOK
<1> QED BY <1>0, <1>2, <1>3, <1>4 DEF ProviderInv

-----------------------------------------------------------------------------
(* The calls *)

\* One call moves: how many are still gathering.
LEMMA Counted ==
  ASSUME NEW f \in [Runs -> RunType], NEW g \in [Runs -> RunType], NEW r \in Runs,
         \A s \in Runs \ {r} : g[s] = f[s]
  PROVE  /\ Cardinality(Gathering(f)) \in Nat /\ Cardinality(Gathering(g)) \in Nat
         /\ Cardinality(Gathering(g)) =
              Cardinality(Gathering(f)) + (IF g[r].pc = "gather" THEN 1 ELSE 0)
                                        - (IF f[r].pc = "gather" THEN 1 ELSE 0)
<1> DEFINE rest == Gathering(f) \ {r}
<1>1. IsFiniteSet(Gathering(f)) /\ IsFiniteSet(rest)
  BY StateAssumption, FS_Subset DEF Gathering
<1>2. Gathering(g) = IF g[r].pc = "gather" THEN rest \cup {r} ELSE rest
  BY DEF Gathering
<1>3. Gathering(f) = IF f[r].pc = "gather" THEN rest \cup {r} ELSE rest
  BY DEF Gathering
<1>4. Cardinality(rest) \in Nat /\ Cardinality(rest \cup {r}) = Cardinality(rest) + 1
  BY <1>1, FS_CardinalityType, FS_AddElement
<1> HIDE DEF rest
<1> QED BY <1>2, <1>3, <1>4

\* A call returns or throws.  It was counted if it was decided now, and what it
\* sent is published or given up.
LEMMA CallEnds ==
  ASSUME IInv, NEW r \in Runs, Return(r), UNCHANGED chainVars, UNCHANGED setup,
         UNCHANGED <<calls, clicked, nonce>>,
         \/ sequence' = sequence
         \/ sequence' = sequence + 1 /\ run[r].pc = "gather",
         pending' \subseteq pending, published \subseteq published',
         published' \subseteq published \cup ({sequence', run[r].id} \ {0}),
         \/ UNCHANGED ops
         \/ ops' = [ops EXCEPT ![run[r].id].abandoned = TRUE] /\ run[r].pc = "sent",
         run[r].pc = "sent" => \/ run[r].id \in published'
                               \/ ops'[run[r].id].abandoned
                               \/ ops'[run[r].id].status \notin {"pooled", "mined"}
  PROVE  CleanInv' /\ SetupInv' /\ ProcessInv'
<1>0. /\ run \in [Runs -> RunType] /\ ops \in [Ids -> OpType] /\ read \in [Runs -> ReadType]
      /\ ProviderInv /\ ChainInv
      /\ UNCHANGED <<window, balance, today, executor, ledger, approver>>
      /\ calls \in Nat /\ sequence \in Nat /\ calls <= MaxCalls /\ sequence <= calls
      /\ MaxCalls \in Nat
  BY AgentProofAssumption
  DEF IInv, StateInv, ProcessInv, ProviderInv, ProviderTypes, CallTypes, chainVars, setup
<1>1. run' = [run EXCEPT ![r] = NoRun]
  BY DEF Return
<1>2. /\ run' \in [Runs -> RunType] /\ run'[r] = NoRun
      /\ \A s \in Runs \ {r} : run'[s] = run[s] /\ read'[s] = read[s]
      /\ read'[r] = IF InFlight(r) THEN read[r] ELSE NoRead
  BY <1>0, <1>1, Blanks, ReturnFades
<1>3. /\ ops' \in [Ids -> OpType]
      /\ \A id \in Ids : /\ ops'[id].status = ops[id].status /\ ops'[id].owner = ops[id].owner
                         /\ ops'[id].intent = ops[id].intent
                         /\ ops[id].abandoned => ops'[id].abandoned
  <2>1. CASE UNCHANGED ops
    BY <1>0, <2>1
  <2>2. CASE ops' = [ops EXCEPT ![run[r].id].abandoned = TRUE]
    <3>1. \A id \in Ids : ops[id] \in OpType /\ [ops[id] EXCEPT !.abandoned = TRUE] \in OpType
      BY <1>0 DEF OpType
    <3>2. /\ ops' \in [Ids -> OpType]
          /\ \A id \in Ids : ops'[id] \in {ops[id], [ops[id] EXCEPT !.abandoned = TRUE]}
      BY <1>0, <2>2, <3>1
    <3> QED BY <3>1, <3>2 DEF OpType
  <2> QED BY <2>1, <2>2
<1>4. CountInv' /\ sequence' \in 0..calls' /\ calls' \in 0..MaxCalls
  <2>1. /\ Cardinality(Gathering(run)) \in Nat /\ Cardinality(Gathering(run')) \in Nat
        /\ Cardinality(Gathering(run')) =
              Cardinality(Gathering(run)) - (IF run[r].pc = "gather" THEN 1 ELSE 0)
    BY <1>0, <1>2, Counted, Blanks
  <2>2. sequence + Cardinality(Gathering(run)) <= calls
    BY DEF IInv, ProcessInv, CountInv
  <2> QED BY <1>0, <2>1, <2>2 DEF CountInv
<1>5. CallTypes'
  <2>1. published' \subseteq Ids
    BY <1>0, <1>4 DEF IInv, ProcessInv, CallTypes, RunType, Ids
  <2> QED BY <1>2, <1>3, <1>4, <2>1 DEF IInv, ProcessInv, CallTypes
<1>6. IdInv'
  <2>1. IdInv
    BY DEF IInv, ProcessInv
  <2>2. \A s \in Runs : IF run'[s].pc \in Decided THEN run'[s].id \in 1..sequence'
                        ELSE run'[s].id = 0 /\ run'[s].owner = FALSE
    BY <1>0, <1>2, <2>1, Blanks DEF IdInv, Decided
  <2>3. \A s, q \in Runs : run'[s].id = run'[q].id /\ run'[s].id # 0 => s = q
    BY <1>2, <2>1, Blanks DEF IdInv
  <2>4. \A id \in Ids : id > sequence' => ops'[id].status = "none"
    BY <1>0, <1>3, <2>1 DEF IdInv, Ids
  <2>5. \A c \in clicked' : c.id <= sequence'
    BY <1>0, <2>1 DEF IdInv, IInv, ProcessInv, CallTypes, Ids
  <2>6. \A id \in pending' : approver' = "dashboard"
    BY <1>0, <2>1 DEF IdInv
  <2>7. \A s \in Runs : run'[s].pc \in {"approval", "address", "sending"} =>
          ops'[run'[s].id].status = "none"
    <3> SUFFICES ASSUME NEW s \in Runs, run'[s].pc \in {"approval", "address", "sending"}
                 PROVE  ops'[run'[s].id].status = "none"
      OBVIOUS
    <3>1. run'[s] = run[s]
      BY <1>2, Blanks
    <3>2. run[s].id \in Ids
      BY <1>0, <2>1, <3>1 DEF IdInv, Decided, Ids
    <3> QED BY <1>3, <2>1, <3>1, <3>2 DEF IdInv
  <2> QED BY <2>2, <2>3, <2>4, <2>5, <2>6, <2>7 DEF IdInv
<1>7. DecidedInv'
  <2>1. \A s \in Runs : DecidedOK(run'[s], read'[s])
    BY <1>2, Blanks DEF IInv, ProcessInv, DecidedInv, DecidedOK, Decided
  <2> QED BY <2>1 DEF DecidedInv, DecidedOK
<1>8. HumanInv'
  <2>1. \A s \in Runs : HumanOK(run'[s], clicked', approver', ledger')
    BY <1>0, <1>2, Blanks DEF IInv, ProcessInv, HumanInv, HumanOK
  <2>2. \A id \in Ids : ops'[id].status # "none" =>
          OwnerOK(id, ops'[id].owner, ops'[id].intent, clicked', approver', ledger')
    BY <1>0, <1>3 DEF IInv, ProcessInv, HumanInv
  <2> QED BY <2>1, <2>2 DEF HumanInv, HumanOK, OwnerOK, YesOf
<1>9. ReportInv'
  <2> SUFFICES ASSUME NEW id \in Ids, ops'[id].status \in {"pooled", "mined"}
               PROVE  \/ id \in published'
                      \/ \E s \in Runs : run'[s].id = id /\ run'[s].pc = "sent"
                      \/ ops'[id].abandoned
    BY DEF ReportInv
  <2>1. \/ id \in published
        \/ \E s \in Runs : run[s].id = id /\ run[s].pc = "sent"
        \/ ops[id].abandoned
    BY <1>3 DEF IInv, ProcessInv, ReportInv
  <2>2. CASE \E s \in Runs : run[s].id = id /\ run[s].pc = "sent"
    <3>1. PICK s \in Runs : run[s].id = id /\ run[s].pc = "sent"
      BY <2>2
    <3> QED BY <1>2, <3>1
  <2> QED BY <1>3, <2>1, <2>2
<1>10. CleanInv'
  <2> SUFFICES ASSUME NEW s \in Runs
               PROVE  Executed(s)' \/ CleanOK(read'[s], today', onchainSpend(today)', balance')
    BY DEF CleanInv, CleanOK, onchainSpend
  <2>1. Executed(s) \/ CleanOK(read[s], today, onchainSpend(today), balance)
    BY DEF IInv, StateInv, CleanInv
  <2>2. onchainSpend(today)' = onchainSpend(today)
    BY <1>0 DEF onchainSpend
  <2>3. CASE s # r
    <3>1. Executed(s) => Executed(s)'
      <4>1. run[s].pc = "sent" => run[s].id \in Ids
        BY <1>0 DEF IInv, ProcessInv, IdInv, Decided, Ids
      <4> QED BY <1>2, <1>3, <2>3, <4>1 DEF Executed
    <3> QED BY <1>0, <1>2, <2>1, <2>2, <2>3, <3>1
  <2>4. CASE s = r /\ run[r].pc = "sent"
    <3>1. ~InFlight(r)
      BY <2>4 DEF IInv, ProcessInv, DecidedInv, DecidedOK, Decided, InFlight
    <3> QED BY <1>2, <2>4, <3>1, Blanks DEF CleanOK
  <2>5. CASE s = r /\ run[r].pc # "sent"
    BY <1>0, <1>2, <2>1, <2>2, <2>5, Blanks DEF CleanOK, Executed
  <2> QED BY <2>3, <2>4, <2>5
<1>11. SetupInv'
  BY <1>0 DEF IInv, StateInv, SetupInv
<1> QED BY <1>4, <1>5, <1>6, <1>7, <1>8, <1>9, <1>10, <1>11 DEF ProcessInv

\* A yes counts for the decision it was given to.
LEMMA YesGiven ==
  ASSUME NEW clicks, NEW k, NEW b, [id |-> k, by |-> b] \in clicks
  PROVE  b \in YesOf(clicks, k)
<1> DEFINE c == [id |-> k, by |-> b]
<1>1. c \in {y \in clicks : y.id = k} /\ c.by = b
  OBVIOUS
<1> QED BY <1>1 DEF YesOf

\* A call starts, is decided, is answered by a human, or hands over its
\* operation: it becomes x, under its own number or the next one.
LEMMA CallMoves ==
  ASSUME IInv, NEW r \in Runs, NEW x \in RunType, run' = [run EXCEPT ![r] = x],
         run[r].pc # "sent", UNCHANGED setup, UNCHANGED published, nonce' \in Nat,
         calls' \in 0..MaxCalls, sequence' \in {sequence, sequence + 1},
         sequence' - sequence + (IF x.pc = "gather" THEN 1 ELSE 0)
           - (IF run[r].pc = "gather" THEN 1 ELSE 0) <= calls' - calls,
         IF x.pc \in Decided THEN x.id \in 1..sequence' ELSE x.id = 0 /\ x.owner = FALSE,
         x.id = run[r].id \/ (x.id = sequence + 1 /\ sequence' = sequence + 1),
         \/ UNCHANGED ops /\ x.pc # "sent"
         \/ \E y \in OpType :
              /\ ops' = [ops EXCEPT ![x.id] = y]
              /\ y.owner = run[r].owner /\ y.intent = run[r].intent
              /\ run[r].pc = "sending" /\ x.pc = "sent" /\ x.id = run[r].id,
         pending' \subseteq Ids, pending' \subseteq pending \/ approver = "dashboard",
         \/ UNCHANGED clicked
         \/ \E b \in {"dashboard", "console", "ledger"} :
              /\ clicked' = clicked \cup {[id |-> run[r].id, by |-> b]}
              /\ run[r].pc = "approval",
         \A s \in Runs \ {r} : read'[s] \in {read[s], [read[s] EXCEPT !.clean = FALSE]},
         DecidedOK(x, read'[r]), HumanOK(x, clicked', approver, ledger)
  PROVE  SetupInv' /\ ProcessInv'
<1>0. /\ run \in [Runs -> RunType] /\ ops \in [Ids -> OpType] /\ read \in [Runs -> ReadType]
      /\ UNCHANGED <<executor, ledger, approver>>
      /\ calls \in Nat /\ sequence \in Nat /\ calls <= MaxCalls /\ sequence <= calls
      /\ calls' \in Nat /\ sequence' \in Nat
      /\ MaxCalls \in Nat
      /\ sequence + Cardinality(Gathering(run)) <= calls
      /\ clicked \subseteq [id: Ids, by: {"dashboard", "console", "ledger"}]
      /\ published \subseteq Ids
  BY AgentProofAssumption
  DEF IInv, StateInv, ProcessInv, ProviderTypes, CallTypes, CountInv, setup
<1>1. /\ run' \in [Runs -> RunType] /\ run'[r] = x
      /\ \A s \in Runs \ {r} : run'[s] = run[s]
  BY <1>0
<1>2. IdInv /\ HumanInv /\ DecidedInv /\ ReportInv
  BY DEF IInv, ProcessInv
<1>3. CountInv' /\ sequence' \in 0..calls' /\ sequence' <= MaxCalls
  <2>1. /\ Cardinality(Gathering(run)) \in Nat /\ Cardinality(Gathering(run')) \in Nat
        /\ Cardinality(Gathering(run')) =
              Cardinality(Gathering(run)) + (IF x.pc = "gather" THEN 1 ELSE 0)
                                          - (IF run[r].pc = "gather" THEN 1 ELSE 0)
    BY <1>0, <1>1, Counted
  <2> QED BY <1>0, <2>1 DEF CountInv
<1>4. \A s \in Runs : run[s].pc \in Decided => run[s].id \in Ids /\ run[s].id <= sequence
  BY <1>0, <1>2 DEF IdInv, Ids
<1>5. \A s \in Runs \ {r} : run[s].id # 0 => run[s].id # x.id /\ run[s].id # run[r].id
  <2>1. \A s \in Runs : run[s].id <= sequence
    BY <1>0, <1>2 DEF IdInv
  <2>2. \A s \in Runs : run[s].id \in Nat
    BY <1>0 DEF RunType
  <2> QED BY <1>0, <1>2, <2>1, <2>2 DEF IdInv
<1>6. /\ ops' \in [Ids -> OpType]
      /\ \A id \in Ids : ops'[id] = ops[id] \/ (id = x.id /\ x.pc = "sent")
      /\ x.pc = "sent" => /\ ops'[x.id].owner = run[r].owner
                          /\ ops'[x.id].intent = run[r].intent
                          /\ run[r].pc = "sending" /\ x.id = run[r].id
  <2>1. x.pc = "sent" => x.id \in Ids
    BY <1>0, <1>3 DEF Decided, Ids
  <2> QED BY <1>0, <2>1
<1>7. /\ \A j \in Ids : j # run[r].id => YesOf(clicked', j) = YesOf(clicked, j)
      /\ run[r].pc # "approval" => clicked' = clicked
      /\ \A c \in clicked' : c \in clicked \/ (c.id = run[r].id /\ run[r].pc = "approval")
      /\ clicked' \subseteq [id: Ids, by: {"dashboard", "console", "ledger"}]
  <2>1. CASE UNCHANGED clicked
    BY <1>0, <2>1, Zenon
  <2>2. CASE \E b \in {"dashboard", "console", "ledger"} :
               /\ clicked' = clicked \cup {[id |-> run[r].id, by |-> b]}
               /\ run[r].pc = "approval"
    <3>1. PICK b \in {"dashboard", "console", "ledger"} :
            clicked' = clicked \cup {[id |-> run[r].id, by |-> b]}
      BY <2>2
    <3>2. run[r].id \in Ids /\ run[r].pc = "approval"
      BY <1>4, <2>2 DEF Decided
    <3>3. \A j : j # run[r].id => YesOf(clicked', j) = YesOf(clicked, j)
      <4>1. \A j : j # run[r].id =>
              {y \in clicked' : y.id = j} = {y \in clicked : y.id = j}
        BY <3>1
      <4> QED BY <4>1 DEF YesOf
    <3>4. [id |-> run[r].id, by |-> b] \in [id: Ids, by: {"dashboard", "console", "ledger"}]
      BY <3>2
    <3>5. [id |-> run[r].id, by |-> b].id = run[r].id
      OBVIOUS
    <3> QED BY <1>0, <3>1, <3>2, <3>3, <3>4, <3>5, Zenon
  <2> QED BY <2>1, <2>2
<1>8. CallTypes'
  BY <1>0, <1>1, <1>3, <1>6, <1>7 DEF CallTypes
<1>9. IdInv'
  <2>1. \A s \in Runs : IF run'[s].pc \in Decided THEN run'[s].id \in 1..sequence'
                        ELSE run'[s].id = 0 /\ run'[s].owner = FALSE
    BY <1>0, <1>1, <1>2 DEF IdInv
  <2>2. \A s, q \in Runs : run'[s].id = run'[q].id /\ run'[s].id # 0 => s = q
    BY <1>1, <1>2, <1>5 DEF IdInv
  <2>3. \A id \in Ids : id > sequence' => ops'[id].status = "none"
    <3>1. x.pc = "sent" => x.id <= sequence' /\ x.id \in Nat
      BY <1>0 DEF Decided
    <3> QED BY <1>0, <1>2, <1>6, <3>1 DEF IdInv, Ids
  <2>4. \A c \in clicked' : c.id <= sequence'
    <3> SUFFICES ASSUME NEW c \in clicked' PROVE c.id <= sequence'
      OBVIOUS
    <3>1. c.id <= sequence /\ c.id \in Nat
      BY <1>0, <1>2, <1>4, <1>7 DEF IdInv, Ids, Decided
    <3> QED BY <1>0, <3>1
  <2>5. \A id \in pending' : approver' = "dashboard"
    BY <1>0, <1>2 DEF IdInv
  <2>6. \A s \in Runs : run'[s].pc \in {"approval", "address", "sending"} =>
          ops'[run'[s].id].status = "none"
    <3> SUFFICES ASSUME NEW s \in Runs, run'[s].pc \in {"approval", "address", "sending"}
                 PROVE  ops'[run'[s].id].status = "none"
      OBVIOUS
    <3>1. CASE s = r
      <4>1. x.pc \in Decided /\ x.pc # "sent" /\ x.id \in Ids /\ UNCHANGED ops
        BY <1>0, <1>1, <1>3, <3>1 DEF Decided, Ids
      <4>2. CASE x.id = sequence + 1
        BY <1>0, <1>1, <1>2, <3>1, <4>1, <4>2 DEF IdInv
      <4>3. CASE x.id = run[r].id /\ x.id # sequence + 1
        <5>1. run[r].pc \in Decided
          BY <1>0, <1>2, <4>1, <4>3 DEF IdInv, Ids
        <5> QED BY <1>1, <1>2, <3>1, <4>1, <4>3, <5>1 DEF IdInv, Decided
      <4> QED BY <4>2, <4>3
    <3>2. CASE s # r
      <4>1. run'[s] = run[s] /\ run[s].id \in Ids /\ run[s].id # 0
        BY <1>1, <1>4, <3>2 DEF Decided, Ids
      <4> QED BY <1>2, <1>5, <1>6, <3>2, <4>1 DEF IdInv
    <3> QED BY <3>1, <3>2
  <2> QED BY <2>1, <2>2, <2>3, <2>4, <2>5, <2>6 DEF IdInv
<1>10. DecidedInv'
  <2>1. \A s \in Runs : DecidedOK(run'[s], read'[s])
    <3> SUFFICES ASSUME NEW s \in Runs \ {r} PROVE DecidedOK(run[s], read'[s])
      BY <1>1
    <3>1. DecidedOK(run[s], read[s]) /\ read[s] \in ReadType
      BY <1>0, <1>2 DEF DecidedInv
    <3>2. /\ read'[s].stage = read[s].stage /\ read'[s].funds = read[s].funds
          /\ read'[s].spend = read[s].spend /\ read'[s].balance = read[s].balance
      BY <3>1 DEF ReadType
    <3> QED BY <3>1, <3>2 DEF DecidedOK
  <2> QED BY <2>1 DEF DecidedInv, DecidedOK
<1>11. HumanInv'
  <2>1. ASSUME NEW s \in Runs PROVE HumanOK(run'[s], clicked', approver', ledger')
    <3>1. CASE s = r
      BY <1>0, <1>1, <3>1
    <3>2. CASE s # r
      <4>1. HumanOK(run[s], clicked, approver, ledger) /\ run'[s] = run[s]
        BY <1>1, <1>2, <3>2 DEF HumanInv
      <4>2. run[s].pc \in Decided => YesOf(clicked', run[s].id) = YesOf(clicked, run[s].id)
        BY <1>4, <1>5, <1>7, <3>2 DEF Ids
      <4> QED BY <1>0, <4>1, <4>2 DEF HumanOK, OwnerOK, Decided
    <3> QED BY <3>1, <3>2
  <2>2. ASSUME NEW id \in Ids, ops'[id].status # "none"
        PROVE  OwnerOK(id, ops'[id].owner, ops'[id].intent, clicked', approver', ledger')
    <3>1. CASE id = x.id /\ x.pc = "sent"
      <4>1. run[r].pc = "sending" /\ clicked' = clicked /\ id = run[r].id
        BY <1>6, <1>7, <3>1
      <4>2. OwnerOK(id, run[r].owner, run[r].intent, clicked, approver, ledger)
        BY <1>2, <4>1 DEF HumanInv, HumanOK
      <4> QED BY <1>0, <1>6, <3>1, <4>1, <4>2
    <3>2. CASE ~(id = x.id /\ x.pc = "sent")
      <4>1. ops'[id] = ops[id]
        BY <1>6, <3>2
      <4>2. OwnerOK(id, ops[id].owner, ops[id].intent, clicked, approver, ledger)
        BY <1>2, <2>2, <4>1 DEF HumanInv
      <4>3. YesOf(clicked', id) = YesOf(clicked, id)
        <5>1. run[r].pc = "approval" => ops[run[r].id].status = "none"
          BY <1>2 DEF IdInv
        <5> QED BY <1>7, <2>2, <4>1, <5>1
      <4> QED BY <1>0, <4>1, <4>2, <4>3 DEF OwnerOK
    <3> QED BY <3>1, <3>2
  <2> QED BY <2>1, <2>2 DEF HumanInv, HumanOK, OwnerOK, YesOf
<1>12. ReportInv'
  <2> SUFFICES ASSUME NEW id \in Ids, ops'[id].status \in {"pooled", "mined"}
               PROVE  \/ id \in published'
                      \/ \E s \in Runs : run'[s].id = id /\ run'[s].pc = "sent"
                      \/ ops'[id].abandoned
    BY DEF ReportInv
  <2>1. CASE id = x.id /\ x.pc = "sent"
    BY <1>1, <2>1
  <2>2. CASE ops'[id] = ops[id]
    <3>1. \/ id \in published
          \/ \E s \in Runs : run[s].id = id /\ run[s].pc = "sent"
          \/ ops[id].abandoned
      BY <1>2, <2>2 DEF ReportInv
    <3>2. CASE \E s \in Runs : run[s].id = id /\ run[s].pc = "sent"
      <4>1. PICK s \in Runs : run[s].id = id /\ run[s].pc = "sent"
        BY <3>2
      <4> QED BY <1>1, <4>1
    <3> QED BY <2>2, <3>1, <3>2
  <2> QED BY <1>6, <2>1, <2>2
<1>13. SetupInv'
  BY <1>0 DEF IInv, StateInv, SetupInv
<1> QED BY <1>3, <1>8, <1>9, <1>10, <1>11, <1>12, <1>13 DEF ProcessInv

\* The calls stand still; an operation may be included or revert.
LEMMA CallsKept ==
  ASSUME IInv, UNCHANGED <<run, calls, sequence, pending, clicked, published>>,
         UNCHANGED setup, nonce' \in Nat, ops' \in [Ids -> OpType],
         \A id \in Ids : \/ ops'[id] = ops[id]
                         \/ /\ ops[id].status = "pooled" /\ ops'[id].status # "none"
                            /\ ops'[id].owner = ops[id].owner
                            /\ ops'[id].intent = ops[id].intent
                            /\ ops'[id].abandoned = ops[id].abandoned,
         \A r \in Runs : DecidedOK(run[r], read'[r])
  PROVE  SetupInv' /\ ProcessInv'
<1>0. /\ UNCHANGED <<executor, ledger, approver>>
      /\ CallTypes /\ CountInv /\ IdInv /\ HumanInv /\ ReportInv /\ SetupInv
      /\ sequence \in Nat /\ sequence <= MaxCalls /\ MaxCalls \in Nat
  BY AgentProofAssumption DEF IInv, StateInv, ProcessInv, CallTypes, setup
<1>1. CallTypes' /\ CountInv' /\ SetupInv'
  BY <1>0 DEF CallTypes, CountInv, SetupInv
<1>2. IdInv'
  <2>1. \A r \in Runs : run[r].pc \in Decided => run[r].id \in Ids
    BY <1>0 DEF IdInv, Ids
  <2>2. \A r \in Runs : run[r].pc \in {"approval", "address", "sending"} =>
          ops'[run[r].id].status = "none"
    BY <1>0, <2>1 DEF IdInv, Decided
  <2>3. \A id \in Ids : id > sequence => ops'[id].status = "none"
    BY <1>0 DEF IdInv
  <2> QED BY <1>0, <2>2, <2>3 DEF IdInv
<1>3. DecidedInv'
  BY DEF DecidedInv, DecidedOK
<1>4. HumanInv'
  <2>1. \A r \in Runs : HumanOK(run'[r], clicked', approver', ledger')
    BY <1>0 DEF HumanInv
  <2>2. \A id \in Ids : ops'[id].status # "none" =>
          OwnerOK(id, ops'[id].owner, ops'[id].intent, clicked', approver', ledger')
    BY <1>0 DEF HumanInv
  <2> QED BY <2>1, <2>2 DEF HumanInv, HumanOK, OwnerOK, YesOf
<1>5. ReportInv'
  BY <1>0 DEF ReportInv
<1> QED BY <1>1, <1>2, <1>3, <1>4, <1>5 DEF ProcessInv

\* Nothing happens on the chain.
LEMMA ChainKept ==
  ASSUME ChainInv, UNCHANGED chainVars
  PROVE  /\ ChainInv' /\ SpendMoves
         /\ onchainSpend(today)' = onchainSpend(today)
         /\ UNCHANGED <<window, balance, today, dayTotal>>
<1>1. UNCHANGED <<window, balance, today, dayTotal>>
  BY DEF chainVars
<1>2. onchainSpend(today)' = onchainSpend(today) /\ onchainSpend(today) \in Nat
  BY <1>1, SpendType DEF onchainSpend
<1> QED BY <1>1, <1>2 DEF ChainInv, SpendMoves

\* The types every step starts from.
LEMMA StartsFrom ==
  ASSUME IInv
  PROVE  /\ SetupInv /\ ChainInv /\ ProviderInv /\ CleanInv /\ ProcessInv
         /\ run \in [Runs -> RunType] /\ ops \in [Ids -> OpType] /\ read \in [Runs -> ReadType]
         /\ calls \in Nat /\ sequence \in Nat /\ nonce \in Nat /\ MaxCalls \in Nat
         /\ calls <= MaxCalls /\ sequence <= calls /\ pending \subseteq Ids
         /\ \A r \in Runs : /\ run[r] \in RunType /\ read[r] \in ReadType
                            /\ run[r].intent \in Intents
                            /\ DecidedOK(run[r], read[r])
                            /\ HumanOK(run[r], clicked, approver, ledger)
                            /\ run[r].pc \in Decided =>
                                 run[r].id \in Ids /\ run[r].id \in 1..sequence
                            /\ Executed(r) \/ CleanOK(read[r], today, onchainSpend(today), balance)
         /\ \A r, s \in Runs : run[r].id = run[s].id /\ run[r].id # 0 => r = s
<1>1. /\ SetupInv /\ ChainInv /\ ProviderInv /\ CleanInv /\ ProcessInv
      /\ run \in [Runs -> RunType] /\ ops \in [Ids -> OpType] /\ read \in [Runs -> ReadType]
      /\ calls \in Nat /\ sequence \in Nat /\ nonce \in Nat /\ MaxCalls \in Nat
      /\ calls <= MaxCalls /\ sequence <= calls /\ pending \subseteq Ids
  BY AgentProofAssumption
  DEF IInv, StateInv, ProcessInv, ProviderInv, ProviderTypes, CallTypes
<1>2. \A r \in Runs : /\ run[r] \in RunType /\ read[r] \in ReadType
                      /\ run[r].intent \in Intents
  BY <1>1 DEF RunType
<1>3. \A r \in Runs : run[r].pc \in Decided =>
        run[r].id \in Ids /\ run[r].id \in 1..sequence
  BY <1>1 DEF ProcessInv, IdInv, Ids
<1> QED BY <1>1, <1>2, <1>3 DEF ProcessInv, DecidedInv, HumanInv, CleanInv, IdInv

\* The parts of the invariant, gathered.
LEMMA Gathered ==
  ASSUME SetupInv', ChainInv', ProviderInv', CleanInv', ProcessInv'
  PROVE  IInv'
BY DEF IInv, StateInv, ProviderInv

\* A call ends without touching the provider's figures.
LEMMA EndStep ==
  ASSUME IInv, NEW r \in Runs, Return(r), UNCHANGED chainVars, UNCHANGED spendVars,
         CleanInv', SetupInv', ProcessInv'
  PROVE  IInv'
<1>1. ChainInv' /\ SpendMoves
  BY StartsFrom, ChainKept
<1>2. ProviderInv'
  BY <1>1, StartsFrom, ReturnFades, FadeStep
<1> QED BY <1>1, <1>2, Gathered

\* A call moves on without touching the chain, its reads or the provider.
LEMMA QuietStep ==
  ASSUME IInv, NEW r \in Runs, NEW x \in RunType, run' = [run EXCEPT ![r] = x],
         UNCHANGED chainVars, UNCHANGED spendVars, UNCHANGED read, run[r].pc # "sent",
         \A s \in Runs : Executed(s) => Executed(s)',
         SetupInv', ProcessInv'
  PROVE  IInv'
<1>1. ChainInv' /\ SpendMoves /\ onchainSpend(today)' = onchainSpend(today)
      /\ UNCHANGED <<balance, today>>
  BY StartsFrom, ChainKept
<1>2. Fading
  BY StartsFrom DEF Fading
<1>3. ProviderInv'
  BY <1>1, <1>2, StartsFrom, FadeStep
<1>4. CleanInv'
  <2>1. \A s \in Runs : Executed(s)' \/ CleanOK(read'[s], today', onchainSpend(today)', balance')
    BY <1>1, StartsFrom
  <2> QED BY <2>1 DEF CleanInv, CleanOK, onchainSpend
<1> QED BY <1>1, <1>3, <1>4, Gathered

-----------------------------------------------------------------------------
(* The actions *)

\* execute or check is called.
LEMMA StartStep ==
  ASSUME IInv, NEW r \in Runs, NEW call \in Calls, start(r, call)
  PROVE  IInv'
<1> DEFINE x == [NoRun EXCEPT !.pc = "gather", !.mode = call.mode, !.intent = call.intent]
<1>0. /\ run[r].pc = "idle" /\ calls < MaxCalls /\ calls' = calls + 1
      /\ run' = [run EXCEPT ![r] = x] /\ getDailySpend(r)
      /\ UNCHANGED chainVars /\ UNCHANGED spendVars /\ UNCHANGED setup
      /\ UNCHANGED <<sequence, pending, clicked, ops, nonce, published>>
  BY DEF start, At
<1>1. call.mode \in {"check", "execute"} /\ call.intent \in Intents
  BY AgentProofAssumption
<1>2. x \in RunType /\ x.pc = "gather" /\ x.id = 0 /\ x.owner = FALSE
  BY <1>1, Blanks DEF RunType, Pcs
<1> HIDE DEF x
<1>3. run[r].id = 0
  BY <1>0 DEF IInv, ProcessInv, IdInv, Decided
<1>4. /\ ChainInv' /\ onchainSpend(today)' = onchainSpend(today)
      /\ UNCHANGED <<window, balance, today>>
  BY <1>0, StartsFrom, ChainKept
<1>5. /\ ProviderInv' /\ read' \in [Runs -> ReadType]
      /\ \A s \in Runs \ {r} : read'[s] = read[s]
      /\ CleanOK(read'[r], today, onchainSpend(today), balance)
  BY <1>0, <1>4, StartsFrom, StartRead
<1>6. SetupInv' /\ ProcessInv'
  <2>1. DecidedOK(x, read'[r]) /\ HumanOK(x, clicked', approver, ledger)
    BY <1>2 DEF DecidedOK, HumanOK, Decided
  <2>2. calls' \in 0..MaxCalls /\ sequence' \in {sequence, sequence + 1}
    BY <1>0, StartsFrom
  <2>3. sequence' - sequence + (IF x.pc = "gather" THEN 1 ELSE 0)
           - (IF run[r].pc = "gather" THEN 1 ELSE 0) <= calls' - calls
    BY <1>0, <1>2, StartsFrom
  <2>4. x.pc \notin Decided /\ x.id = run[r].id /\ x.pc # "sent"
    BY <1>2, <1>3 DEF Decided
  <2>5. nonce' \in Nat /\ pending' \subseteq Ids /\ pending' \subseteq pending
        /\ run[r].pc # "sent"
    BY <1>0, StartsFrom
  <2> QED BY <1>0, <1>2, <1>5, <2>1, <2>2, <2>3, <2>4, <2>5, CallMoves
<1>7. CleanInv'
  <2>1. ASSUME NEW s \in Runs
        PROVE  Executed(s)' \/ CleanOK(read'[s], today', onchainSpend(today)', balance')
    <3>1. CASE s = r
      BY <1>4, <1>5, <3>1
    <3>2. CASE s # r
      <4>1. run'[s] = run[s] /\ read'[s] = read[s]
        BY <1>0, <1>5, <3>2, StartsFrom
      <4>2. Executed(s) => Executed(s)'
        BY <1>0, <4>1 DEF Executed
      <4> QED BY <1>4, <4>1, <4>2, StartsFrom
    <3> QED BY <3>1, <3>2
  <2> QED BY <2>1 DEF CleanInv, CleanOK, onchainSpend
<1> QED BY <1>4, <1>5, <1>6, <1>7, Gathered

\* An await of gatherState settles.
LEMMA GatherStep ==
  ASSUME IInv, NEW r \in Runs, gather(r)
  PROVE  IInv'
<1>0. /\ queryIndexedSpend(r) \/ readOnchainSpend(r) \/ (run[r].pc = "gather" /\ getBalance(r))
      /\ UNCHANGED chainVars /\ UNCHANGED setup
      /\ UNCHANGED <<run, calls, sequence, pending, clicked, ops, nonce, published>>
  BY DEF gather, At
<1>1. /\ ChainInv' /\ onchainSpend(today)' = onchainSpend(today)
      /\ UNCHANGED <<window, balance, today>>
  BY <1>0, StartsFrom, ChainKept
<1>2. /\ ProviderInv' /\ read' \in [Runs -> ReadType]
      /\ \A s \in Runs \ {r} : read'[s] = read[s]
      /\ CleanOK(read[r], today, onchainSpend(today), balance) =>
           CleanOK(read'[r], today, onchainSpend(today), balance)
  BY <1>0, StartsFrom, GatherRead
<1>3. run[r].pc \notin Decided
  <2>1. read[r].stage \in {"indexed", "onchain"} \/ run[r].pc = "gather"
    BY <1>0 DEF queryIndexedSpend, readOnchainSpend
  <2> QED BY <2>1, StartsFrom DEF DecidedOK, Decided
<1>4. \A s \in Runs : DecidedOK(run[s], read'[s])
  BY <1>2, <1>3, StartsFrom DEF DecidedOK
<1>5. SetupInv' /\ ProcessInv'
  BY <1>0, <1>4, StartsFrom, CallsKept
<1>6. CleanInv'
  <2>1. ASSUME NEW s \in Runs
        PROVE  Executed(s)' \/ CleanOK(read'[s], today', onchainSpend(today)', balance')
    <3>1. Executed(s)' = Executed(s)
      BY <1>0 DEF Executed
    <3> QED BY <1>1, <1>2, <3>1, StartsFrom
  <2> QED BY <2>1 DEF CleanInv, CleanOK, onchainSpend
<1> QED BY <1>1, <1>2, <1>5, <1>6, Gathered

\* gatherState rejects, or the executor refuses: the call throws.
LEMMA ThrowStep ==
  ASSUME IInv, NEW r \in Runs, gatherThrows(r) \/ sendThrows(r) \/ receiptThrows(r)
  PROVE  IInv'
<1>0. /\ Return(r) /\ UNCHANGED chainVars /\ UNCHANGED spendVars /\ UNCHANGED setup
      /\ UNCHANGED <<calls, sequence, pending, clicked, nonce, published>>
      /\ \/ UNCHANGED ops /\ run[r].pc # "sent"
         \/ ops' = [ops EXCEPT ![run[r].id].abandoned = TRUE] /\ run[r].pc = "sent"
  BY DEF gatherThrows, sendThrows, receiptThrows, At
<1>1. run[r].pc = "sent" => ops'[run[r].id].abandoned
  <2>1. run[r].pc = "sent" => run[r].id \in Ids
    BY StartsFrom DEF Decided
  <2> QED BY <1>0, <2>1, StartsFrom DEF OpType
<1>2. CleanInv' /\ SetupInv' /\ ProcessInv'
  BY <1>0, <1>1, StartsFrom, CallEnds
<1> QED BY <1>0, <1>2, EndStep

\* What the engine lets through without a human is below the threshold.
LEMMA AllowedIsBelow ==
  ASSUME NEW i \in Intents, NEW state, evaluateIntent(Policy, i, state).decision = "ALLOW"
  PROVE  ~(i.notional >= Policy.approvalThreshold)
<1>1. RowsDecide(policyRows(Policy, i, state)) = "ALLOW"
  BY LoopMatchesRows
<1>2. policyRows(Policy, i, state)[5].decision # "REQUIRE_APPROVAL"
  BY <1>1, RowDecisions DEF RowsDecide
<1>3. ApprovalThresholdPolicy(Policy, i) # "REQUIRE_APPROVAL"
  BY <1>2 DEF policyRows
<1>4. i.notional \in Nat /\ Policy.approvalThreshold \in Nat
  BY AgentProofAssumption, PolicyFacts
<1> QED BY <1>3, <1>4 DEF ApprovalThresholdPolicy

\* The engine decides.
LEMMA DecideStep ==
  ASSUME IInv, NEW r \in Runs, decide(r)
  PROVE  IInv'
<1> DEFINE decision == evaluateIntent(Policy, run[r].intent, stateOf(r)).decision
           id == sequence + 1
           asks == decision = "REQUIRE_APPROVAL" /\ approver # "none"
           returns == \/ run[r].mode = "check"
                      \/ ~asks /\ decision # "ALLOW"
           x == [run[r] EXCEPT !.pc = IF asks THEN "approval" ELSE "sending", !.id = id]
<1>0. /\ run[r].pc = "gather" /\ read[r].stage = "done" /\ read[r].funds = "answered"
      /\ sequence' = id
      /\ UNCHANGED chainVars /\ UNCHANGED spendVars /\ UNCHANGED setup
      /\ UNCHANGED <<calls, clicked, ops, nonce>>
  BY DEF decide, At
<1>1. CASE returns
  <2>1. Return(r) /\ published' = published \cup {id} /\ UNCHANGED pending
    BY <1>1 DEF decide, Publish
  <2>2. published' \subseteq published \cup ({sequence', run[r].id} \ {0})
        /\ published \subseteq published'
    BY <1>0, <2>1, StartsFrom
  <2>3. CleanInv' /\ SetupInv' /\ ProcessInv'
    BY <1>0, <2>1, <2>2, CallEnds
  <2> QED BY <1>0, <2>1, <2>3, EndStep
<1>2. CASE ~returns
  <2>0. /\ run' = [run EXCEPT ![r].pc = IF asks THEN "approval" ELSE "sending", ![r].id = id]
        /\ pending' = IF asks /\ approver = "dashboard" THEN pending \cup {id} ELSE pending
        /\ UNCHANGED <<published, read>>
    BY <1>2 DEF decide
  <2>1. id \in Ids /\ id <= calls
    <3>1. /\ sequence + Cardinality(Gathering(run)) <= calls /\ r \in Gathering(run)
          /\ IsFiniteSet(Gathering(run))
      BY <1>0, StateAssumption, FS_Subset DEF IInv, ProcessInv, CountInv, Gathering
    <3>2. Cardinality(Gathering(run)) \in Nat /\ Cardinality(Gathering(run)) # 0
      BY <3>1, FS_CardinalityType, FS_EmptySet
    <3> QED BY <3>1, <3>2, StartsFrom DEF Ids
  <2>2. /\ run[r].owner = FALSE /\ run[r].id = 0
        /\ \A c \in clicked : c.id <= sequence /\ c.id \in Nat
        /\ YesOf(clicked, id) = {}
    <3>1. \A c \in clicked : c.id <= sequence /\ c.id \in Nat
      BY DEF IInv, ProcessInv, IdInv, CallTypes, Ids
    <3>2. \A c \in clicked : c.id # id
      BY <3>1, StartsFrom
    <3>3. YesOf(clicked, id) = {}
      <4> HIDE DEF id
      <4> QED BY <3>2 DEF YesOf
    <3> QED BY <1>0, <3>1, <3>3 DEF IInv, ProcessInv, IdInv, Decided
  <2>3. /\ run' = [run EXCEPT ![r] = x] /\ x \in RunType /\ x.id = id
        /\ x.pc = (IF asks THEN "approval" ELSE "sending")
        /\ x.owner = FALSE /\ x.intent = run[r].intent
    BY <2>0, <2>1, <2>2, StartsFrom DEF RunType, Pcs, Ids
  <2>4. decision # "BLOCK" /\ (~asks => decision = "ALLOW")
    BY <1>2
  <2>5. stateOf(r) = [dailySpend |-> read[r].spend, balance |-> read[r].balance]
    BY DEF stateOf
  <2>6. DecidedOK(x, read'[r])
    BY <1>0, <2>0, <2>3, <2>4, <2>5 DEF DecidedOK
  <2>7. ~asks => ~(run[r].intent.notional >= Policy.approvalThreshold)
    BY <2>4, StartsFrom, AllowedIsBelow
  <2>8. HumanOK(x, clicked', approver, ledger)
    <3> HIDE DEF x, asks
    <3> QED BY <1>0, <2>2, <2>3, <2>7 DEF HumanOK, OwnerOK
  <2> HIDE DEF x, decision, asks, returns
  <2>9. x.pc \in Decided /\ x.pc # "sent" /\ x.pc # "gather"
    BY <2>3 DEF Decided
  <2>10. sequence' - sequence + (IF x.pc = "gather" THEN 1 ELSE 0)
           - (IF run[r].pc = "gather" THEN 1 ELSE 0) <= calls' - calls
    BY <1>0, <2>9, StartsFrom
  <2>11. /\ x.id \in 1..sequence' /\ sequence' \in {sequence, sequence + 1}
         /\ calls' \in 0..MaxCalls /\ nonce' \in Nat /\ run[r].pc # "sent"
         /\ x.id = sequence + 1 /\ sequence' = sequence + 1
         /\ pending' \subseteq Ids /\ (pending' \subseteq pending \/ approver = "dashboard")
    BY <1>0, <2>0, <2>1, <2>3, StartsFrom
  <2>12. SetupInv' /\ ProcessInv'
    BY <1>0, <2>0, <2>3, <2>6, <2>8, <2>9, <2>10, <2>11, CallMoves
  <2>13. \A s \in Runs : Executed(s) => Executed(s)'
    BY <1>0, <2>3, StartsFrom DEF Executed
  <2> QED BY <1>0, <2>0, <2>3, <2>11, <2>12, <2>13, QuietStep
<1> QED BY <1>1, <1>2

\* The waiting call resumes: with a yes that somebody gave, or with a no.
LEMMA OutcomeStep ==
  ASSUME IInv, NEW r \in Runs, NEW approved \in BOOLEAN, outcome(r, approved),
         run[r].pc \in {"approval", "address"},
         ~approved => UNCHANGED clicked,
         \/ UNCHANGED clicked
         \/ \E b \in {"dashboard", "console", "ledger"} :
              /\ clicked' = clicked \cup {[id |-> run[r].id, by |-> b]}
              /\ run[r].pc = "approval",
         approved => /\ YesOf(clicked', run[r].id) # {} \/ approver = "auto"
                     /\ ledger # "off" => "ledger" \in YesOf(clicked', run[r].id)
  PROVE  IInv'
<1>0. /\ pending' = pending \ {run[r].id}
      /\ UNCHANGED chainVars /\ UNCHANGED spendVars /\ UNCHANGED setup
      /\ UNCHANGED <<calls, sequence, ops, nonce>>
      /\ run[r].id \in Ids /\ run[r].id \in 1..sequence /\ run[r].pc \in Decided
      /\ run[r].pc # "sent" /\ run[r].pc # "gather"
  BY StartsFrom DEF outcome, Decided
<1>1. CASE ~approved
  <2>1. Return(r) /\ published' = published \cup {run[r].id}
    BY <1>1 DEF outcome, Publish
  <2>2. published' \subseteq published \cup ({sequence', run[r].id} \ {0})
        /\ published \subseteq published' /\ pending' \subseteq pending
    BY <1>0, <2>1
  <2>3. CleanInv' /\ SetupInv' /\ ProcessInv'
    BY <1>0, <1>1, <2>1, <2>2, CallEnds
  <2> QED BY <1>0, <2>1, <2>3, EndStep
<1>2. CASE approved
  <2> DEFINE x == [run[r] EXCEPT !.pc = "sending", !.owner = TRUE]
  <2>1. UNCHANGED <<published, read>> /\ run' = [run EXCEPT ![r] = x]
    BY <1>2, StartsFrom DEF outcome
  <2>2. /\ x \in RunType /\ x.pc = "sending" /\ x.owner = TRUE /\ x.id = run[r].id
        /\ x.intent = run[r].intent
    BY StartsFrom DEF RunType, Pcs
  <2> HIDE DEF x
  <2>3. DecidedOK(x, read'[r])
    BY <1>0, <2>1, <2>2, StartsFrom DEF DecidedOK
  <2>4. HumanOK(x, clicked', approver, ledger)
    BY <1>2, <2>2 DEF HumanOK, OwnerOK
  <2>5. sequence' - sequence + (IF x.pc = "gather" THEN 1 ELSE 0)
           - (IF run[r].pc = "gather" THEN 1 ELSE 0) <= calls' - calls
    BY <1>0, <2>2, StartsFrom
  <2>6. /\ x.pc \in Decided /\ x.id \in 1..sequence' /\ sequence' \in {sequence, sequence + 1}
        /\ calls' \in 0..MaxCalls /\ nonce' \in Nat
        /\ pending' \subseteq Ids /\ pending' \subseteq pending /\ x.pc # "sent"
    BY <1>0, <2>2, StartsFrom DEF Decided
  <2>7. SetupInv' /\ ProcessInv'
    BY <1>0, <2>1, <2>2, <2>3, <2>4, <2>5, <2>6, CallMoves
  <2>8. \A s \in Runs : Executed(s) => Executed(s)'
    BY <1>0, <2>1, <2>2, StartsFrom DEF Executed
  <2> QED BY <1>0, <2>1, <2>2, <2>7, <2>8, QuietStep
<1> QED BY <1>1, <1>2

\* Every way a human, a timer or a setting answers.
LEMMA ApprovalStep ==
  ASSUME IInv, NEW r \in Runs,
         \/ \E approved \in BOOLEAN : click(r, approved) \/ consoleAnswers(r, approved)
         \/ timeout(r) \/ autoApprove(r) \/ deviceNamesKey(r) \/ deviceDeclines(r)
  PROVE  IInv'
<1>0. ledger # "off" => approver \in {"ledger", "refused"}
  BY StartsFrom DEF SetupInv
<1>1. ASSUME NEW approved \in BOOLEAN, click(r, approved) \/ consoleAnswers(r, approved)
      PROVE  IInv'
  <2>1. approver \in {"dashboard", "console"}
    BY <1>1 DEF click, consoleAnswers, IInv, ProcessInv, IdInv
  <2>2. ledger = "off"
    BY <1>0, <2>1
  <2>3. PICK b \in {"dashboard", "console", "ledger"} :
          clicked' = IF approved THEN Yes(r, b) ELSE clicked
    BY <1>1 DEF click, consoleAnswers
  <2>4. run[r].pc = "approval" /\ outcome(r, approved)
    BY <1>1 DEF click, consoleAnswers, At
  <2>5. approved => clicked' = clicked \cup {[id |-> run[r].id, by |-> b]}
    BY <2>3 DEF Yes
  <2>6. approved => b \in YesOf(clicked', run[r].id)
    BY <2>5, YesGiven
  <2> QED BY <2>2, <2>3, <2>4, <2>5, <2>6, OutcomeStep
<1>2. CASE timeout(r)
  <2>1. /\ run[r].pc \in {"approval", "address"} /\ UNCHANGED clicked /\ outcome(r, FALSE)
    BY <1>2 DEF timeout, timerFires, At
  <2> QED BY <2>1, OutcomeStep
<1>3. CASE autoApprove(r)
  <2>1. /\ run[r].pc \in {"approval", "address"} /\ UNCHANGED clicked /\ outcome(r, TRUE)
        /\ approver = "auto"
    BY <1>3 DEF autoApprove, At
  <2> QED BY <1>0, <2>1, OutcomeStep
<1>4. CASE deviceNamesKey(r)
  <2>1. /\ run[r].pc = "address" /\ UNCHANGED clicked /\ outcome(r, TRUE)
    BY <1>4 DEF deviceNamesKey, At
  <2>2. "ledger" \in YesOf(clicked, run[r].id)
    BY <2>1, StartsFrom DEF HumanOK
  <2> QED BY <2>1, <2>2, OutcomeStep
<1>5. CASE deviceDeclines(r)
  <2>1. /\ run[r].pc \in {"approval", "address"} /\ UNCHANGED clicked /\ outcome(r, FALSE)
    BY <1>5 DEF deviceDeclines, At
  <2> QED BY <2>1, OutcomeStep
<1> QED BY <1>1, <1>2, <1>3, <1>4, <1>5

\* The device has signed; its address is still to come.
LEMMA ConfirmStep ==
  ASSUME IInv, NEW r \in Runs, deviceConfirms(r)
  PROVE  IInv'
<1> DEFINE x == [run[r] EXCEPT !.pc = "address"]
<1>0. /\ run[r].pc = "approval" /\ UNCHANGED chainVars /\ UNCHANGED spendVars /\ UNCHANGED setup
      /\ UNCHANGED <<calls, sequence, pending, ops, nonce, published, read>>
      /\ clicked' = clicked \cup {[id |-> run[r].id, by |-> "ledger"]}
      /\ run' = [run EXCEPT ![r] = x]
  BY StartsFrom DEF deviceConfirms, At, Yes, Goto, providerVars
<1>1. /\ x \in RunType /\ x.pc = "address" /\ x.id = run[r].id /\ x.intent = run[r].intent
  BY StartsFrom DEF RunType, Pcs
<1> HIDE DEF x
<1>2. run[r].id \in 1..sequence /\ run[r].pc \in Decided
  BY <1>0, StartsFrom DEF Decided
<1>3. DecidedOK(x, read'[r])
  BY <1>0, <1>1, <1>2, StartsFrom DEF DecidedOK
<1>4. HumanOK(x, clicked', approver, ledger)
  <2>1. "ledger" \in YesOf(clicked', run[r].id)
    BY <1>0, YesGiven
  <2> QED BY <1>1, <2>1 DEF HumanOK
<1>5. sequence' - sequence + (IF x.pc = "gather" THEN 1 ELSE 0)
         - (IF run[r].pc = "gather" THEN 1 ELSE 0) <= calls' - calls
  BY <1>0, <1>1, StartsFrom
<1>6. /\ x.pc \in Decided /\ x.id \in 1..sequence' /\ sequence' \in {sequence, sequence + 1}
      /\ calls' \in 0..MaxCalls /\ nonce' \in Nat
      /\ pending' \subseteq Ids /\ pending' \subseteq pending /\ x.pc # "sent"
      /\ run[r].pc # "sent"
  BY <1>0, <1>1, <1>2, StartsFrom DEF Decided
<1>7. SetupInv' /\ ProcessInv'
  BY <1>0, <1>1, <1>3, <1>4, <1>5, <1>6, CallMoves
<1>8. \A s \in Runs : Executed(s) => Executed(s)'
  BY <1>0, <1>1, StartsFrom DEF Executed
<1> QED BY <1>0, <1>1, <1>6, <1>7, <1>8, QuietStep

\* A call hands its operation to the executor.
LEMMA SendCall ==
  ASSUME IInv, NEW r \in Runs, NEW status \in {"pooled", "mined"}, run[r].pc = "sending",
         ops' = [ops EXCEPT ![run[r].id] = Op(r, status)], Goto(r, "sent"),
         nonce' \in Nat, UNCHANGED setup,
         UNCHANGED <<calls, sequence, pending, clicked, published>>,
         read'[r] = read[r],
         \A s \in Runs \ {r} : read'[s] \in {read[s], [read[s] EXCEPT !.clean = FALSE]}
  PROVE  /\ SetupInv' /\ ProcessInv'
         /\ run'[r].pc = "sent" /\ ops'[run'[r].id].status = status
         /\ \A s \in Runs : Executed(s) => Executed(s)'
<1> DEFINE x == [run[r] EXCEPT !.pc = "sent"]
           y == Op(r, status)
<1>1. /\ x \in RunType /\ x.pc = "sent" /\ x.id = run[r].id /\ x.intent = run[r].intent
      /\ run' = [run EXCEPT ![r] = x]
  BY StartsFrom DEF RunType, Pcs, Goto
<1>2. /\ y \in OpType /\ y.owner = run[r].owner /\ y.intent = run[r].intent
      /\ y.status = status
  BY StartsFrom DEF Op, OpType, RunType
<1> HIDE DEF x, y
<1>3. run[r].id \in 1..sequence /\ run[r].id \in Ids /\ run[r].id # 0
  BY StartsFrom DEF Decided, Ids
<1>4. DecidedOK(x, read'[r])
  BY <1>1, StartsFrom DEF DecidedOK, Decided
<1>5. HumanOK(x, clicked', approver, ledger)
  BY <1>1 DEF HumanOK
<1>6. sequence' - sequence + (IF x.pc = "gather" THEN 1 ELSE 0)
         - (IF run[r].pc = "gather" THEN 1 ELSE 0) <= calls' - calls
  BY <1>1, StartsFrom
<1>7. /\ x.pc \in Decided /\ x.id \in 1..sequence' /\ sequence' \in {sequence, sequence + 1}
      /\ calls' \in 0..MaxCalls
      /\ pending' \subseteq Ids /\ pending' \subseteq pending
      /\ run[r].pc # "sent"
  BY <1>1, <1>3, StartsFrom DEF Decided
<1>8. ops' = [ops EXCEPT ![x.id] = y]
  BY <1>1 DEF y
<1>9. SetupInv' /\ ProcessInv'
  BY <1>1, <1>2, <1>4, <1>5, <1>6, <1>7, <1>8, CallMoves
<1>10. run'[r].pc = "sent" /\ ops'[run'[r].id].status = status
  BY <1>1, <1>2, <1>3, <1>8, StartsFrom
<1>11. ASSUME NEW s \in Runs, Executed(s) PROVE Executed(s)'
  <2>1. run[s].pc = "sent" /\ run[s].id \in Ids /\ s # r /\ run[s].id # run[r].id
    BY <1>3, <1>11, StartsFrom DEF Executed, Decided, Ids
  <2>2. run'[s] = run[s] /\ ops'[run[s].id] = ops[run[s].id]
    BY <1>1, <2>1, StartsFrom
  <2> QED BY <1>11, <2>1, <2>2 DEF Executed
<1> QED BY <1>9, <1>10, <1>11

\* The simulated account executes within the call.
LEMMA SimulatedStep ==
  ASSUME IInv, NEW r \in Runs, sendSimulated(r)
  PROVE  IInv'
<1>0. /\ run[r].pc = "sending" /\ hookAllows(run[r].intent) /\ Settle(run[r].intent)
      /\ ops' = [ops EXCEPT ![run[r].id] = Op(r, "mined")] /\ nonce' = nonce + 1
      /\ Goto(r, "sent") /\ UNCHANGED spendVars /\ UNCHANGED setup
      /\ UNCHANGED <<calls, sequence, pending, clicked, published>>
      /\ read' = [s \in Runs |-> IF s \in {r} THEN read[s]
                                 ELSE [read[s] EXCEPT !.clean = FALSE]]
  BY DEF sendSimulated, At, Unclean
<1>1. ChainInv' /\ SpendMoves
  BY <1>0, StartsFrom, SettleStep DEF SpendMoves
<1>2. /\ Fading /\ read'[r] = read[r]
      /\ \A s \in Runs \ {r} : /\ read'[s] \in {read[s], [read[s] EXCEPT !.clean = FALSE]}
                               /\ read'[s].clean = FALSE
  <2> DEFINE S == {r}
  <2>3. r \in S /\ \A s \in Runs \ {r} : s \notin S
    OBVIOUS
  <2>4. read' = [s \in Runs |-> IF s \in S THEN read[s] ELSE [read[s] EXCEPT !.clean = FALSE]]
    BY <1>0
  <2> HIDE DEF S
  <2> QED BY <2>3, <2>4, StartsFrom, OvertakenFades
<1>3. ProviderInv'
  BY <1>0, <1>1, <1>2, StartsFrom, FadeStep
<1>4. nonce' \in Nat
  BY <1>0, StartsFrom
<1>5. /\ SetupInv' /\ ProcessInv'
      /\ run'[r].pc = "sent" /\ ops'[run'[r].id].status = "mined"
  BY <1>0, <1>2, <1>4, SendCall
<1>6. CleanInv'
  <2>1. ASSUME NEW s \in Runs
        PROVE  Executed(s)' \/ CleanOK(read'[s], today', onchainSpend(today)', balance')
    <3>1. CASE s = r
      BY <1>5, <3>1 DEF Executed
    <3>2. CASE s # r
      BY <1>2, <3>2 DEF CleanOK
    <3> QED BY <3>1, <3>2
  <2> QED BY <2>1 DEF CleanInv, CleanOK, onchainSpend
<1> QED BY <1>1, <1>3, <1>5, <1>6, Gathered

\* A bundler or an EOA signer takes the operation.
LEMMA SubmitStep ==
  ASSUME IInv, NEW r \in Runs, submit(r)
  PROVE  IInv'
<1>0. /\ run[r].pc = "sending"
      /\ ops' = [ops EXCEPT ![run[r].id] = Op(r, "pooled")]
      /\ Goto(r, "sent") /\ UNCHANGED chainVars /\ UNCHANGED spendVars /\ UNCHANGED setup
      /\ UNCHANGED <<calls, sequence, pending, clicked, published, nonce, read>>
  BY DEF submit, At, providerVars
<1>1. /\ SetupInv' /\ ProcessInv' /\ \A s \in Runs : Executed(s) => Executed(s)'
  BY <1>0, StartsFrom, SendCall
<1> DEFINE x == [run[r] EXCEPT !.pc = "sent"]
<1>2. x \in RunType /\ run' = [run EXCEPT ![r] = x]
  BY <1>0, StartsFrom DEF RunType, Pcs, Goto
<1> HIDE DEF x
<1> QED BY <1>0, <1>1, <1>2, QuietStep

\* A pooled operation is included, or reverts.
LEMMA MineStep ==
  ASSUME IInv, NEW id \in Ids, mine(id)
  PROVE  IInv'
<1>0. /\ ops[id].status = "pooled" /\ nonce' = nonce + 1 /\ nonce' \in Nat
      /\ UNCHANGED spendVars /\ UNCHANGED setup
      /\ UNCHANGED <<run, calls, sequence, pending, clicked, published>>
  BY StartsFrom DEF mine
<1>1. ASSUME NEW status \in {"mined", "reverted"}, ops' = [ops EXCEPT ![id].status = status]
      PROVE  /\ ops' \in [Ids -> OpType] /\ ops'[id].status = status
             /\ \A k \in Ids :
                  \/ ops'[k] = ops[k]
                  \/ /\ ops[k].status = "pooled" /\ ops'[k].status # "none"
                     /\ ops'[k].owner = ops[k].owner
                     /\ ops'[k].intent = ops[k].intent
                     /\ ops'[k].abandoned = ops[k].abandoned
  <2>1. ops[id] \in OpType /\ ops \in [Ids -> OpType]
    BY StartsFrom
  <2>2. /\ [ops[id] EXCEPT !.status = status] \in OpType
        /\ [ops[id] EXCEPT !.status = status].status = status
        /\ [ops[id] EXCEPT !.status = status].owner = ops[id].owner
        /\ [ops[id] EXCEPT !.status = status].intent = ops[id].intent
        /\ [ops[id] EXCEPT !.status = status].abandoned = ops[id].abandoned
    BY <2>1 DEF OpType
  <2>3. ops'[id] = [ops[id] EXCEPT !.status = status] /\ \A k \in Ids \ {id} : ops'[k] = ops[k]
    BY <1>1, <2>1
  <2>4. ops' \in [Ids -> OpType]
    BY <1>1, <2>1, <2>2
  <2> QED BY <1>0, <2>2, <2>3, <2>4
<1>2. CASE /\ hookAllows(ops[id].intent) /\ Settle(ops[id].intent)
           /\ ops' = [ops EXCEPT ![id].status = "mined"]
           /\ read' = [r \in Runs |-> IF run[r].id = id THEN read[r]
                                      ELSE [read[r] EXCEPT !.clean = FALSE]]
  <2> DEFINE S == {r \in Runs : run[r].id = id}
  <2>0. ops[id].intent \in Intents
    BY StartsFrom DEF OpType
  <2>1. ChainInv' /\ SpendMoves
    BY <1>2, <2>0, StartsFrom, SettleStep DEF SpendMoves
  <2>2. /\ Fading
        /\ \A r \in Runs : /\ r \notin S => read'[r].clean = FALSE
                           /\ DecidedOK(run[r], read[r]) => DecidedOK(run[r], read'[r])
    <3>1. read' = [r \in Runs |-> IF r \in S THEN read[r]
                                  ELSE [read[r] EXCEPT !.clean = FALSE]]
      BY <1>2
    <3> HIDE DEF S
    <3> QED BY <3>1, StartsFrom, OvertakenFades
  <2>3. ProviderInv'
    BY <1>0, <2>1, <2>2, StartsFrom, FadeStep
  <2>4. \A r \in Runs : DecidedOK(run[r], read'[r])
    BY <2>2, StartsFrom
  <2>5. SetupInv' /\ ProcessInv'
    BY <1>0, <1>1, <1>2, <2>4, CallsKept
  <2>6. CleanInv'
    <3>1. ASSUME NEW s \in Runs
          PROVE  Executed(s)' \/ CleanOK(read'[s], today', onchainSpend(today)', balance')
      <4>1. CASE run[s].id = id
        <5>1. run[s].pc \in Decided
          BY <4>1 DEF IInv, ProcessInv, IdInv, Ids
        <5>2. run[s].pc = "sent"
          BY <1>0, <4>1, <5>1 DEF IInv, ProcessInv, IdInv, Decided
        <5> QED BY <1>0, <1>1, <1>2, <4>1, <5>2 DEF Executed
      <4>2. CASE run[s].id # id
        BY <2>2, <4>2 DEF CleanOK
      <4> QED BY <4>1, <4>2
    <3> QED BY <3>1 DEF CleanInv, CleanOK, onchainSpend
  <2> QED BY <2>1, <2>3, <2>5, <2>6, Gathered
<1>3. CASE /\ ops' = [ops EXCEPT ![id].status = "reverted"]
           /\ UNCHANGED <<chainVars, read>>
  <2>1. /\ ChainInv' /\ SpendMoves /\ onchainSpend(today)' = onchainSpend(today)
        /\ UNCHANGED <<balance, today>>
    BY <1>3, StartsFrom, ChainKept
  <2>2. Fading
    BY <1>3, StartsFrom DEF Fading
  <2>3. ProviderInv'
    BY <1>0, <2>1, <2>2, StartsFrom, FadeStep
  <2>4. SetupInv' /\ ProcessInv'
    BY <1>0, <1>1, <1>3, StartsFrom, CallsKept
  <2>5. CleanInv'
    <3>1. ASSUME NEW s \in Runs
          PROVE  Executed(s)' \/ CleanOK(read'[s], today', onchainSpend(today)', balance')
      <4>1. Executed(s) => Executed(s)'
        <5>1. run[s].pc = "sent" => run[s].id \in Ids
          BY StartsFrom DEF Decided
        <5> QED BY <1>0, <1>1, <1>3, <5>1 DEF Executed
      <4> QED BY <1>3, <2>1, <4>1, StartsFrom
    <3> QED BY <3>1 DEF CleanInv, CleanOK, onchainSpend
  <2> QED BY <2>1, <2>3, <2>4, <2>5, Gathered
<1> QED BY <1>2, <1>3 DEF mine

\* The transaction hash arrives.
LEMMA FinishStep ==
  ASSUME IInv, NEW r \in Runs, finish(r)
  PROVE  IInv'
<1>0. /\ run[r].pc = "sent" /\ recordExecution /\ Return(r)
      /\ published' = published \cup {run[r].id}
      /\ UNCHANGED chainVars /\ UNCHANGED setup
      /\ UNCHANGED <<calls, sequence, pending, clicked, ops, nonce>>
  BY DEF finish, publishExecuted, Publish, At
<1>1. run[r].id \in 1..sequence
  BY <1>0, StartsFrom DEF Decided
<1>2. published' \subseteq published \cup ({sequence', run[r].id} \ {0})
      /\ published \subseteq published' /\ run[r].id \in published'
  BY <1>0, <1>1
<1>3. CleanInv' /\ SetupInv' /\ ProcessInv'
  BY <1>0, <1>2, CallEnds
<1>4. ProviderInv' /\ ChainInv'
  BY <1>0, StartsFrom, RecordStep, ChainKept
<1> QED BY <1>3, <1>4, Gathered

\* Others use the account, midnight passes, an entry expires, the indexer
\* catches up, or nothing happens.
LEMMA WorldStep ==
  ASSUME IInv, (\E i \in Outside : bypass(i)) \/ nextDay \/ background \/ UNCHANGED vars
  PROVE  IInv'
<1>0. /\ UNCHANGED <<run, calls, sequence, pending, clicked, ops, nonce, published>>
      /\ UNCHANGED setup
  BY DEF bypass, nextDay, background, vars
<1>1. CASE (\E i \in Outside : bypass(i)) \/ nextDay
  <2>1. ChainInv' /\ SpendMoves
    <3>1. CASE nextDay
      BY <3>1, StartsFrom, DayStep DEF SpendMoves
    <3>2. CASE \E i \in Outside : bypass(i)
      <4>1. PICK i \in Intents : hookAllows(i) /\ Settle(i)
        BY <3>2, AgentProofAssumption DEF bypass
      <4> QED BY <4>1, StartsFrom, SettleStep DEF SpendMoves
    <3> QED BY <1>1, <3>1, <3>2
  <2> DEFINE S == {}
  <2>2. /\ read' = [r \in Runs |-> IF r \in S THEN read[r]
                                   ELSE [read[r] EXCEPT !.clean = FALSE]]
        /\ UNCHANGED spendVars /\ \A r \in Runs : r \notin S
    BY <1>1 DEF bypass, nextDay
  <2> HIDE DEF S
  <2>3. /\ Fading
        /\ \A r \in Runs : /\ read'[r].clean = FALSE
                           /\ DecidedOK(run[r], read[r]) => DecidedOK(run[r], read'[r])
    BY <2>2, StartsFrom, OvertakenFades
  <2>4. ProviderInv'
    BY <2>1, <2>2, <2>3, StartsFrom, FadeStep
  <2>5. \A r \in Runs : DecidedOK(run[r], read'[r])
    BY <2>3, StartsFrom
  <2>6. SetupInv' /\ ProcessInv'
    BY <1>0, <2>5, StartsFrom, CallsKept
  <2>7. CleanInv'
    BY <2>3 DEF CleanInv, CleanOK
  <2> QED BY <2>1, <2>4, <2>6, <2>7, Gathered
<1>2. CASE background \/ UNCHANGED vars
  <2>1. UNCHANGED chainVars
    BY <1>2 DEF background, vars
  <2>2. /\ ChainInv' /\ SpendMoves /\ onchainSpend(today)' = onchainSpend(today)
        /\ UNCHANGED <<balance, today>>
    BY <2>1, StartsFrom, ChainKept
  <2>3. ProviderInv' /\ UNCHANGED read
    <3>1. CASE background
      BY <3>1, StartsFrom, BackgroundStep
    <3>2. CASE UNCHANGED vars
      <4>1. UNCHANGED spendVars /\ UNCHANGED read
        BY <3>2 DEF vars, providerVars
      <4>2. Fading
        BY <4>1, StartsFrom DEF Fading
      <4> QED BY <2>2, <4>1, <4>2, StartsFrom, FadeStep
    <3> QED BY <1>2, <3>1, <3>2
  <2>4. SetupInv' /\ ProcessInv'
    BY <1>0, <2>3, StartsFrom, CallsKept
  <2>5. CleanInv'
    <3>1. ASSUME NEW s \in Runs
          PROVE  Executed(s)' \/ CleanOK(read'[s], today', onchainSpend(today)', balance')
      <4>1. Executed(s) => Executed(s)'
        BY <1>0 DEF Executed
      <4> QED BY <2>2, <2>3, <4>1, StartsFrom
    <3> QED BY <3>1 DEF CleanInv, CleanOK, onchainSpend
  <2> QED BY <2>2, <2>3, <2>4, <2>5, Gathered
<1> QED BY <1>1, <1>2

-----------------------------------------------------------------------------
(* The theorems *)

\* A process starts idle: nothing asked, decided, sent or known.
LEMMA AgentInit == Init => IInv
<1> SUFFICES ASSUME Init PROVE IInv
  OBVIOUS
<1>0. /\ run = [r \in Runs |-> NoRun] /\ ops = [id \in Ids |-> NoOp]
      /\ calls = 0 /\ sequence = 0 /\ pending = {} /\ clicked = {}
      /\ nonce = 0 /\ published = {}
      /\ \E opening \in Opening : InitState(opening)
  BY DEF Init
<1>1. /\ window = ZeroWindow /\ balance \in Opening /\ today = 1
      /\ dayTotal = [d \in Days |-> 0] /\ indexed = [d \in Days |-> 0]
      /\ cache = [d \in Days |-> {}] /\ read = [r \in Runs |-> NoRead]
      /\ recorded = [d \in Days |-> 0] /\ chainDown = FALSE
  BY <1>0 DEF InitState
<1>2. SetupInv
  <2>1. /\ executor \in Executors /\ ledger \in Ledgers
        /\ \E fallback \in Approvers : approver = selectApprover(ledger, fallback)
    BY DEF Init
  <2> QED BY <2>1 DEF SetupInv, selectApprover, createLedgerTransport
<1>3. ChainInv
  BY <1>1, PolicyFacts, AgentProofAssumption DEF ChainInv, ZeroWindow, Window, Day
<1>4. ProviderTypes /\ CacheInv
  <2>1. ProviderTypes
    BY <1>1, PolicyFacts, Blanks DEF ProviderTypes
  <2>2. onchainSpend(today) \in Nat /\ today \in Days
    BY <1>3, SpendType
  <2>3. \A d \in Days : recorded[d] = 0 /\ cache[d] = {}
    BY <1>1
  <2> QED BY <2>1, <2>2, <2>3 DEF CacheInv
<1>5. ReadInv /\ CleanInv
  BY <1>1, Blanks DEF ReadInv, ReadOK, CleanInv, CleanOK
<1>6. MaxCalls \in Nat
  BY AgentProofAssumption
<1>7. CallTypes
  BY <1>0, <1>6, Blanks DEF CallTypes
<1>8. CountInv
  <2>1. Gathering(run) = {}
    BY <1>0, Blanks DEF Gathering
  <2> QED BY <1>0, <2>1, FS_EmptySet DEF CountInv
<1>9. IdInv /\ DecidedInv /\ HumanInv /\ ReportInv
  BY <1>0, Blanks DEF IdInv, DecidedInv, DecidedOK, HumanInv, HumanOK, ReportInv, Decided
<1> QED BY <1>2, <1>3, <1>4, <1>5, <1>7, <1>8, <1>9 DEF IInv, StateInv, ProcessInv

\* The whole inductive invariant holds however the calls, the human, the
\* bundler, the subgraph and the chain interleave (AgentProof.execute).
THEOREM AgentInductive == Spec => []IInv
<1>1. IInv /\ [Next]_vars => IInv'
  <2> SUFFICES ASSUME IInv, [Next]_vars PROVE IInv'
    OBVIOUS
  <2>1. CASE \E r \in Runs, call \in Calls : start(r, call)
    BY <2>1, StartStep
  <2>2. ASSUME NEW r \in Runs, progress(r) PROVE IInv'
    BY <2>2, GatherStep, ThrowStep, DecideStep, ApprovalStep, SimulatedStep, SubmitStep,
       FinishStep DEF progress
  <2>3. ASSUME NEW r \in Runs, NEW approved \in BOOLEAN,
               click(r, approved) \/ consoleAnswers(r, approved)
        PROVE  IInv'
    BY <2>3, ApprovalStep
  <2>4. ASSUME NEW r \in Runs, deviceConfirms(r) \/ deviceDeclines(r) PROVE IInv'
    BY <2>4, ConfirmStep, ApprovalStep
  <2>5. CASE \E id \in Ids : mine(id)
    BY <2>5, MineStep
  <2> QED BY <2>1, <2>2, <2>3, <2>4, <2>5, WorldStep DEF Next
<1> QED BY <1>1, AgentInit, PTL DEF Spec

\* Every variable stays in its range, and a gathered spend is never above the
\* daily limit, whichever sources answered (GraphStateProvider.reconcile).
THEOREM AgentTypeCorrect == Spec => []TypeOK
<1>1. IInv => TypeOK
  <2> SUFFICES ASSUME IInv PROVE TypeOK
    OBVIOUS
  <2>1. Known \subseteq {{}} \cup {{v} : v \in Uint} /\ Known \subseteq SUBSET Uint
    BY PolicyFacts DEF Known
  <2>2. \A x \in ReadType :
          /\ x \in [stage: Stages, day: Days, indexed: SUBSET Uint,
                    spend: Uint, funds: {"none", "asked", "answered"},
                    balance: Uint, atLeast: Uint, clean: BOOLEAN]
          /\ x.spend <= Policy.dailySpend
    <3> SUFFICES ASSUME NEW x \in ReadType
                 PROVE  /\ x \in [stage: Stages, day: Days, indexed: SUBSET Uint,
                                  spend: Uint, funds: {"none", "asked", "answered"},
                                  balance: Uint, atLeast: Uint, clean: BOOLEAN]
                        /\ x.spend <= Policy.dailySpend
      OBVIOUS
    <3>1. x.indexed \in SUBSET Uint /\ x.spend \in Uint /\ x.atLeast \in Uint
          /\ x.spend \in Budget
      BY <2>1, PolicyFacts DEF ReadType
    <3>2. x.spend <= Policy.dailySpend
      BY <3>1, PolicyFacts DEF Budget
    <3> QED BY <3>1, <3>2 DEF ReadType
  <2>3. StateTypeOK
    <3>1. ChainInv /\ ProviderTypes
      BY DEF IInv, StateInv
    <3> QED BY <2>1, <2>2, <3>1, PolicyFacts DEF ChainInv, ProviderTypes, StateTypeOK
  <2>4. \A r \in Runs : read[r].spend <= Policy.dailySpend
    BY <2>2, StartsFrom
  <2>5. SetupInv /\ CallTypes
    BY DEF IInv, StateInv, ProcessInv
  <2> QED BY <2>3, <2>4, <2>5 DEF TypeOK, SetupInv, CallTypes, RunType, OpType
<1> QED BY <1>1, AgentInductive, PTL

\* A read begun after an execution was recorded counts it, cached or not, as
\* long as the chain answers, the day lasts and no other read was under way
\* when the cache was dropped (GraphStateProvider.recordExecution), for any
\* number of callers and days.
THEOREM ReadReflectsRecordedHolds == Spec => []ReadReflectsRecorded
<1>1. IInv => ReadReflectsRecorded
  <2> SUFFICES ASSUME IInv, ~chainDown, NEW r \in Runs,
                      read[r].stage = "done", read[r].day = today
               PROVE  read[r].spend >= read[r].atLeast
    BY DEF ReadReflectsRecorded
  <2>1. read[r].atLeast <= read[r].spend
    BY DEF IInv, StateInv, ReadInv, ReadOK
  <2>2. read[r].atLeast \in Nat /\ read[r].spend \in Nat
    BY StartsFrom, PolicyFacts DEF ReadType
  <2> QED BY <2>1, <2>2
<1> QED BY <1>1, AgentInductive, PTL

\* Every operation at or above the threshold went out under the owner's key
\* after a human said yes to that very decision, and from the Ledger where one
\* was asked for; only auto-approval asks nobody (seekApproval, selectApprover).
THEOREM EscalationNeedsHumanHolds == Spec => []EscalationNeedsHuman
<1>1. IInv => EscalationNeedsHuman
  <2> SUFFICES ASSUME IInv, NEW id \in Ids, ops[id].status # "none"
               PROVE  LET yes == {c.by : c \in {y \in clicked : y.id = id}} IN
                      /\ ops[id].owner => yes # {} \/ approver = "auto"
                      /\ yes # {} => ops[id].owner
                      /\ ops[id].owner /\ ledger # "off" => "ledger" \in yes
                      /\ ops[id].intent.notional >= Policy.approvalThreshold => ops[id].owner
    BY DEF EscalationNeedsHuman
  <2>1. OwnerOK(id, ops[id].owner, ops[id].intent, clicked, approver, ledger)
    BY DEF IInv, ProcessInv, HumanInv
  <2> QED BY <2>1 DEF OwnerOK, YesOf
<1> QED BY <1>1, AgentInductive, PTL

\* An operation that reached the chain is published by the call that sent it,
\* unless that call still waits or threw for want of a receipt (execute's last
\* lines, BundlerExecutor.waitForReceipt).
THEOREM MinedIsPublishedHolds == Spec => []MinedIsPublished
<1>1. IInv => MinedIsPublished
  BY DEF IInv, ProcessInv, ReportInv, MinedIsPublished, At
<1> QED BY <1>1, AgentInductive, PTL

\* What the engine does not block on a state the chain still has, the hook
\* executes, if the figure the limits were compared with covers what moves and
\* the hook was installed with the policy's contracts and recipients.
LEMMA HookAgrees ==
  ASSUME ChainInv, NEW i \in Intents, i.moved <= i.notional, i.movesValue,
         contractsOf(Policy) \cup Policy.allowedRecipients \subseteq Installed,
         NEW spend \in Nat, onchainSpend(today) <= spend,
         evaluateIntent(Policy, i, [dailySpend |-> spend, balance |-> balance]).decision
           # "BLOCK"
  PROVE  hookAllows(i)
<1> DEFINE state == [dailySpend |-> spend, balance |-> balance]
<1>0. /\ window \in Window /\ balance \in Nat /\ today \in Day
      /\ window.day <= today /\ i.moved \in Uint /\ i.notional \in Nat
      /\ Policy.maxTransaction \in Uint /\ Policy.dailySpend \in Uint
      /\ Policy.minBalance \in Uint /\ i.moved \in Nat /\ Policy.minBalance \in Nat
  BY PolicyFacts, AgentProofAssumption DEF ChainInv, Day
<1>1. base(window, today) <= spend
  BY DEF onchainSpend, base
<1>2. /\ evaluate(window, hookLimits, i.moved, today).decision = "Allow"
      /\ balance - i.moved >= Policy.minBalance
  BY <1>0, <1>1, EngineNoLaxerThanHook DEF hookLimits
<1>3. AllowlistPolicy(Policy, i) # "BLOCK"
  <2>1. policyRows(Policy, i, state)[1].decision # "BLOCK"
    BY LoopMatchesRows, RowDecisions DEF RowsDecide
  <2> QED BY <2>1 DEF policyRows
<1>4. /\ i.target \in contractsOf(Policy)
      /\ i.counterparty \subseteq Policy.allowedRecipients \cup contractsOf(Policy)
  BY <1>3 DEF AllowlistPolicy
<1> QED BY <1>0, <1>2, <1>4 DEF hookAllows, applySpendReverts

\* The two layers agree: a value-moving action the engine let through on state
\* read from the chain is not refused by the hook if nothing else happened on
\* the chain since ("assert the two never disagree", SimulatedAccount.ts), for
\* every policy whose contracts and recipients the hook was installed with and
\* all intents whose notional covers what they move.
THEOREM AllowedIsExecutableHolds ==
  ASSUME \A i \in Intents : i.moved <= i.notional,
         contractsOf(Policy) \cup Policy.allowedRecipients \subseteq Installed
  PROVE  Spec => []AllowedIsExecutable
<1>1. IInv => AllowedIsExecutable
  <2> SUFFICES ASSUME IInv, NEW r \in Runs, run[r].pc \in {"sending", "sent"},
                      read[r].clean, run[r].intent.movesValue,
                      run[r].pc = "sent" => ops[run[r].id].status = "pooled"
               PROVE  hookAllows(run[r].intent)
    BY DEF AllowedIsExecutable
  <2>1. /\ run[r].pc \in Decided /\ ~Executed(r) /\ ChainInv
        /\ read[r] \in ReadType /\ run[r].intent \in Intents
        /\ DecidedOK(run[r], read[r])
        /\ CleanOK(read[r], today, onchainSpend(today), balance)
    BY StartsFrom DEF Decided, Executed
  <2>2. /\ read[r].stage = "done" /\ read[r].funds = "answered"
        /\ evaluateIntent(Policy, run[r].intent,
             [dailySpend |-> read[r].spend, balance |-> read[r].balance]).decision # "BLOCK"
    BY <2>1 DEF DecidedOK
  <2>3. /\ onchainSpend(today) <= read[r].spend /\ read[r].balance = balance
        /\ read[r].spend \in Nat
    BY <2>1, <2>2, PolicyFacts DEF CleanOK, ReadType
  <2> QED BY <2>1, <2>2, <2>3, HookAgrees
<1> QED BY <1>1, AgentInductive, PTL

-----------------------------------------------------------------------------
(* What the decoders tell the engine *)

\* A set of numbers that is not empty has a least one.
LEMMA LeastNumber ==
  ASSUME NEW S, S \subseteq Nat, S # {}
  PROVE  \E i \in S : \A j \in S : i <= j
<1>1. PICK x \in S : \A y \in S : ~(<<y, x>> \in OpToRel(<, Nat))
  BY NatLessThanWellFounded, WFMin, Zenon
<1>2. \A y \in S : (<<y, x>> \in OpToRel(<, Nat)) = (y < x)
  BY DEF OpToRel
<1>3. \A y \in S : ~(y < x)
  BY <1>1, <1>2, Zenon
<1> QED BY <1>3

\* f is what an accumulator over S that starts at b goes through, if step[n] is
\* what the n-th of N elements does to it.
Steps(S, N) == [1..N -> [S -> S]]
IsFold(f, S, b, N, step) ==
  f \in [0..N -> S] /\ f[0] = b /\ \A n \in 1..N : f[n] = step[n][f[n - 1]]

\* Going through a sequence with an accumulator is well defined.
LEMMA FoldExists ==
  ASSUME NEW S, NEW b \in S, NEW N \in Nat, NEW step \in Steps(S, N)
  PROVE  \E f : IsFold(f, S, b, N, step)
<1> USE DEF Steps, IsFold
<1> DEFINE Folds(m) == \E f \in [0..m -> S] :
                         f[0] = b /\ \A n \in 1..m : f[n] = step[n][f[n - 1]]
           bad == {m \in 0..N : ~Folds(m)}
<1> SUFFICES ASSUME bad # {} PROVE FALSE
  <2>1. ASSUME bad = {} PROVE Folds(N)
    BY <2>1
  <2> QED BY <2>1
<1> HIDE DEF Folds
<1>0. /\ bad \subseteq Nat
      /\ \A j : j \in bad <=> j \in 0..N /\ ~Folds(j)
  <2>1. bad \subseteq 0..N
    OBVIOUS
  <2>2. \A j : j \in bad <=> j \in 0..N /\ ~Folds(j)
    BY Zenon
  <2> HIDE DEF bad
  <2> QED BY <2>1, <2>2
<1> HIDE DEF bad
<1>1. PICK m \in bad : \A j \in bad : m <= j
  BY <1>0, LeastNumber
<1>2. Folds(0)
  <2> DEFINE one == [i \in 0..0 |-> b]
  <2>1. one \in [0..0 -> S] /\ one[0] = b
    OBVIOUS
  <2>2. 1..0 = {}
    OBVIOUS
  <2> HIDE DEF one
  <2> QED BY <2>1, <2>2 DEF Folds
<1>3. m \in 1..N /\ m - 1 \in 0..N /\ m - 1 \notin bad
  <2>1. m \in 0..N /\ m # 0
    BY <1>0, <1>1, <1>2
  <2>2. ~(m <= m - 1)
    BY <2>1
  <2> QED BY <1>1, <2>1, <2>2
<1>4. PICK f \in [0..(m - 1) -> S] :
        f[0] = b /\ \A n \in 1..(m - 1) : f[n] = step[n][f[n - 1]]
  BY <1>0, <1>3 DEF Folds
<1> DEFINE g == [i \in 0..m |-> IF i = m THEN step[m][f[m - 1]] ELSE f[i]]
<1>5. f[m - 1] \in S
  BY <1>3, <1>4
<1>6. step[m] \in [S -> S]
  BY <1>3
<1>7. step[m][f[m - 1]] \in S
  BY <1>5, <1>6
<1>8. ASSUME NEW i \in 0..m
      PROVE  (IF i = m THEN step[m][f[m - 1]] ELSE f[i]) \in S
  <2>1. CASE i = m
    BY <1>7, <2>1
  <2>2. CASE i # m
    <3>1. i \in 0..(m - 1)
      BY <1>3, <2>2
    <3> QED BY <1>4, <2>2, <3>1
  <2> QED BY <2>1, <2>2
<1>9. g \in [0..m -> S]
  BY <1>8
<1>10. g[0] = b
  BY <1>3, <1>4
<1>11. ASSUME NEW n \in 1..m PROVE g[n] = step[n][g[n - 1]]
  <2>1. n - 1 \in 0..(m - 1) /\ n - 1 # m /\ n - 1 \in 0..m /\ n \in 0..m
    BY <1>3
  <2>2. g[n - 1] = f[n - 1]
    BY <2>1
  <2>3. CASE n = m
    BY <2>1, <2>2, <2>3
  <2>4. CASE n # m
    <3>1. n \in 1..(m - 1)
      BY <1>3, <2>4
    <3>2. g[n] = f[n]
      BY <2>1, <2>4
    <3> QED BY <1>4, <2>2, <3>1, <3>2
  <2> QED BY <2>3, <2>4
<1> HIDE DEF g
<1>12. Folds(m)
  BY <1>9, <1>10, <1>11 DEF Folds
<1> QED BY <1>0, <1>1, <1>12

\* Induction over the positions of a sequence: G holds the good ones.
LEMMA Positions ==
  ASSUME NEW N \in Nat, NEW G, 0 \in G,
         \A n \in 1..N : n - 1 \in G => n \in G
  PROVE  0..N \subseteq G
<1> DEFINE bad == {n \in 0..N : n \notin G}
<1> SUFFICES ASSUME bad # {} PROVE FALSE
  OBVIOUS
<1>1. bad \subseteq Nat
  OBVIOUS
<1>2. \A j : j \in bad <=> j \in 0..N /\ j \notin G
  OBVIOUS
<1> HIDE DEF bad
<1>3. PICK m \in bad : \A j \in bad : m <= j
  BY <1>1, LeastNumber
<1>4. m \in 1..N /\ m - 1 \in 0..N /\ m - 1 \notin bad
  <2>1. m \in 0..N /\ m # 0
    BY <1>2, <1>3
  <2>2. ~(m <= m - 1)
    BY <2>1
  <2> QED BY <1>3, <2>1, <2>2
<1> QED BY <1>2, <1>3, <1>4

\* What a reader of commands or actions carries along.
Reading(parties) == [ok: BOOLEAN, outflow: [Assets -> Nat], recipient: SUBSET parties]
Debts == [debt: Nat, paid: Nat]

\* A function changed at one place, in its domain or not, has the type it had.
LEMMA ExceptType ==
  ASSUME NEW o \in [Assets -> Nat], NEW k, NEW x, k \in Assets => x \in Nat
  PROVE  [o EXCEPT ![k] = x] \in [Assets -> Nat]
<1> DEFINE p == [o EXCEPT ![k] = x]
<1>1. p = [j \in Assets |-> IF j = k THEN x ELSE o[j]]
  OBVIOUS
<1>2. \A j \in Assets : (IF j = k THEN x ELSE o[j]) \in Nat
  OBVIOUS
<1> HIDE DEF p
<1>3. p \in [Assets -> Nat]
  BY <1>1, <1>2
<1> QED BY <1>3 DEF p

\* Adding to the outflow counts all of it if it is of the tracked asset, and
\* never takes anything back.
LEMMA AddFacts ==
  ASSUME NEW o \in [Assets -> Nat], NEW a, NEW n \in Nat
  PROVE  /\ add(o, a, n) \in [Assets -> Nat]
         /\ add(o, a, n)[Tracked] \in Nat
         /\ add(o, a, n)[Tracked] >= o[Tracked] + If(a, n)
         /\ If(a, n) \in Nat
<1> DEFINE k == canonicalAsset(a)
<1>1. Tracked \in Assets /\ Tracked # ZeroCurrency
  BY DecoderAssumption
<1>2. a = Tracked => k = Tracked
  BY <1>1 DEF canonicalAsset
<1>3. add(o, a, n) = [o EXCEPT ![k] = o[k] + n]
  BY DEF add
<1> HIDE DEF k
<1>4. add(o, a, n) \in [Assets -> Nat]
  BY <1>3, ExceptType
<1>5. o[Tracked] \in Nat
  BY <1>1
<1>6. CASE k = Tracked
  BY <1>1, <1>3, <1>4, <1>5, <1>6 DEF If
<1>7. CASE k # Tracked
  BY <1>1, <1>2, <1>3, <1>4, <1>5, <1>7 DEF If
<1> QED BY <1>4, <1>6, <1>7 DEF If

\* So does raising it to a floor, which takes nothing back either.
LEMMA AtLeastFacts ==
  ASSUME NEW o \in [Assets -> Nat], NEW a, NEW n \in Nat
  PROVE  /\ atLeast(o, a, n) \in [Assets -> Nat]
         /\ atLeast(o, a, n)[Tracked] >= o[Tracked]
<1> DEFINE k == canonicalAsset(a)
<1>1. Tracked \in Assets
  BY DecoderAssumption
<1>2. atLeast(o, a, n) = [o EXCEPT ![k] = IF n > o[k] THEN n ELSE o[k]]
  BY DEF atLeast
<1> HIDE DEF k
<1>3. atLeast(o, a, n) \in [Assets -> Nat]
  BY <1>2, ExceptType
<1>4. atLeast(o, a, n)[Tracked]
        = IF k = Tracked THEN IF n > o[k] THEN n ELSE o[k] ELSE o[Tracked]
  BY <1>1, <1>2
<1> QED BY <1>1, <1>3, <1>4

\* Nothing is spent at the start.
LEMMA StartFacts ==
  ASSUME NEW parties
  PROVE  /\ Start \in Reading(parties) /\ Start.outflow[Tracked] = 0
         /\ NoOutflow \in [Assets -> Nat] /\ NoOutflow[Tracked] = 0
BY DecoderAssumption DEF Start, NoOutflow, Reading

\* A reading that failed is a reading, and stays failed.
LEMMA FailFacts ==
  ASSUME NEW parties, NEW acc \in Reading(parties)
  PROVE  Fail(acc) \in Reading(parties) /\ ~Fail(acc).ok
BY DEF Fail, Reading

-----------------------------------------------------------------------------
(* One v4 action *)

\* What an action adds to the reading covers what it adds to the debt and to
\* what was paid (readV4Outflow, beside the pool manager's accounting).
LEMMA V4Step ==
  ASSUME NEW acc \in Reading({}), NEW a \in V4Action, NEW d \in Debts,
         acc.ok => d.debt + d.paid <= acc.outflow[Tracked]
  PROVE  /\ readV4Action(acc, a) \in Reading({})
         /\ v4Takes(d, a) \in Debts
         /\ readV4Action(acc, a).ok =>
              v4Takes(d, a).debt + v4Takes(d, a).paid
                <= readV4Action(acc, a).outflow[Tracked]
<1> DEFINE cur == IF a.zeroForOne THEN a.currency0 ELSE a.currency1
           paying(n) == [acc EXCEPT !.outflow = add(acc.outflow, cur, n)]
           owe(n) == [debt |-> d.debt + If(cur, n), paid |-> d.paid]
           pay(n) == [debt |-> d.debt - Least(d.debt, n), paid |-> d.paid + n]
<1>0. /\ acc.outflow \in [Assets -> Nat] /\ acc.ok \in BOOLEAN
      /\ d.debt \in Nat /\ d.paid \in Nat /\ d = [debt |-> d.debt, paid |-> d.paid]
      /\ a.amount \in Nat /\ a.max \in Nat
      /\ acc.outflow[Tracked] \in Nat
  BY DecoderAssumption DEF Reading, Debts, V4Action
<1>1. ASSUME NEW n \in Nat
      PROVE  /\ paying(n) \in Reading({}) /\ owe(n) \in Debts
             /\ paying(n).ok = acc.ok
             /\ acc.ok => owe(n).debt + owe(n).paid <= paying(n).outflow[Tracked]
  <2>1. /\ add(acc.outflow, cur, n) \in [Assets -> Nat]
        /\ add(acc.outflow, cur, n)[Tracked] >= acc.outflow[Tracked] + If(cur, n)
        /\ If(cur, n) \in Nat /\ add(acc.outflow, cur, n)[Tracked] \in Nat
    BY <1>0, AddFacts
  <2> HIDE DEF cur
  <2>2. paying(n) \in Reading({}) /\ paying(n).ok = acc.ok
        /\ paying(n).outflow = add(acc.outflow, cur, n)
    BY <2>1 DEF Reading
  <2>3. owe(n) \in Debts /\ owe(n).debt = d.debt + If(cur, n) /\ owe(n).paid = d.paid
    BY <1>0, <2>1 DEF Debts
  <2> HIDE DEF paying, owe
  <2> QED BY <1>0, <2>1, <2>2, <2>3
<1>2. ASSUME NEW n \in Nat
      PROVE  /\ pay(n) \in Debts
             /\ pay(n).debt + pay(n).paid <= d.debt + d.paid + n
             /\ n <= d.debt => pay(n).debt + pay(n).paid = d.debt + d.paid
  BY <1>0 DEF Least, Debts
<1>3. /\ Least(d.debt, a.max) \in Nat /\ Least(d.debt, a.max) <= d.debt
  BY <1>0 DEF Least
<1>4. ASSUME NEW x PROVE [d EXCEPT !.debt = x] = [debt |-> x, paid |-> d.paid]
  BY <1>0
<1> DEFINE r == readV4Action(acc, a)
           t == v4Takes(d, a)
<1>5. ASSUME ~acc.ok \/ ~a.readable \/ a.type \notin
                 {"SWAP_EXACT_IN_SINGLE", "SWAP_EXACT_OUT_SINGLE", "SETTLE",
                  "SETTLE_ALL", "SETTLE_PAIR", "TAKE", "CLOSE_CURRENCY"}
      PROVE  r \in Reading({}) /\ ~r.ok
  <2>1. CASE ~acc.ok \/ ~a.readable
    <3>1. r = Fail(acc)
      BY <2>1 DEF readV4Action
    <3> QED BY <3>1, FailFacts
  <2>2. CASE acc.ok /\ a.readable
    <3>1. /\ a.type # "SWAP_EXACT_IN_SINGLE" /\ a.type # "SWAP_EXACT_OUT_SINGLE"
          /\ a.type # "SETTLE" /\ a.type # "SETTLE_ALL"
          /\ a.type \notin {"SETTLE_PAIR", "TAKE", "CLOSE_CURRENCY"}
      BY <1>5, <2>2
    <3>2. r = Fail(acc)
      BY <2>2, <3>1 DEF readV4Action
    <3> QED BY <3>2, FailFacts
  <2> QED BY <2>1, <2>2
<1>6. t \in Debts
  <2>1. CASE a.type \in {"SWAP_EXACT_IN_SINGLE", "SWAP_EXACT_IN"}
    <3>1. t = owe(a.amount)
      BY <1>4, <2>1 DEF v4Takes
    <3> QED BY <1>0, <1>1, <3>1
  <2>2. CASE a.type = "SWAP_EXACT_OUT_SINGLE"
    <3>1. t = owe(a.max)
      BY <1>4, <2>2 DEF v4Takes
    <3> QED BY <1>0, <1>1, <3>1
  <2>3. CASE a.type = "SETTLE"
    <3>1. t \in {d, [d EXCEPT !.debt = 0], pay(d.debt), pay(a.amount)}
      BY <2>3 DEF v4Takes
    <3>2. [d EXCEPT !.debt = 0] \in Debts
      BY <1>0, <1>4 DEF Debts
    <3> QED BY <1>0, <1>2, <3>1, <3>2
  <2>4. CASE a.type = "SETTLE_ALL"
    <3>1. t \in {d, pay(Least(d.debt, a.max))}
      BY <2>4 DEF v4Takes
    <3> QED BY <1>0, <1>2, <1>3, <3>1
  <2>5. CASE a.type \notin {"SWAP_EXACT_IN_SINGLE", "SWAP_EXACT_IN", "SETTLE",
                            "SWAP_EXACT_OUT_SINGLE", "SETTLE_ALL"}
    <3>1. t \in {d, pay(d.debt)}
      BY <2>5 DEF v4Takes
    <3> QED BY <1>0, <1>2, <3>1
  <2> QED BY <2>1, <2>2, <2>3, <2>4, <2>5
<1>7. CASE acc.ok /\ a.readable /\ a.type = "SWAP_EXACT_IN_SINGLE"
  <2>1. r = paying(a.amount) /\ t = owe(a.amount)
    BY <1>4, <1>7 DEF readV4Action, v4Takes
  <2> QED BY <1>0, <1>1, <1>6, <1>7, <2>1
<1>8. CASE acc.ok /\ a.readable /\ a.type = "SWAP_EXACT_OUT_SINGLE"
  <2>1. r = paying(a.max) /\ t = owe(a.max)
    BY <1>4, <1>8 DEF readV4Action, v4Takes
  <2> QED BY <1>0, <1>1, <1>6, <1>8, <2>1
<1>9. CASE acc.ok /\ a.readable /\ a.type = "SETTLE"
  <2> DEFINE more == add(acc.outflow, a.currency0, a.amount)
  <2>1. r = IF a.payerIsUser THEN [acc EXCEPT !.outflow = more] ELSE acc
    BY <1>9 DEF readV4Action
  <2>2. /\ more \in [Assets -> Nat] /\ more[Tracked] \in Nat
        /\ more[Tracked] >= acc.outflow[Tracked] + If(a.currency0, a.amount)
    BY <1>0, AddFacts
  <2> HIDE DEF more
  <2>3. [acc EXCEPT !.outflow = more] \in Reading({})
        /\ [acc EXCEPT !.outflow = more].outflow = more
    BY <2>2 DEF Reading
  <2>4. t = IF a.currency0 = Tracked
              THEN IF ~a.payerIsUser THEN [debt |-> 0, paid |-> d.paid]
                   ELSE IF a.amount = 0 THEN pay(d.debt) ELSE pay(a.amount)
              ELSE d
    BY <1>4, <1>9 DEF v4Takes
  <2>5. CASE a.currency0 # Tracked
    <3>1. t = d
      BY <2>4, <2>5
    <3>2. If(a.currency0, a.amount) = 0
      BY <2>5 DEF If
    <3>3. r.outflow[Tracked] \in Nat /\ r.outflow[Tracked] >= acc.outflow[Tracked]
          /\ r \in Reading({})
      BY <1>0, <2>1, <2>2, <2>3, <3>2
    <3> QED BY <1>0, <1>9, <3>1, <3>3
  <2>6. CASE a.currency0 = Tracked /\ ~a.payerIsUser
    <3>1. t.debt = 0 /\ t.paid = d.paid /\ r = acc
      BY <2>1, <2>4, <2>6
    <3> QED BY <1>0, <1>6, <1>9, <3>1
  <2>7. CASE a.currency0 = Tracked /\ a.payerIsUser
    <3>1. If(a.currency0, a.amount) = a.amount
      BY <2>7 DEF If
    <3>2. r.outflow = more /\ r \in Reading({})
      BY <2>1, <2>3, <2>7
    <3>3. t.debt + t.paid <= d.debt + d.paid + a.amount
      <4>1. CASE a.amount = 0
        <5>1. t = pay(d.debt)
          BY <2>4, <2>7, <4>1
        <5>2. t.debt + t.paid = d.debt + d.paid
          BY <1>0, <1>2, <5>1
        <5> QED BY <1>0, <4>1, <5>2
      <4>2. CASE a.amount # 0
        <5>1. t = pay(a.amount)
          BY <2>4, <2>7, <4>2
        <5> QED BY <1>0, <1>2, <5>1
      <4> QED BY <4>1, <4>2
    <3>4. t.debt + t.paid \in Nat
      BY <1>6 DEF Debts
    <3> QED BY <1>0, <1>6, <1>9, <2>2, <3>1, <3>2, <3>3, <3>4
  <2> QED BY <2>5, <2>6, <2>7
<1>10. CASE acc.ok /\ a.readable /\ a.type = "SETTLE_ALL"
  <2> DEFINE more == atLeast(acc.outflow, a.currency0, a.max)
  <2>1. r = [acc EXCEPT !.outflow = more]
    BY <1>10 DEF readV4Action
  <2>2. more \in [Assets -> Nat] /\ more[Tracked] >= acc.outflow[Tracked]
    BY <1>0, AtLeastFacts
  <2>3. more[Tracked] \in Nat
    BY <2>2, DecoderAssumption
  <2> HIDE DEF more
  <2>4. r \in Reading({}) /\ r.outflow = more
    BY <2>1, <2>2 DEF Reading
  <2>5. t \in {d, pay(Least(d.debt, a.max))}
    BY <1>10 DEF v4Takes
  <2>6. t.debt + t.paid = d.debt + d.paid
    BY <1>0, <1>2, <1>3, <2>5
  <2> QED BY <1>0, <1>6, <1>10, <2>2, <2>3, <2>4, <2>6
<1>11. CASE acc.ok /\ a.readable /\ a.type \in {"SETTLE_PAIR", "TAKE", "CLOSE_CURRENCY"}
  <2>1. r = acc
    BY <1>11 DEF readV4Action
  <2>2. t \in {d, pay(d.debt)}
    BY <1>11 DEF v4Takes
  <2>3. t.debt + t.paid = d.debt + d.paid
    BY <1>0, <1>2, <2>2
  <2> QED BY <1>6, <1>11, <2>1, <2>3
<1>12. CASE ~acc.ok \/ ~a.readable \/ a.type \notin
             {"SWAP_EXACT_IN_SINGLE", "SWAP_EXACT_OUT_SINGLE", "SETTLE", "SETTLE_ALL",
              "SETTLE_PAIR", "TAKE", "CLOSE_CURRENCY"}
  BY <1>5, <1>6, <1>12
<1> QED BY <1>7, <1>8, <1>9, <1>10, <1>11, <1>12

\* Reading the actions of a v4 stream in order is well defined.
LEMMA V4Folds ==
  ASSUME NEW items \in Seq(V4Action)
  PROVE  \E f : /\ f[0] = Start
                /\ \A n \in 1..Len(items) : f[n] = readV4Action(f[n - 1], items[n])
                /\ readV4Actions(items) = f[Len(items)]
<1> DEFINE N == Len(items)
           body(f) == [n \in 0..N |-> IF n = 0 THEN Start ELSE readV4Action(f[n - 1], items[n])]
           step == [n \in 1..N |-> [acc \in Reading({}) |-> readV4Action(acc, items[n])]]
<1>1. readV4Actions(items) = (CHOOSE f : f = body(f))[N]
  BY DEF readV4Actions
<1>2. N \in Nat /\ \A n \in 1..N : items[n] \in V4Action
  OBVIOUS
<1>3. ASSUME NEW n \in 1..N, NEW acc \in Reading({})
      PROVE  readV4Action(acc, items[n]) \in Reading({})
  <2> DEFINE d == [debt |-> 0, paid |-> 0]
  <2>1. d \in Debts /\ d.debt + d.paid = 0
    BY DEF Debts
  <2>2. acc.outflow[Tracked] >= 0
    BY DecoderAssumption DEF Reading
  <2> HIDE DEF d
  <2> QED BY <1>2, <2>1, <2>2, V4Step
<1>4. step \in Steps(Reading({}), N)
  BY <1>3 DEF Steps
<1>5. \A n \in 1..N, acc \in Reading({}) : step[n][acc] = readV4Action(acc, items[n])
  OBVIOUS
<1>6. Start \in Reading({})
  BY StartFacts
<1> HIDE DEF step
<1>7. PICK f : IsFold(f, Reading({}), Start, N, step)
  BY <1>2, <1>4, <1>6, FoldExists
<1>8. f = body(f)
  <2>1. ASSUME NEW n \in 0..N
        PROVE  f[n] = IF n = 0 THEN Start ELSE readV4Action(f[n - 1], items[n])
    <3>1. CASE n = 0
      BY <1>7, <3>1 DEF IsFold
    <3>2. CASE n # 0
      <4>1. n \in 1..N /\ f[n - 1] \in Reading({})
        BY <1>2, <1>7, <3>2 DEF IsFold
      <4> QED BY <1>5, <1>7, <3>2, <4>1 DEF IsFold
    <3> QED BY <3>1, <3>2
  <2> QED BY <1>7, <2>1 DEF IsFold
<1> DEFINE g == CHOOSE x : x = body(x)
<1>9. g = body(g)
  <2> HIDE DEF body
  <2> QED BY <1>8, Zenon
<1> HIDE DEF g
<1>10. /\ g[0] = Start
       /\ \A n \in 1..N : g[n] = readV4Action(g[n - 1], items[n])
  <2>1. ASSUME NEW n \in 0..N
        PROVE  g[n] = IF n = 0 THEN Start ELSE readV4Action(g[n - 1], items[n])
    BY <1>9
  <2>2. 0 \in 0..N /\ \A n \in 1..N : n \in 0..N /\ n # 0
    BY <1>2
  <2> QED BY <2>1, <2>2
<1>11. readV4Actions(items) = g[N]
  BY <1>1 DEF g
<1> QED BY <1>10, <1>11

\* So is what they make the pool manager's accounts hold.
LEMMA DebtFolds ==
  ASSUME NEW items \in Seq(V4Action)
  PROVE  \E f : /\ f[0] = [debt |-> 0, paid |-> 0]
                /\ \A n \in 1..Len(items) : f[n] = v4Takes(f[n - 1], items[n])
                /\ v4Debts(items) = f[Len(items)]
<1> DEFINE N == Len(items)
           NoDebt == [debt |-> 0, paid |-> 0]
           body(f) == [n \in 0..N |-> IF n = 0 THEN NoDebt ELSE v4Takes(f[n - 1], items[n])]
           step == [n \in 1..N |-> [acc \in Debts |-> v4Takes(acc, items[n])]]
<1>1. v4Debts(items) = (CHOOSE f : f = body(f))[N]
  BY DEF v4Debts
<1>2. N \in Nat /\ \A n \in 1..N : items[n] \in V4Action
  OBVIOUS
<1>3. ASSUME NEW n \in 1..N, NEW acc \in Debts
      PROVE  v4Takes(acc, items[n]) \in Debts
  <2>1. Fail(Start) \in Reading({}) /\ ~Fail(Start).ok
    BY StartFacts, FailFacts
  <2> QED BY <1>2, <2>1, V4Step
<1>4. step \in Steps(Debts, N)
  BY <1>3 DEF Steps
<1>5. \A n \in 1..N, acc \in Debts : step[n][acc] = v4Takes(acc, items[n])
  OBVIOUS
<1>6. NoDebt \in Debts
  BY DEF Debts
<1> HIDE DEF step
<1>7. PICK f : IsFold(f, Debts, NoDebt, N, step)
  BY <1>2, <1>4, <1>6, FoldExists
<1>8. f = body(f)
  <2>1. ASSUME NEW n \in 0..N
        PROVE  f[n] = IF n = 0 THEN NoDebt ELSE v4Takes(f[n - 1], items[n])
    <3>1. CASE n = 0
      BY <1>7, <3>1 DEF IsFold
    <3>2. CASE n # 0
      <4>1. n \in 1..N /\ f[n - 1] \in Debts
        BY <1>2, <1>7, <3>2 DEF IsFold
      <4> QED BY <1>5, <1>7, <3>2, <4>1 DEF IsFold
    <3> QED BY <3>1, <3>2
  <2> QED BY <1>7, <2>1 DEF IsFold
<1> DEFINE g == CHOOSE x : x = body(x)
<1>9. g = body(g)
  <2> HIDE DEF body
  <2> QED BY <1>8, Zenon
<1> HIDE DEF g
<1>10. /\ g[0] = NoDebt
       /\ \A n \in 1..N : g[n] = v4Takes(g[n - 1], items[n])
  <2>1. ASSUME NEW n \in 0..N
        PROVE  g[n] = IF n = 0 THEN NoDebt ELSE v4Takes(g[n - 1], items[n])
    BY <1>9
  <2>2. 0 \in 0..N /\ \A n \in 1..N : n \in 0..N /\ n # 0
    BY <1>2
  <2> QED BY <2>1, <2>2
<1>11. v4Debts(items) = g[N]
  BY <1>1 DEF g
<1> QED BY <1>10, <1>11

\* A v4 stream that can be read takes at most the outflow read from it.
LEMMA V4Covers ==
  ASSUME NEW items \in Seq(V4Action)
  PROVE  /\ readV4Actions(items) \in Reading({})
         /\ v4Debts(items) \in Debts
         /\ readV4Actions(items).ok =>
              v4Debts(items).paid <= readV4Actions(items).outflow[Tracked]
<1> DEFINE N == Len(items)
           NoDebt == [debt |-> 0, paid |-> 0]
<1>1. N \in Nat /\ \A n \in 1..N : items[n] \in V4Action
  OBVIOUS
<1>2. PICK f : /\ f[0] = Start
               /\ \A n \in 1..N : f[n] = readV4Action(f[n - 1], items[n])
               /\ readV4Actions(items) = f[N]
  BY V4Folds
<1>3. PICK g : /\ g[0] = NoDebt
               /\ \A n \in 1..N : g[n] = v4Takes(g[n - 1], items[n])
               /\ v4Debts(items) = g[N]
  BY DebtFolds
<1> DEFINE Good(n) == /\ f[n] \in Reading({}) /\ g[n] \in Debts
                      /\ f[n].ok => g[n].debt + g[n].paid <= f[n].outflow[Tracked]
           G == {n \in 0..N : Good(n)}
<1>4. Good(0)
  <2>1. NoDebt \in Debts /\ NoDebt.debt + NoDebt.paid = 0
    BY DEF Debts
  <2>2. Start \in Reading({}) /\ Start.outflow[Tracked] = 0
    BY StartFacts
  <2> HIDE DEF NoDebt
  <2> QED BY <1>2, <1>3, <2>1, <2>2
<1>5. ASSUME NEW n \in 1..N, Good(n - 1) PROVE Good(n)
  BY <1>1, <1>2, <1>3, <1>5, V4Step
<1> HIDE DEF Good
<1>6. 0 \in G /\ \A n \in 1..N : n - 1 \in G => n \in G
  <2>1. 0 \in 0..N /\ \A n \in 1..N : n \in 0..N
    BY <1>1
  <2> QED BY <1>4, <1>5, <2>1
<1> HIDE DEF G
<1>7. 0..N \subseteq G
  BY <1>1, <1>6, Positions
<1>8. Good(N)
  BY <1>1, <1>7 DEF G
<1>9. /\ f[N] \in Reading({}) /\ g[N] \in Debts
      /\ f[N].ok => g[N].debt + g[N].paid <= f[N].outflow[Tracked]
  BY <1>8 DEF Good
<1>10. g[N].debt \in Nat /\ g[N].paid \in Nat /\ f[N].outflow[Tracked] \in Nat
  BY <1>9, DecoderAssumption DEF Reading, Debts
<1> QED BY <1>2, <1>3, <1>9, <1>10

-----------------------------------------------------------------------------
(* One command *)

\* Merging two outflows adds them up.
LEMMA MergeFacts ==
  ASSUME NEW o \in [Assets -> Nat], NEW p \in [Assets -> Nat]
  PROVE  /\ merge(o, p) \in [Assets -> Nat]
         /\ merge(o, p)[Tracked] = o[Tracked] + p[Tracked]
BY DecoderAssumption DEF merge

\* The types of command that can be read (the router's Commands.sol).
Readable == ExactIn \cup ExactOut
            \cup {"V4_SWAP", "TRANSFER", "PERMIT2_TRANSFER_FROM", "PERMIT2_PERMIT",
                  "WRAP_ETH", "UNWRAP_WETH", "PAY_PORTION", "SWEEP"}

\* What a command adds to the reading covers what the router can take for it
\* (uniswapV4Decoder, beside the router's own dispatch).
LEMMA CommandStep ==
  ASSUME NEW parties, NEW acc \in Reading(parties), NEW c, CommandOK(c),
         c.party \in parties, NEW total \in Nat,
         acc.ok => total <= acc.outflow[Tracked]
  PROVE  /\ readCommand(acc, c) \in Reading(parties)
         /\ routerTakes(c) \in Nat
         /\ readCommand(acc, c).ok =>
              total + routerTakes(c) <= readCommand(acc, c).outflow[Tracked]
<1> DEFINE charging(token, n) == [acc EXCEPT !.outflow = add(acc.outflow, token, n)]
           named == IF acc.recipient = {} THEN {c.party} ELSE acc.recipient
           charge(token, n) == [acc EXCEPT !.outflow = add(acc.outflow, token, n),
                                           !.recipient = named]
           r == readCommand(acc, c)
           t == routerTakes(c)
<1>0. /\ acc.outflow \in [Assets -> Nat] /\ acc.ok \in BOOLEAN
      /\ acc.recipient \subseteq parties /\ acc.outflow[Tracked] \in Nat
      /\ acc = [ok |-> acc.ok, outflow |-> acc.outflow, recipient |-> acc.recipient]
  BY DecoderAssumption DEF Reading
<1>1. ASSUME NEW token, NEW n \in Nat, NEW m \in Nat, m <= If(token, n)
      PROVE  /\ charging(token, n) \in Reading(parties)
             /\ charge(token, n) \in Reading(parties)
             /\ acc.ok => /\ total + m <= charging(token, n).outflow[Tracked]
                          /\ total + m <= charge(token, n).outflow[Tracked]
  <2> DEFINE more == add(acc.outflow, token, n)
  <2>1. /\ more \in [Assets -> Nat] /\ more[Tracked] \in Nat
        /\ more[Tracked] >= acc.outflow[Tracked] + If(token, n)
        /\ If(token, n) \in Nat
    BY <1>0, AddFacts
  <2>2. named \subseteq parties
    BY <1>0
  <2> HIDE DEF more, named
  <2>3. /\ [acc EXCEPT !.outflow = more] \in Reading(parties)
        /\ [acc EXCEPT !.outflow = more].outflow = more
    BY <2>1 DEF Reading
  <2>4. /\ [acc EXCEPT !.outflow = more, !.recipient = named] \in Reading(parties)
        /\ [acc EXCEPT !.outflow = more, !.recipient = named].outflow = more
    BY <2>1, <2>2 DEF Reading
  <2>5. acc.ok => total + m <= more[Tracked]
    BY <1>0, <1>1, <2>1
  <2> QED BY <2>3, <2>4, <2>5 DEF more
<1>2. ASSUME NEW token, NEW n \in Nat
      PROVE  If(token, n) \in Nat /\ If(token, n) <= If(token, n) /\ 0 <= If(token, n)
  BY DEF If
<1>3. c.type # "V4_SWAP" => c.amount \in Nat
  BY DEF CommandOK
<1>4. c.type \in ExactOut => c.max \in Nat
  BY DEF CommandOK, ExactOut
<1>5. c.type = "V4_SWAP" =>
        /\ c.actions.items \in Seq(V4Action) /\ c.actions.malformed \in BOOLEAN
        /\ readV4Actions(c.actions.items) \in Reading({})
        /\ v4Debts(c.actions.items) \in Debts
        /\ v4Debts(c.actions.items).paid \in Nat
        /\ readV4Actions(c.actions.items).ok =>
             v4Debts(c.actions.items).paid
               <= readV4Actions(c.actions.items).outflow[Tracked]
  BY V4Covers DEF CommandOK, Debts
<1>6. t \in Nat
  <2>1. CASE c.type \in ExactIn
    <3>1. t = If(Head(c.path.tokens), c.amount) /\ c.amount \in Nat
      BY <1>3, <2>1 DEF routerTakes, ExactIn, ExactOut
    <3> QED BY <1>2, <3>1
  <2>2. CASE c.type \in ExactOut
    <3>1. t = If(c.path.tokens[Len(c.path.tokens)], c.max) /\ c.max \in Nat
      BY <1>4, <2>2 DEF routerTakes, ExactIn, ExactOut
    <3> QED BY <1>2, <3>1
  <2>3. CASE c.type = "PERMIT2_TRANSFER_FROM"
    <3>1. t = If(c.token, c.amount) /\ c.amount \in Nat
      BY <1>3, <2>3 DEF routerTakes, ExactIn, ExactOut
    <3> QED BY <1>2, <3>1
  <2>4. CASE c.type = "V4_SWAP"
    <3>1. t = v4Debts(c.actions.items).paid
      BY <2>4 DEF routerTakes, ExactIn, ExactOut
    <3> QED BY <1>5, <2>4, <3>1
  <2>5. CASE c.type \notin ExactIn \cup ExactOut \cup {"PERMIT2_TRANSFER_FROM", "V4_SWAP"}
    BY <2>5 DEF routerTakes
  <2> QED BY <2>1, <2>2, <2>3, <2>4, <2>5
<1>7. CASE ~acc.ok \/ ~c.readable \/ c.type \notin Readable
  <2>1. r = Fail(acc)
    <3>1. CASE ~acc.ok \/ ~c.readable
      BY <3>1 DEF readCommand
    <3>2. CASE acc.ok /\ c.readable
      <4>1. /\ c.type \notin ExactIn /\ c.type \notin ExactOut /\ c.type # "V4_SWAP"
            /\ c.type \notin {"TRANSFER", "PERMIT2_TRANSFER_FROM"}
            /\ c.type # "PERMIT2_PERMIT" /\ c.type # "WRAP_ETH"
            /\ c.type \notin {"UNWRAP_WETH", "PAY_PORTION", "SWEEP"}
        BY <1>7, <3>2 DEF Readable
      <4> QED BY <3>2, <4>1 DEF readCommand
    <3> QED BY <3>1, <3>2
  <2> QED BY <1>6, <2>1, FailFacts
<1>8. CASE acc.ok /\ c.readable /\ c.type \in ExactIn
  <2>1. /\ r = IF readPath(c.path) = <<>> THEN Fail(acc)
               ELSE charge(pathFirstToken(c.path), c.amount)
        /\ t = If(Head(c.path.tokens), c.amount)
    BY <1>8 DEF readCommand, routerTakes, ExactIn, ExactOut
  <2>2. CASE readPath(c.path) = <<>>
    BY <1>6, <2>1, <2>2, FailFacts
  <2>3. CASE readPath(c.path) # <<>>
    <3>1. pathFirstToken(c.path) = Head(c.path.tokens)
      BY <2>3 DEF pathFirstToken, readPath
    <3>2. c.amount \in Nat
      BY <1>3, <1>8 DEF ExactIn
    <3>3. r = charge(Head(c.path.tokens), c.amount)
      BY <2>1, <2>3, <3>1
    <3> HIDE DEF charge
    <3> QED BY <1>1, <1>2, <1>6, <1>8, <2>1, <3>2, <3>3
  <2> QED BY <2>2, <2>3
<1>9. CASE acc.ok /\ c.readable /\ c.type \in ExactOut
  <2>1. /\ r = IF readPath(c.path) = <<>> THEN Fail(acc)
               ELSE charge(pathLastToken(c.path), c.max)
        /\ t = If(c.path.tokens[Len(c.path.tokens)], c.max)
    BY <1>9 DEF readCommand, routerTakes, exactOutInput, ExactIn, ExactOut
  <2>2. CASE readPath(c.path) = <<>>
    BY <1>6, <2>1, <2>2, FailFacts
  <2>3. CASE readPath(c.path) # <<>>
    <3>1. pathLastToken(c.path) = c.path.tokens[Len(c.path.tokens)]
      BY <2>3 DEF pathLastToken, readPath
    <3>2. r = charge(c.path.tokens[Len(c.path.tokens)], c.max)
      BY <2>1, <2>3, <3>1
    <3> HIDE DEF charge
    <3> QED BY <1>1, <1>2, <1>4, <1>6, <1>9, <2>1, <3>2
  <2> QED BY <2>2, <2>3
<1>10. CASE acc.ok /\ c.readable /\ c.type = "V4_SWAP"
  <2> DEFINE nested == readV4Outflow(c.actions)
             actions == readV4Actions(c.actions.items)
             more == merge(acc.outflow, nested.outflow)
  <2>1. /\ r = IF nested.ok THEN [acc EXCEPT !.outflow = more] ELSE Fail(acc)
        /\ t = v4Debts(c.actions.items).paid
    BY <1>10 DEF readCommand, routerTakes, ExactIn, ExactOut
  <2>2. nested = IF c.actions.malformed THEN Fail(Start) ELSE actions
    <3>1. CASE c.actions.malformed
      BY <3>1 DEF readV4Outflow, readCommandStream
    <3>2. CASE ~c.actions.malformed
      <4>1. readCommandStream(c.actions) = {c.actions.items}
        BY <3>2 DEF readCommandStream
      <4>2. (CHOOSE s \in {c.actions.items} : TRUE) = c.actions.items
        OBVIOUS
      <4> QED BY <3>2, <4>1, <4>2 DEF readV4Outflow
    <3> QED BY <3>1, <3>2
  <2>3. CASE ~nested.ok
    BY <1>6, <2>1, <2>3, FailFacts
  <2>4. CASE nested.ok
    <3>1. ~Fail(Start).ok
      BY StartFacts, FailFacts
    <3>2. nested = actions
      BY <2>2, <2>4, <3>1
    <3>3. /\ nested.outflow \in [Assets -> Nat] /\ nested.outflow[Tracked] \in Nat
          /\ t <= nested.outflow[Tracked]
      BY <1>5, <1>10, <2>1, <2>4, <3>2, DecoderAssumption DEF Reading
    <3>4. more \in [Assets -> Nat]
          /\ more[Tracked] = acc.outflow[Tracked] + nested.outflow[Tracked]
      BY <1>0, <3>3, MergeFacts
    <3> HIDE DEF more, nested
    <3>5. r \in Reading(parties) /\ r.outflow = more
      BY <2>1, <2>4, <3>4 DEF Reading
    <3> QED BY <1>0, <1>6, <1>10, <3>3, <3>4, <3>5
  <2> QED BY <2>3, <2>4
<1>11. CASE acc.ok /\ c.readable /\ c.type \in {"TRANSFER", "PERMIT2_TRANSFER_FROM"}
  <2>1. /\ r = charge(c.token, c.amount) /\ t \in {0, If(c.token, c.amount)}
        /\ c.amount \in Nat
    BY <1>3, <1>11 DEF readCommand, routerTakes, ExactIn, ExactOut
  <2> HIDE DEF charge
  <2> QED BY <1>1, <1>2, <1>6, <1>11, <2>1
<1>12. CASE acc.ok /\ c.readable /\ c.type = "PERMIT2_PERMIT"
  <2> DEFINE n == IF c.amount >= Permit2Unlimited THEN UNBOUNDED ELSE c.amount
  <2>1. r = charging(c.token, n) /\ t = 0
    BY <1>12 DEF readCommand, routerTakes, ExactIn, ExactOut
  <2>2. n \in Nat
    BY <1>3, <1>12, DecoderAssumption
  <2> HIDE DEF charging, n
  <2> QED BY <1>1, <1>2, <1>6, <1>12, <2>1, <2>2
<1>13. CASE acc.ok /\ c.readable /\ c.type = "WRAP_ETH"
  <2>1. r = charging(Native, c.amount) /\ t = 0 /\ c.amount \in Nat
    BY <1>3, <1>13 DEF readCommand, routerTakes, ExactIn, ExactOut
  <2> HIDE DEF charging
  <2> QED BY <1>1, <1>2, <1>6, <1>13, <2>1
<1>14. CASE acc.ok /\ c.readable /\ c.type \in {"UNWRAP_WETH", "PAY_PORTION", "SWEEP"}
  <2>1. r = acc /\ t = 0
    BY <1>14 DEF readCommand, routerTakes, ExactIn, ExactOut
  <2> QED BY <1>0, <1>14, <2>1
<1> QED BY <1>7, <1>8, <1>9, <1>10, <1>11, <1>12, <1>13, <1>14 DEF Readable

\* Reading the commands of a stream in order is well defined.
LEMMA CommandFolds ==
  ASSUME NEW items, StreamOK(items)
  PROVE  \E f : /\ f[0] = Start
                /\ \A n \in 1..Len(items) : f[n] = readCommand(f[n - 1], items[n])
                /\ readCommands(items) = f[Len(items)]
<1> DEFINE N == Len(items)
           P == {items[i].party : i \in 1..N}
           body(f) == [n \in 0..N |-> IF n = 0 THEN Start ELSE readCommand(f[n - 1], items[n])]
           step == [n \in 1..N |-> [acc \in Reading(P) |-> readCommand(acc, items[n])]]
<1>1. readCommands(items) = (CHOOSE f : f = body(f))[N]
  BY DEF readCommands
<1>2. N \in Nat /\ \A n \in 1..N : CommandOK(items[n]) /\ items[n].party \in P
  BY DEF StreamOK
<1>3. ASSUME NEW n \in 1..N, NEW acc \in Reading(P)
      PROVE  readCommand(acc, items[n]) \in Reading(P)
  <2>1. 0 <= acc.outflow[Tracked]
    BY DecoderAssumption DEF Reading
  <2> HIDE DEF P
  <2> QED BY <1>2, <2>1, CommandStep
<1> HIDE DEF P
<1>4. step \in Steps(Reading(P), N)
  BY <1>3 DEF Steps
<1>5. \A n \in 1..N, acc \in Reading(P) : step[n][acc] = readCommand(acc, items[n])
  OBVIOUS
<1>6. Start \in Reading(P)
  BY StartFacts
<1> HIDE DEF step
<1>7. PICK f : IsFold(f, Reading(P), Start, N, step)
  BY <1>2, <1>4, <1>6, FoldExists
<1>8. f = body(f)
  <2>1. ASSUME NEW n \in 0..N
        PROVE  f[n] = IF n = 0 THEN Start ELSE readCommand(f[n - 1], items[n])
    <3>1. CASE n = 0
      BY <1>7, <3>1 DEF IsFold
    <3>2. CASE n # 0
      <4>1. n \in 1..N /\ f[n - 1] \in Reading(P)
        BY <1>2, <1>7, <3>2 DEF IsFold
      <4> QED BY <1>5, <1>7, <3>2, <4>1 DEF IsFold
    <3> QED BY <3>1, <3>2
  <2> QED BY <1>7, <2>1 DEF IsFold
<1> DEFINE g == CHOOSE x : x = body(x)
<1>9. g = body(g)
  <2> HIDE DEF body
  <2> QED BY <1>8, Zenon
<1> HIDE DEF g
<1>10. /\ g[0] = Start
       /\ \A n \in 1..N : g[n] = readCommand(g[n - 1], items[n])
  <2>1. ASSUME NEW n \in 0..N
        PROVE  g[n] = IF n = 0 THEN Start ELSE readCommand(g[n - 1], items[n])
    BY <1>9
  <2>2. 0 \in 0..N /\ \A n \in 1..N : n \in 0..N /\ n # 0
    BY <1>2
  <2> QED BY <2>1, <2>2
<1>11. readCommands(items) = g[N]
  BY <1>1 DEF g
<1> QED BY <1>10, <1>11

\* So is adding up what the router takes for them.
LEMMA TakeFolds ==
  ASSUME NEW items, StreamOK(items)
  PROVE  \E f : /\ f[0] = 0
                /\ \A n \in 1..Len(items) : f[n] = f[n - 1] + routerTakes(items[n])
                /\ streamTakes(items) = f[Len(items)]
<1> DEFINE N == Len(items)
           body(f) == [n \in 0..N |-> IF n = 0 THEN 0 ELSE f[n - 1] + routerTakes(items[n])]
           step == [n \in 1..N |-> [acc \in Nat |-> acc + routerTakes(items[n])]]
<1>1. streamTakes(items) = (CHOOSE f : f = body(f))[N]
  BY DEF streamTakes
<1>2. N \in Nat /\ \A n \in 1..N : CommandOK(items[n])
  BY DEF StreamOK
<1>3. ASSUME NEW n \in 1..N, NEW acc \in Nat
      PROVE  acc + routerTakes(items[n]) \in Nat
  <2> DEFINE failed == Fail(Start)
  <2>1. failed \in Reading({items[n].party}) /\ ~failed.ok
    BY StartFacts, FailFacts
  <2> HIDE DEF failed
  <2>2. routerTakes(items[n]) \in Nat
    BY <1>2, <2>1, CommandStep
  <2> QED BY <2>2
<1>4. step \in Steps(Nat, N)
  BY <1>3 DEF Steps
<1>5. \A n \in 1..N, acc \in Nat : step[n][acc] = acc + routerTakes(items[n])
  OBVIOUS
<1>6. 0 \in Nat
  OBVIOUS
<1> HIDE DEF step
<1>7. PICK f : IsFold(f, Nat, 0, N, step)
  BY <1>2, <1>4, <1>6, FoldExists
<1>8. f = body(f)
  <2>1. ASSUME NEW n \in 0..N
        PROVE  f[n] = IF n = 0 THEN 0 ELSE f[n - 1] + routerTakes(items[n])
    <3>1. CASE n = 0
      BY <1>7, <3>1 DEF IsFold
    <3>2. CASE n # 0
      <4>1. n \in 1..N /\ n - 1 \in 0..N
        BY <1>2, <3>2
      <4>2. f[n - 1] \in Nat /\ f[n] = step[n][f[n - 1]]
        BY <1>7, <4>1 DEF IsFold
      <4> QED BY <1>5, <3>2, <4>1, <4>2
    <3> QED BY <3>1, <3>2
  <2> QED BY <1>7, <2>1 DEF IsFold
<1> DEFINE g == CHOOSE x : x = body(x)
<1>9. g = body(g)
  <2> HIDE DEF body
  <2> QED BY <1>8, Zenon
<1> HIDE DEF g
<1>10. /\ g[0] = 0
       /\ \A n \in 1..N : g[n] = g[n - 1] + routerTakes(items[n])
  <2>1. ASSUME NEW n \in 0..N
        PROVE  g[n] = IF n = 0 THEN 0 ELSE g[n - 1] + routerTakes(items[n])
    BY <1>9
  <2>2. 0 \in 0..N /\ \A n \in 1..N : n \in 0..N /\ n # 0
    BY <1>2
  <2> QED BY <2>1, <2>2
<1>11. streamTakes(items) = g[N]
  BY <1>1 DEF g
<1> QED BY <1>10, <1>11

\* A stream that can be read takes at most the outflow read from it.
LEMMA StreamCovers ==
  ASSUME NEW items, StreamOK(items)
  PROVE  /\ readCommands(items).ok \in BOOLEAN
         /\ readCommands(items).outflow \in [Assets -> Nat]
         /\ streamTakes(items) \in Nat
         /\ readCommands(items).ok =>
              streamTakes(items) <= readCommands(items).outflow[Tracked]
<1> DEFINE N == Len(items)
           P == {items[i].party : i \in 1..N}
<1>1. N \in Nat /\ \A n \in 1..N : CommandOK(items[n]) /\ items[n].party \in P
  BY DEF StreamOK
<1> HIDE DEF P
<1>2. PICK f : /\ f[0] = Start
               /\ \A n \in 1..N : f[n] = readCommand(f[n - 1], items[n])
               /\ readCommands(items) = f[N]
  BY CommandFolds
<1>3. PICK g : /\ g[0] = 0
               /\ \A n \in 1..N : g[n] = g[n - 1] + routerTakes(items[n])
               /\ streamTakes(items) = g[N]
  BY TakeFolds
<1> DEFINE Good(n) == /\ f[n] \in Reading(P) /\ g[n] \in Nat
                      /\ f[n].ok => g[n] <= f[n].outflow[Tracked]
           G == {n \in 0..N : Good(n)}
<1>4. Good(0)
  <2>1. Start \in Reading(P) /\ Start.outflow[Tracked] = 0
    BY StartFacts
  <2> QED BY <1>2, <1>3, <2>1
<1>5. ASSUME NEW n \in 1..N, Good(n - 1) PROVE Good(n)
  <2>1. /\ f[n] \in Reading(P) /\ routerTakes(items[n]) \in Nat
        /\ f[n].ok => g[n - 1] + routerTakes(items[n]) <= f[n].outflow[Tracked]
    <3> DEFINE c == items[n]
               acc == f[n - 1]
               total == g[n - 1]
    <3>1. /\ CommandOK(c) /\ c.party \in P /\ acc \in Reading(P) /\ total \in Nat
          /\ acc.ok => total <= acc.outflow[Tracked]
          /\ f[n] = readCommand(acc, c)
      BY <1>1, <1>2, <1>5
    <3> HIDE DEF c, acc, total
    <3>2. /\ readCommand(acc, c) \in Reading(P) /\ routerTakes(c) \in Nat
          /\ readCommand(acc, c).ok =>
               total + routerTakes(c) <= readCommand(acc, c).outflow[Tracked]
      BY <3>1, CommandStep
    <3> QED BY <3>1, <3>2 DEF c, acc, total
  <2> QED BY <1>3, <1>5, <2>1
<1> HIDE DEF Good
<1>6. 0 \in G /\ \A n \in 1..N : n - 1 \in G => n \in G
  <2>1. 0 \in 0..N /\ \A n \in 1..N : n \in 0..N
    BY <1>1
  <2> QED BY <1>4, <1>5, <2>1
<1> HIDE DEF G
<1>7. 0..N \subseteq G
  BY <1>1, <1>6, Positions
<1>8. Good(N)
  BY <1>1, <1>7 DEF G
<1> QED BY <1>2, <1>3, <1>8 DEF Good, Reading

-----------------------------------------------------------------------------
(* An action *)

\* The one decoder that claims an action decides.
LEMMA OneClaim ==
  ASSUME NEW act, NEW i,
         erc20Decoder(act) \cup uniswapV4Decoder(act) \cup x402Decoder(act)
           \cup nativeDecoder(act) = {i}
  PROVE  decode(act) = i
<1>1. (CHOOSE j \in {i} : TRUE) = i
  OBVIOUS
<1> QED BY <1>1 DEF decode, dispatch

\* What the engine is told covers what the chain would measure, for every action
\* and a router stream of any length, if no call can take more than UNBOUNDED.
THEOREM DecodedCovers ==
  ASSUME NEW act, ActionOK(act), mostTaken(act) <= UNBOUNDED
  PROVE  /\ decoded(act).notional \in Nat /\ decoded(act).moved \in Nat
         /\ decoded(act).moved <= decoded(act).notional
<1> DEFINE c == act.call
           of(kind, party, token, n) ==
             intent(kind, act.to, {party}, add(NoOutflow, token, n))
           Covered == decode(act).notional \in Nat /\ mostTaken(act) \in Nat
                      /\ mostTaken(act) <= decode(act).notional
<1>0. Covered => /\ decoded(act).notional \in Nat /\ decoded(act).moved \in Nat
                 /\ decoded(act).moved <= decoded(act).notional
  BY DEF decoded, measured
<1>1. ASSUME NEW kind, NEW party, NEW token, NEW n \in Nat
      PROVE  of(kind, party, token, n).notional \in Nat
             /\ of(kind, party, token, n).notional >= If(token, n)
             /\ If(token, n) \in Nat
  <2>1. NoOutflow \in [Assets -> Nat] /\ NoOutflow[Tracked] = 0
    BY StartFacts
  <2>2. of(kind, party, token, n).notional = add(NoOutflow, token, n)[Tracked]
    BY DEF intent
  <2> HIDE DEF of
  <2> QED BY <2>1, <2>2, AddFacts
<1>2. CASE c.selector \in {"transfer", "settle"}
  <2> DEFINE token == IF c.selector = "transfer" THEN act.to ELSE c.token
             kind == IF c.selector = "transfer" THEN "TRANSFER" ELSE "X402_PAYMENT"
  <2>1. decode(act) = of(kind, c.party, token, c.amount)
    <3>1. /\ c.selector = "transfer" =>
               erc20Decoder(act) = {of(kind, c.party, token, c.amount)}
          /\ c.selector = "settle" => erc20Decoder(act) = {}
      BY <1>2 DEF erc20Decoder
    <3>2. /\ c.selector = "settle" =>
               x402Decoder(act) = {of(kind, c.party, token, c.amount)}
          /\ c.selector = "transfer" => x402Decoder(act) = {}
      BY <1>2 DEF x402Decoder
    <3>3. uniswapV4Decoder(act) = {} /\ nativeDecoder(act) = {}
      BY <1>2 DEF uniswapV4Decoder, nativeDecoder
    <3> HIDE DEF of, token, kind
    <3>4. erc20Decoder(act) \cup uniswapV4Decoder(act) \cup x402Decoder(act)
            \cup nativeDecoder(act) = {of(kind, c.party, token, c.amount)}
      BY <1>2, <3>1, <3>2, <3>3
    <3> QED BY <3>4, OneClaim
  <2>2. mostTaken(act) = If(token, c.amount)
    BY <1>2 DEF mostTaken
  <2>3. c.amount \in Nat
    BY <1>2 DEF ActionOK
  <2> HIDE DEF of, token, kind
  <2>4. Covered
    BY <1>1, <2>1, <2>2, <2>3
  <2> QED BY <1>0, <2>4
<1>3. CASE c.selector = "transferFrom"
  <2> DEFINE n == IF c.from = Account THEN c.amount ELSE 0
  <2>1. decode(act) = of("TRANSFER", c.party, act.to, n)
    <3>1. /\ erc20Decoder(act) = {of("TRANSFER", c.party, act.to, n)}
          /\ x402Decoder(act) = {} /\ uniswapV4Decoder(act) = {} /\ nativeDecoder(act) = {}
      BY <1>3 DEF erc20Decoder, x402Decoder, uniswapV4Decoder, nativeDecoder
    <3> HIDE DEF of, n
    <3>2. erc20Decoder(act) \cup uniswapV4Decoder(act) \cup x402Decoder(act)
            \cup nativeDecoder(act) = {of("TRANSFER", c.party, act.to, n)}
      BY <3>1
    <3> QED BY <3>2, OneClaim
  <2>2. mostTaken(act) = If(act.to, n)
    BY <1>3 DEF mostTaken, If
  <2>3. n \in Nat
    BY <1>3 DEF ActionOK
  <2> HIDE DEF of, n
  <2>4. Covered
    BY <1>1, <2>1, <2>2, <2>3
  <2> QED BY <1>0, <2>4
<1>4. CASE c.selector \in Approvals
  <2> DEFINE token == IF c.selector = "permit2Approve" THEN c.token ELSE act.to
             n == approvalOutflow(c.amount)
  <2>1. decode(act) = of("APPROVE", c.party, token, n)
    <3>1. /\ erc20Decoder(act) = {of("APPROVE", c.party, token, n)}
      BY <1>4 DEF erc20Decoder, Approvals
    <3>2. x402Decoder(act) = {} /\ uniswapV4Decoder(act) = {} /\ nativeDecoder(act) = {}
      BY <1>4 DEF x402Decoder, uniswapV4Decoder, nativeDecoder, Approvals
    <3> HIDE DEF of, token, n
    <3>3. erc20Decoder(act) \cup uniswapV4Decoder(act) \cup x402Decoder(act)
            \cup nativeDecoder(act) = {of("APPROVE", c.party, token, n)}
      BY <3>1, <3>2
    <3> QED BY <3>3, OneClaim
  <2>2. mostTaken(act) = 0
    BY <1>4 DEF mostTaken, Approvals
  <2>3. n \in Nat
    BY <1>4, DecoderAssumption DEF ActionOK, approvalOutflow
  <2> HIDE DEF of, token, n
  <2>4. Covered
    BY <1>1, <2>1, <2>2, <2>3
  <2> QED BY <1>0, <2>4
<1>5. CASE c.selector = "execute"
  <2> DEFINE items == c.stream.items
             total == readCommands(items)
             claim == IF c.stream.malformed THEN unboundedSwap(act) ELSE swap(act, total)
  <2>1. erc20Decoder(act) = {} /\ x402Decoder(act) = {} /\ nativeDecoder(act) = {}
    BY <1>5 DEF erc20Decoder, x402Decoder, nativeDecoder
  <2>2. uniswapV4Decoder(act) = {claim}
    <3>1. CASE c.stream.malformed
      BY <1>5, <3>1 DEF uniswapV4Decoder, readCommandStream
    <3>2. CASE ~c.stream.malformed
      <4>1. readCommandStream(c.stream) = {items}
        BY <3>2 DEF readCommandStream
      <4>2. {swap(act, readCommands(s)) : s \in {items}} = {swap(act, total)}
        OBVIOUS
      <4> QED BY <1>5, <3>2, <4>1, <4>2 DEF uniswapV4Decoder
    <3> QED BY <3>1, <3>2
  <2>3. decode(act) = claim
    <3> HIDE DEF claim
    <3>1. erc20Decoder(act) \cup uniswapV4Decoder(act) \cup x402Decoder(act)
            \cup nativeDecoder(act) = {claim}
      BY <2>1, <2>2
    <3> QED BY <3>1, OneClaim
  <2>4. /\ unboundedSwap(act).notional \in Nat /\ UNBOUNDED \in Nat
        /\ unboundedSwap(act).notional >= UNBOUNDED
    <3>1. unboundedSwap(act) = of("UNKNOWN", act.to, Tracked, UNBOUNDED)
      BY DEF unboundedSwap
    <3>2. If(Tracked, UNBOUNDED) = UNBOUNDED
      BY DEF If
    <3>3. UNBOUNDED \in Nat
      BY DecoderAssumption
    <3> HIDE DEF of
    <3> QED BY <1>1, <3>1, <3>2, <3>3
  <2>5. CASE c.stream.malformed
    <3>1. mostTaken(act) = 0
      BY <1>5, <2>5 DEF mostTaken
    <3>2. decode(act) = unboundedSwap(act)
      BY <2>3, <2>5
    <3>3. Covered
      BY <2>4, <3>1, <3>2
    <3> QED BY <1>0, <3>3
  <2>6. CASE ~c.stream.malformed
    <3>1. mostTaken(act) = streamTakes(items)
      BY <1>5, <2>6 DEF mostTaken
    <3>2. StreamOK(items)
      BY <1>5, <2>6 DEF ActionOK
    <3>3. /\ total.ok \in BOOLEAN /\ total.outflow \in [Assets -> Nat]
          /\ streamTakes(items) \in Nat
          /\ total.ok => streamTakes(items) <= total.outflow[Tracked]
      BY <3>2, StreamCovers
    <3> HIDE DEF total
    <3>4. decode(act) = swap(act, total)
      BY <2>3, <2>6
    <3>5. CASE ~total.ok
      <4>1. decode(act) = unboundedSwap(act)
        BY <3>4, <3>5 DEF swap
      <4>2. Covered
        BY <2>4, <3>1, <3>3, <4>1
      <4> QED BY <1>0, <4>2
    <3>6. CASE total.ok
      <4>1. decode(act).notional = total.outflow[Tracked]
        BY <3>4, <3>6 DEF swap, intent
      <4>2. total.outflow[Tracked] \in Nat
        BY <3>3, DecoderAssumption
      <4>3. Covered
        BY <3>1, <3>3, <3>6, <4>1, <4>2
      <4> QED BY <1>0, <4>3
    <3> QED BY <3>5, <3>6
  <2> QED BY <2>5, <2>6
<1>6. CASE c.selector \notin {"transfer", "settle", "transferFrom", "execute"} \cup Approvals
  <2>1. /\ erc20Decoder(act) = {} /\ x402Decoder(act) = {} /\ uniswapV4Decoder(act) = {}
        /\ mostTaken(act) = 0
    BY <1>6 DEF erc20Decoder, x402Decoder, uniswapV4Decoder, mostTaken, Approvals
  <2>2. CASE c.selector = "none" /\ act.value > 0
    <3>1. nativeDecoder(act) = {of("NATIVE_TRANSFER", act.to, Native, act.value)}
      BY <2>2 DEF nativeDecoder
    <3>2. act.value \in Nat
      BY DEF ActionOK
    <3> HIDE DEF of
    <3>3. decode(act) = of("NATIVE_TRANSFER", act.to, Native, act.value)
      <4>1. erc20Decoder(act) \cup uniswapV4Decoder(act) \cup x402Decoder(act)
              \cup nativeDecoder(act) = {of("NATIVE_TRANSFER", act.to, Native, act.value)}
        BY <2>1, <3>1
      <4> QED BY <4>1, OneClaim
    <3>4. Covered
      BY <1>1, <2>1, <3>2, <3>3
    <3> QED BY <1>0, <3>4
  <2>3. CASE ~(c.selector = "none" /\ act.value > 0)
    <3>1. nativeDecoder(act) = {}
      BY <2>3 DEF nativeDecoder
    <3> DEFINE unknown == intent("UNKNOWN", act.to, {}, add(NoOutflow, Tracked, UNBOUNDED))
    <3>2. decode(act) = unknown
      BY <2>1, <3>1 DEF decode, dispatch
    <3>3. unknown.notional = of("UNKNOWN", act.to, Tracked, UNBOUNDED).notional
      BY DEF intent
    <3>4. UNBOUNDED \in Nat
      BY DecoderAssumption
    <3> HIDE DEF of, unknown
    <3>5. Covered
      BY <1>1, <2>1, <3>2, <3>3, <3>4
    <3> QED BY <1>0, <3>5
  <2> QED BY <2>2, <2>3
<1> QED BY <1>2, <1>3, <1>4, <1>5, <1>6

-----------------------------------------------------------------------------
(* Through the agent *)

\* Every call is for an action as the decoders tell it to the engine, and none
\* can take more than UNBOUNDED (2^255, beyond the supply of any asset).
FromDecoders ==
  \A i \in Intents : \E act : /\ ActionOK(act) /\ mostTaken(act) <= UNBOUNDED
                             /\ i = decoded(act)

\* No call takes more of the asset than the figure the limits were compared with
\* ("never the quoted amount", uniswapV4.ts), whatever the actions are, their
\* number of commands and of nested v4 actions included.
THEOREM NotionalCoversOutflowHolds ==
  ASSUME FromDecoders
  PROVE  Spec => []NotionalCoversOutflow
<1>1. \A i \in Intents : i.moved <= i.notional
  BY DecodedCovers DEF FromDecoders
<1>2. IInv => NotionalCoversOutflow
  <2> SUFFICES ASSUME IInv PROVE NotionalCoversOutflow
    OBVIOUS
  <2>1. ASSUME NEW r \in Runs PROVE run[r].intent \in Intents
    BY StartsFrom
  <2>2. ASSUME NEW id \in Ids PROVE ops[id].intent \in Intents
    BY StartsFrom DEF OpType
  <2> QED BY <1>1, <2>1, <2>2 DEF NotionalCoversOutflow
<1> QED BY <1>2, AgentInductive, PTL

\* So the agreement of the two layers needs no assumption about the intents: it
\* is enough that they come from the decoders.
THEOREM DecodedIsExecutable ==
  ASSUME FromDecoders, contractsOf(Policy) \cup Policy.allowedRecipients \subseteq Installed
  PROVE  Spec => []AllowedIsExecutable
<1>1. \A i \in Intents : i.moved <= i.notional
  BY DecodedCovers DEF FromDecoders
<1> QED BY <1>1, AllowedIsExecutableHolds
=============================================================================
