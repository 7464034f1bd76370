-------------------------- MODULE GraphStateProvider --------------------------
(***************************************************************************)
(* packages/sdk/src/state/GraphStateProvider.ts: where the SDK learns how  *)
(* much was spent today.  A read looks in a cache, then asks the subgraph, *)
(* then the hook's accumulator, and keeps the larger answer; every `await' *)
(* of it is a point where other reads, executions and the chain move.      *)
(*                                                                         *)
(* The chain and the indexer it reads from are here too: the window the    *)
(* hook stores, the account's balance, and the subgraph's daily aggregate, *)
(* which copies the dayTotal of SpendRecorded and lags behind it.          *)
(***************************************************************************)
EXTENDS PolicyLib, FiniteSets

CONSTANTS
  Runs,      \* concurrent callers of the SDK
  LastDay    \* bound: days explored

Days == 1..LastDay

ASSUME StateAssumption == LastDay \in Nat \ {0} /\ IsFiniteSet(Runs)

VARIABLES
  window,    \* chain: the hook's window for the account
  balance,   \* chain: the account's balance of the asset
  today,     \* chain and host: the UTC day
  dayTotal,  \* chain: the last SpendRecorded.dayTotal of each day
  indexed,   \* subgraph: DailyAggregate.totalOutflow of each day
  cache,     \* the provider's cache: the unexpired value of each day, or {}
  read,      \* the state of each caller's gatherState
  recorded,  \* history: the spend known to be recorded when a day's cache was
             \* last dropped with no other read under way
  chainDown  \* history: some read of the accumulator has failed

chainVars == <<window, balance, today, dayTotal>>
spendVars == <<indexed, cache, recorded, chainDown>>
providerVars == <<spendVars, read>>

Stages == {"none", "indexed", "onchain", "done", "failed"}

NoRead == [stage |-> "none", day |-> 1, indexed |-> {}, spend |-> 0,
           funds |-> "none", balance |-> 0, atLeast |-> 0, clean |-> FALSE]

InFlight(r) == read[r].stage \in {"indexed", "onchain"}

-----------------------------------------------------------------------------
(* A read *)

\* gatherState: the day is fixed now, the two reads of Promise.all start.  A
\* cached value answers at once.
getDailySpend(r) ==
  LET hit == cache[today] # {}
  IN  read' = [read EXCEPT ![r] =
        [stage |-> IF hit THEN "done" ELSE "indexed", day |-> today,
         indexed |-> {},
         spend |-> IF hit THEN CHOOSE v \in cache[today] : TRUE ELSE 0,
         funds |-> "asked", balance |-> 0,
         atLeast |-> recorded[today], clean |-> ~hit]]

\* The subgraph answers, or errors and is treated as undefined.
queryIndexedSpend(r) ==
  /\ read[r].stage = "indexed"
  /\ \E answer \in {{}, {indexed[read[r].day]}} :
       read' = [read EXCEPT ![r].stage = "onchain", ![r].indexed = answer]
  /\ UNCHANGED <<indexed, cache, recorded, chainDown>>

\* A window of another day means nothing was spent on the day asked about.
onchainSpend(day) == IF window.day = day THEN window.spent ELSE 0

\* mutant: the two sources are added up.
ReconcileSums(sources) ==
  IF Cardinality(sources) = 2 THEN (CHOOSE v \in sources : TRUE) +
    (CHOOSE v \in sources : v # CHOOSE w \in sources : TRUE)
  ELSE CHOOSE v \in sources : TRUE

\* Of the sources that answered, the one that permits less.
reconcile(sources) == CHOOSE v \in sources : \A w \in sources : w <= v

\* The hook's accumulator is read; then, with no await between them, the two
\* are reconciled and the result is cached.  With neither source the read
\* throws StateUnavailableError.
readOnchainSpend(r) ==
  LET day == read[r].day IN
  /\ read[r].stage = "onchain"
  /\ \E answer \in {{}, {onchainSpend(day)}} :
       LET sources == read[r].indexed \cup answer IN
       /\ IF sources = {}
            THEN /\ read' = [read EXCEPT ![r].stage = "failed"]
                 /\ UNCHANGED cache
            ELSE /\ read' = [read EXCEPT ![r].stage = "done",
                                         ![r].spend = reconcile(sources),
                                         ![r].clean = @ /\ answer # {}]
                 /\ cache' = [cache EXCEPT ![day] = {reconcile(sources)}]
       /\ chainDown' = (chainDown \/ answer = {})
  /\ UNCHANGED <<indexed, recorded>>

\* The other half of Promise.all: the balance.
getBalance(r) ==
  /\ read[r].funds = "asked"
  /\ read' = [read EXCEPT ![r].funds = "answered", ![r].balance = balance]
  /\ UNCHANGED <<indexed, cache, recorded, chainDown>>

\* mutant: the cache is left to expire.
CacheKept == cache

\* recordExecution drops today's entry.
invalidatedCache == [cache EXCEPT ![today] = {}]

recordExecution ==
  /\ cache' = invalidatedCache
  /\ recorded' = IF \E q \in Runs : InFlight(q) THEN recorded
                 ELSE [recorded EXCEPT ![today] = onchainSpend(today)]
  /\ UNCHANGED <<indexed, chainDown>>

\* ttlMs passes.
expire(d) ==
  /\ cache[d] # {}
  /\ cache' = [cache EXCEPT ![d] = {}]
  /\ UNCHANGED <<indexed, read, recorded, chainDown>>

-----------------------------------------------------------------------------
(* The chain and the indexer *)

\* handleSpendRecorded: the aggregate takes the event's dayTotal.
handleSpendRecorded(d) ==
  /\ indexed[d] # dayTotal[d]
  /\ indexed' = [indexed EXCEPT ![d] = dayTotal[d]]
  /\ UNCHANGED <<cache, read, recorded, chainDown>>

\* The operation a read was gathered for may now meet another chain state.
Unclean(q) == read' = [r \in Runs |-> IF r = q THEN read[r]
                                      ELSE [read[r] EXCEPT !.clean = FALSE]]

InitState(opening) ==
  /\ window = ZeroWindow
  /\ balance = opening
  /\ today = 1
  /\ dayTotal = [d \in Days |-> 0]
  /\ indexed = [d \in Days |-> 0]
  /\ cache = [d \in Days |-> {}]
  /\ read = [r \in Runs |-> NoRead]
  /\ recorded = [d \in Days |-> 0]
  /\ chainDown = FALSE

StateTypeOK ==
  /\ window \in Window /\ balance \in Uint /\ today \in Days
  /\ dayTotal \in [Days -> Uint] /\ indexed \in [Days -> Uint]
  /\ cache \in [Days -> {{}} \cup {{v} : v \in Uint}]
  /\ recorded \in [Days -> Uint] /\ chainDown \in BOOLEAN
  /\ read \in [Runs -> [stage: Stages, day: Days, indexed: SUBSET Uint,
                        spend: Uint, funds: {"none", "asked", "answered"},
                        balance: Uint, atLeast: Uint, clean: BOOLEAN]]
=============================================================================
