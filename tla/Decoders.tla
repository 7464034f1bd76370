------------------------------- MODULE Decoders -------------------------------
(***************************************************************************)
(* packages/sdk/src/decode: what the engine is told an action does.        *)
(*                                                                         *)
(* Calldata is its selector and its arguments; a router stream is its      *)
(* sequence of commands.  Bytes that cannot be read are marked as such:    *)
(* outside the router they make the decoder throw, and with it the call,   *)
(* so no intent exists; inside it they make the stream unbounded.          *)
(***************************************************************************)
EXTENDS PolicyEngine

CONSTANTS
  Account,       \* the protected account
  Tracked,       \* the asset whose spend is bounded
  Native,        \* NATIVE_ASSET
  ZeroCurrency,  \* v4's address for the native currency
  Assets,        \* addresses that may be called as, or named as, a token
  Unlimited,     \* from here on an allowance is unlimited
  Permit2Unlimited,
  UNBOUNDED      \* larger than any amount

ASSUME DecoderAssumption ==
  /\ {Tracked, Native} \subseteq Assets /\ Tracked # ZeroCurrency
  /\ {Unlimited, Permit2Unlimited, UNBOUNDED} \subseteq Nat
  /\ Unlimited < Permit2Unlimited /\ Permit2Unlimited < UNBOUNDED

-----------------------------------------------------------------------------
(* Outflow: the worst case of each currency *)

NoOutflow == [a \in Assets |-> 0]

canonicalAsset(a) == IF a = ZeroCurrency THEN Native ELSE a

add(o, a, n) == [o EXCEPT ![canonicalAsset(a)] = @ + n]

atLeast(o, a, n) == [o EXCEPT ![canonicalAsset(a)] = IF n > @ THEN n ELSE @]

merge(o, p) == [a \in Assets |-> o[a] + p[a]]

\* notionalUSDC is the outflow of the tracked asset, in every decoder.
intent(kind, target, counterparty, outflow) ==
  [kind |-> kind, target |-> target, counterparty |-> counterparty,
   movesValue |-> \E a \in Assets : outflow[a] > 0, notional |-> outflow[Tracked]]

-----------------------------------------------------------------------------
(* Tokens, payments and plain sends *)

\* An allowance counts in full.
approvalOutflow(n) == IF n >= Unlimited THEN UNBOUNDED ELSE n

erc20Decoder(act) ==
  LET c == act.call
      of(kind, party, token, n) ==
        {intent(kind, act.to, {party}, add(NoOutflow, token, n))}
  IN
  CASE c.selector = "transfer" -> of("TRANSFER", c.party, act.to, c.amount)
    [] c.selector = "transferFrom" ->
         of("TRANSFER", c.party, act.to, IF c.from = Account THEN c.amount ELSE 0)
    [] c.selector \in {"approve", "increaseAllowance"} ->
         of("APPROVE", c.party, act.to, approvalOutflow(c.amount))
    [] c.selector = "permit2Approve" ->
         of("APPROVE", c.party, c.token, approvalOutflow(c.amount))
    [] OTHER -> {}

x402Decoder(act) ==
  LET c == act.call IN
  IF c.selector = "settle"
    THEN {intent("X402_PAYMENT", act.to, {c.party}, add(NoOutflow, c.token, c.amount))}
    ELSE {}

\* The action that answers a 402 challenge.
x402PaymentAction(facilitator, token, payTo, amount) ==
  [to |-> facilitator, value |-> 0,
   call |-> [selector |-> "settle", token |-> token, party |-> payTo, amount |-> amount]]

nativeDecoder(act) ==
  IF act.call.selector = "none" /\ act.value > 0
    THEN {intent("NATIVE_TRANSFER", act.to, {act.to}, add(NoOutflow, Native, act.value))}
    ELSE {}

-----------------------------------------------------------------------------
(* The Universal Router *)

unboundedSwap(act) ==
  intent("UNKNOWN", act.to, {act.to}, add(NoOutflow, Tracked, UNBOUNDED))

\* (bytes, bytes[]): nothing, or the sequence, when it is malformed or its two
\* lengths differ.
readCommandStream(stream) == IF stream.malformed THEN {} ELSE {stream.items}

\* A packed path of at least one token.  An address[], which V2 uses, reads as
\* one shorter than a token.
readPath(path) == IF path.packed THEN path.tokens ELSE <<>>

pathFirstToken(path) == Head(readPath(path))
pathLastToken(path) == readPath(path)[Len(readPath(path))]

Start == [ok |-> TRUE, outflow |-> NoOutflow, recipient |-> {}]
Fail(acc) == [acc EXCEPT !.ok = FALSE]

\* One v4 action.  A swap adds what goes in, SETTLE what is paid besides, and
\* SETTLE_ALL caps what the swaps before it may take; takes are inbound.
readV4Action(acc, a) ==
  LET paying(n) == [acc EXCEPT !.outflow = add(@, IF a.zeroForOne THEN a.currency0 ELSE a.currency1, n)]
  IN
  IF ~acc.ok \/ ~a.readable THEN Fail(acc) ELSE
  CASE a.type = "SWAP_EXACT_IN_SINGLE" -> paying(a.amount)
    [] a.type = "SWAP_EXACT_OUT_SINGLE" -> paying(a.max)
    [] a.type = "SETTLE" ->
         IF a.payerIsUser THEN [acc EXCEPT !.outflow = add(@, a.currency0, a.amount)] ELSE acc
    [] a.type = "SETTLE_ALL" -> [acc EXCEPT !.outflow = atLeast(@, a.currency0, a.max)]
    [] a.type \in {"SETTLE_PAIR", "TAKE", "CLOSE_CURRENCY"} -> acc
    [] OTHER -> Fail(acc)

readV4Actions(items) ==
  LET after[n \in 0..Len(items)] ==
        IF n = 0 THEN Start ELSE readV4Action(after[n - 1], items[n])
  IN  after[Len(items)]

readV4Outflow(stream) ==
  IF readCommandStream(stream) = {} THEN Fail(Start)
  ELSE readV4Actions(CHOOSE s \in readCommandStream(stream) : TRUE)

ExactIn == {"V3_SWAP_EXACT_IN", "V2_SWAP_EXACT_IN"}
ExactOut == {"V3_SWAP_EXACT_OUT", "V2_SWAP_EXACT_OUT"}

\* mutant: an exact-output swap is charged what it buys.
QuotedInput(c) == c.amount

\* The maximum, never the quote.
exactOutInput(c) == c.max

\* One command; the first recipient named is the counterparty.
readCommand(acc, c) ==
  LET charge(token, n) ==
        [acc EXCEPT !.outflow = add(@, token, n),
                    !.recipient = IF @ = {} THEN {c.party} ELSE @]
      charging(token, n) == [acc EXCEPT !.outflow = add(@, token, n)]
      alongPath(reading) == IF readPath(c.path) = <<>> THEN Fail(acc) ELSE reading
      merging(nested) == IF nested.ok THEN [acc EXCEPT !.outflow = merge(@, nested.outflow)]
                         ELSE Fail(acc)
  IN
  IF ~acc.ok \/ ~c.readable THEN Fail(acc) ELSE
  CASE c.type \in ExactIn -> alongPath(charge(pathFirstToken(c.path), c.amount))
    [] c.type \in ExactOut -> alongPath(charge(pathLastToken(c.path), exactOutInput(c)))
    [] c.type = "V4_SWAP" -> merging(readV4Outflow(c.actions))
    [] c.type \in {"TRANSFER", "PERMIT2_TRANSFER_FROM"} -> charge(c.token, c.amount)
    [] c.type = "PERMIT2_PERMIT" ->
         charging(c.token, IF c.amount >= Permit2Unlimited THEN UNBOUNDED ELSE c.amount)
    [] c.type = "WRAP_ETH" -> charging(Native, c.amount)
    [] c.type \in {"UNWRAP_WETH", "PAY_PORTION", "SWEEP"} -> acc
    [] OTHER -> Fail(acc)

readCommands(items) ==
  LET after[n \in 0..Len(items)] ==
        IF n = 0 THEN Start ELSE readCommand(after[n - 1], items[n])
  IN  after[Len(items)]

\* What was read of a whole stream.
swap(act, total) ==
  IF ~total.ok THEN unboundedSwap(act)
  ELSE intent("SWAP", act.to, IF total.recipient = {} THEN {act.to} ELSE total.recipient,
              total.outflow)

uniswapV4Decoder(act) ==
  IF act.call.selector # "execute" THEN {}
  ELSE IF readCommandStream(act.call.stream) = {} THEN {unboundedSwap(act)}
  ELSE {swap(act, readCommands(s)) : s \in readCommandStream(act.call.stream)}

-----------------------------------------------------------------------------
(* What the bytes of an action can hold; the addresses are any.              *)

V4Action == [type: STRING, readable: BOOLEAN, zeroForOne: BOOLEAN,
             currency0: Assets \cup {ZeroCurrency},
             currency1: Assets \cup {ZeroCurrency},
             amount: Nat, max: Nat, payerIsUser: BOOLEAN]

\* What the arguments of a command are depends on its type.
CommandOK(c) ==
  /\ c.readable \in BOOLEAN
  /\ IF c.type = "V4_SWAP"
       THEN c.actions.malformed \in BOOLEAN /\ c.actions.items \in Seq(V4Action)
       ELSE /\ c.amount \in Nat
            /\ c.type \in ExactIn \cup ExactOut => c.path.packed \in BOOLEAN
            /\ c.type \in ExactOut => c.max \in Nat

StreamOK(items) ==
  Len(items) \in Nat /\ \A i \in 1..Len(items) : CommandOK(items[i])

Approvals == {"approve", "increaseAllowance", "permit2Approve"}

ActionOK(act) ==
  /\ act.value \in Nat
  /\ act.call.selector \in {"transfer", "transferFrom", "settle"} \cup Approvals =>
       act.call.amount \in Nat
  /\ act.call.selector = "execute" =>
       /\ act.call.stream.malformed \in BOOLEAN
       /\ ~act.call.stream.malformed => StreamOK(act.call.stream.items)

-----------------------------------------------------------------------------
(* DecoderRegistry *)

\* The decoder of the selector, then the wildcard, then UNKNOWN without a bound
\* and without a counterparty.
dispatch(claimed, act) ==
  IF claimed # {} THEN CHOOSE i \in claimed : TRUE
  ELSE intent("UNKNOWN", act.to, {}, add(NoOutflow, Tracked, UNBOUNDED))

decode(act) ==
  dispatch(erc20Decoder(act) \cup uniswapV4Decoder(act) \cup x402Decoder(act)
             \cup nativeDecoder(act), act)

-----------------------------------------------------------------------------
(* What a call can really take of the tracked asset: the token, the x402     *)
(* facilitator and the router, which are external.                           *)

Least(x, y) == IF x < y THEN x ELSE y
If(token, n) == IF token = Tracked THEN n ELSE 0

\* v4 keeps a debt that swaps make and settling pays: all of it, or the amount
\* named.
v4Takes(acc, a) ==
  LET owe(n) == [acc EXCEPT !.debt = @ + If(IF a.zeroForOne THEN a.currency0 ELSE a.currency1, n)]
      pay(n) == [debt |-> acc.debt - Least(acc.debt, n), paid |-> acc.paid + n]
      settles == a.currency0 = Tracked
  IN
  CASE a.type \in {"SWAP_EXACT_IN_SINGLE", "SWAP_EXACT_IN"} -> owe(a.amount)
    [] a.type = "SWAP_EXACT_OUT_SINGLE" -> owe(a.max)
    [] a.type = "SETTLE" /\ settles ->
         IF ~a.payerIsUser THEN [acc EXCEPT !.debt = 0]
         ELSE IF a.amount = 0 THEN pay(acc.debt) ELSE pay(a.amount)
    [] a.type = "SETTLE_ALL" /\ settles -> pay(Least(acc.debt, a.max))
    [] a.type \in {"SETTLE_PAIR", "CLOSE_CURRENCY"} -> pay(acc.debt)
    [] OTHER -> acc

v4Debts(items) ==
  LET after[n \in 0..Len(items)] ==
        IF n = 0 THEN [debt |-> 0, paid |-> 0] ELSE v4Takes(after[n - 1], items[n])
  IN  after[Len(items)]

routerTakes(c) ==
  CASE c.type \in ExactIn -> If(Head(c.path.tokens), c.amount)
    [] c.type \in ExactOut -> If(c.path.tokens[Len(c.path.tokens)], c.max)
    [] c.type = "PERMIT2_TRANSFER_FROM" -> If(c.token, c.amount)
    [] c.type = "V4_SWAP" -> v4Debts(c.actions.items).paid
    [] OTHER -> 0

streamTakes(items) ==
  LET after[n \in 0..Len(items)] ==
        IF n = 0 THEN 0 ELSE after[n - 1] + routerTakes(items[n])
  IN  after[Len(items)]

\* A call the chain refuses to read takes nothing.
mostTaken(act) ==
  LET c == act.call IN
  CASE c.selector = "transfer" -> If(act.to, c.amount)
    [] c.selector = "transferFrom" /\ c.from = Account -> If(act.to, c.amount)
    [] c.selector = "settle" -> If(c.token, c.amount)
    [] c.selector = "execute" /\ ~c.stream.malformed ->
         streamTakes(c.stream.items)
    [] OTHER -> 0

\* The intent of an action, with what the chain would measure at most.
measured(i, n) ==
  [kind |-> i.kind, target |-> i.target, counterparty |-> i.counterparty,
   movesValue |-> i.movesValue, notional |-> i.notional, moved |-> n]

decoded(act) == measured(decode(act), mostTaken(act))
=============================================================================
