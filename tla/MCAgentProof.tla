----------------------------- MODULE MCAgentProof -----------------------------
EXTENDS AgentProof, Decoders, TLC

CONSTANTS r1, r2, asset, vendor, router, stranger, ether, zero

MCAssets == {asset, router, stranger, ether}

MCPolicy ==
  [maxTransaction |-> 2, dailySpend |-> 3, approvalThreshold |-> 2,
   minBalance |-> 1, allowedContracts |-> {router},
   allowedRecipients |-> {vendor}, asset |-> asset,
   allowUnknownSelectors |-> FALSE]

Transfer(to, n) ==
  [kind |-> "TRANSFER", target |-> asset, counterparty |-> {to},
   movesValue |-> n > 0, notional |-> n, moved |-> n]

\* A small payment and one at the approval threshold.
MCIntents == {Transfer(vendor, 1), Transfer(vendor, 2)}

MCOutside == {Transfer(vendor, 2)}

ExecuteCalls == {[mode |-> "execute", intent |-> i] : i \in MCIntents}

-----------------------------------------------------------------------------
(* Everything the decoders tell apart *)

Plain ==
  {[to |-> to, value |-> 1, call |-> [selector |-> s]] :
     to \in {vendor, router}, s \in {"none", "other"}}
  \cup {[to |-> to, value |-> 0, call |->
           [selector |-> s, party |-> who, from |-> from, token |-> token, amount |-> n]] :
         to \in {asset, router}, s \in {"transfer", "transferFrom", "approve", "permit2Approve"},
         who \in {vendor, stranger}, from \in {Account, stranger},
         token \in {asset, stranger}, n \in {1, 2}}
  \cup {[to |-> asset, value |-> 0, call |->
           [selector |-> "increaseAllowance", party |-> vendor, amount |-> Unlimited]]}
  \cup {x402PaymentAction(router, asset, vendor, 1)}

V4Actions ==
  {[type |-> type, readable |-> TRUE, zeroForOne |-> z, currency0 |-> asset, currency1 |-> zero,
    amount |-> n, max |-> 2, payerIsUser |-> TRUE] :
     type \in {"SWAP_EXACT_IN_SINGLE", "SWAP_EXACT_OUT_SINGLE", "SWAP_EXACT_IN", "SETTLE",
              "SETTLE_ALL", "SETTLE_PAIR", "TAKE", "CLOSE_CURRENCY"},
     z \in BOOLEAN, n \in {0, 1}}
  \cup {[type |-> "SETTLE", readable |-> r, zeroForOne |-> TRUE, currency0 |-> asset,
         currency1 |-> zero, amount |-> 1, max |-> 1, payerIsUser |-> FALSE] : r \in BOOLEAN}

V4Streams ==
  {[malformed |-> FALSE, items |-> s] :
     s \in UNION {[1..n -> V4Actions] : n \in 1..2}}
  \cup {[malformed |-> TRUE, items |-> <<>>]}

Command(type, token, n, m) ==
  [type |-> type, readable |-> TRUE, party |-> vendor, token |-> token, amount |-> n,
   max |-> m, path |-> [packed |-> TRUE, tokens |-> <<token, asset>>]]

Commands ==
  {Command(type, token, 1, 2) :
     type \in {"V3_SWAP_EXACT_IN", "V3_SWAP_EXACT_OUT", "PERMIT2_TRANSFER_FROM",
              "TRANSFER", "PERMIT2_PERMIT", "WRAP_ETH", "SWEEP", "BATCH"},
     token \in {asset, stranger}}
  \cup {[Command("V2_SWAP_EXACT_IN", asset, 1, 2) EXCEPT !.path.packed = FALSE],
        [Command("TRANSFER", asset, 1, 2) EXCEPT !.party = stranger],
        [Command("TRANSFER", asset, 1, 2) EXCEPT !.readable = FALSE],
        Command("PERMIT2_PERMIT", asset, Permit2Unlimited, 2)}

V4Commands ==
  {[type |-> "V4_SWAP", readable |-> TRUE, party |-> vendor, actions |-> s] : s \in V4Streams}

Router ==
  LET execute(items) == [to |-> router, value |-> 0, call |->
        [selector |-> "execute", stream |-> [malformed |-> FALSE, items |-> items]]]
  IN  {execute(<<c>>) : c \in Commands \cup V4Commands}
      \cup {execute(<<c, d>>) : c \in Commands, d \in Commands}
      \cup {[to |-> router, value |-> 0, call |->
              [selector |-> "execute", stream |-> [malformed |-> TRUE, items |-> <<>>]]]}

DecodedIntents == {decoded(act) : act \in Plain \cup Router}

\* They are actions the theorems about the decoders apply to.
ASSUME InstanceOK ==
  \A act \in Plain \cup Router : ActionOK(act) /\ mostTaken(act) <= UNBOUNDED

AllCalls ==
  {[mode |-> "execute", intent |-> i] : i \in DecodedIntents}
  \cup {[mode |-> "check", intent |-> Transfer(vendor, 1)]}

\* Callers are interchangeable.
CallerSymmetry == Permutations(Runs)

\* Everything the off-chain allowlist permits.
FullAllowlist == MCPolicy.allowedContracts \cup MCPolicy.allowedRecipients \cup {asset}

\* What scripts/install-hook.ts passes to onInstall.
ScriptAllowlist == MCPolicy.allowedContracts
=============================================================================
