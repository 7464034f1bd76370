-------------------------- MODULE MCPaidVerification --------------------------
EXTENDS PaidVerification

CONSTANTS asset, vendor, router, bad, q1, q2, r1, r2, p0, p1

MCDocument ==
  [maxTransaction |-> 2, dailySpend |-> 3, approvalThreshold |-> 2,
   minBalance |-> 1, allowedContracts |-> {router},
   allowedRecipients |-> {vendor}, asset |-> asset,
   allowUnknownSelectors |-> FALSE]

Pay(n) == [kind |-> "TRANSFER", target |-> asset, counterparty |-> {vendor},
           movesValue |-> TRUE, notional |-> n]
Swap == [kind |-> "SWAP", target |-> router, counterparty |-> {},
         movesValue |-> TRUE, notional |-> 1]

Offer(route, body, pay) == [route |-> route, body |-> body, pay |-> pay]

\* A payment at the threshold that is verified, and a swap that is decoded with
\* the payload of the client.
MCOffers == {Offer("verify", Pay(2), p1), Offer("decode", Swap, p0)}
MCOwnBody == Swap

\* An edit lowers the approval threshold.
MCDocuments == {MCDocument, [MCDocument EXCEPT !.approvalThreshold = 1]}

MCReadings == {[dailySpend |-> 0, balance |-> 3]}
MCEngines == {{"minBalance", "poolLiquidity"}}
=============================================================================
