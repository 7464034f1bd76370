--------------------------- MODULE PaidVerification ---------------------------
(***************************************************************************)
(* The verification API and those who call it: any HTTP caller, and one    *)
(* client.  That is one call of X402Client.fetchPaid                       *)
(* (packages/x402-client/src/index.ts), made by the console's proxy        *)
(* (apps/console/app/api/v1/verify/route.ts) or by the researcher agent    *)
(* (apps/agents/researcher/index.ts), or one run of the recipe             *)
(* recipes/verify-before-you-swap.ts.                                      *)
(***************************************************************************)
EXTENDS VerificationApi

CONSTANTS
  Offers,         \* what any other caller sends: a route, a body and a payment
  Clients,        \* subset of {"proxy", "researcher", "recipe"}
  Own, Fallback,  \* the slots of its attempts: the one that can be served, and
                  \* the proxy's last one
  OwnPayment,     \* the payload its signer produces
  Quotes,         \* prices the challenge may quote, in atomic units
  Ceiling,        \* maxPricePerCall
  Scale,          \* checkPolicy multiplies the quote by this (1e6)
  OwnBody         \* the body it sends

ASSUME ClientAssumption ==
  /\ {Own, Fallback} \subseteq Requests /\ Own # Fallback
  /\ \A o \in Offers : o.route \in {"verify", "decode"} /\ o.pay \in Payments
  /\ OwnPayment \in Payments
  /\ Quotes \subseteq Nat /\ Ceiling \in Nat /\ Scale \in Nat \ {0}

VARIABLES
  client,   \* who makes the call
  quote,    \* the amount of the challenge, once there is one
  call      \* where the call is, and what its caller was told

clientVars == <<client, quote, call>>
vars == <<apiVars, clientVars>>

Others == Requests \ {Own, Fallback}

CallAt(pc) == call.pc = pc
Step(pc) == call' = [call EXCEPT !.pc = pc]
Told(outcome) == call' = [call EXCEPT !.pc = "done", !.outcome = outcome]

\* An attempt reaches the API, or does not; its answer comes, or the connection
\* breaks.
Sent(r) == arriveUnpaid(r, "verify", OwnBody) /\ UNCHANGED <<client, quote>>
Unmoved == UNCHANGED <<apiVars, client, quote>>

\* The proxy forwards once more without payment and reports what it gets; the
\* researcher abandons the query.
giveUp == IF client = "proxy" THEN Step("forwarding") ELSE Told("abandoned")

-----------------------------------------------------------------------------
(* fetchPaid *)

\* A proxy without keys only forwards.
begin ==
  /\ CallAt("idle") /\ client # "recipe" /\ Unmoved
  /\ \/ Step("attempting")
     \/ client = "proxy" /\ Step("forwarding")

\* The first attempt is unpaid: served where nothing is demanded, challenged
\* where something is, or it does not get through.
firstAttempt ==
  /\ CallAt("attempting")
  /\ \/ Sent(Own) /\ Step("first")
     \/ /\ challenged /\ quote' \in Quotes
        /\ Step("challenged") /\ UNCHANGED <<apiVars, client>>
     \/ Unmoved /\ giveUp

\* Anything but a 402 is the answer, whatever its status.
firstAnswer ==
  /\ CallAt("first") /\ Unmoved
  /\ \/ At(Own, "answered") /\ Told(req[Own].answer)
     \/ At(Own, "lost") /\ giveUp

\* mutant: the ceiling is not looked at.
NoCeiling(q) == TRUE

checkPrice(q) == q <= Ceiling

\* authorise: the researcher's own engine, on state it keeps at no spend and a
\* full balance, over an amount scaled as if the quote were in display units.
checkPolicy(q) ==
  client = "researcher" =>
    /\ q * Scale <= Document.maxTransaction
    /\ q * Scale < Document.approvalThreshold

\* The checks, then the signer, which refuses an amount of zero and may fail.
answerChallenge ==
  /\ CallAt("challenged")
  /\ \/ /\ checkPrice(quote) /\ checkPolicy(quote) /\ quote > 0
        /\ Step("signed")
     \/ giveUp
  /\ UNCHANGED <<apiVars, client, quote>>

secondAttempt ==
  /\ CallAt("signed")
  /\ \/ /\ arrivePaid(Own, "verify", OwnPayment, OwnBody)
        /\ Step("second") /\ UNCHANGED <<client, quote>>
     \/ Unmoved /\ giveUp

\* One paid attempt: a second 402, an error status or a broken connection all
\* end the payment.
secondAnswer ==
  /\ CallAt("second") /\ Unmoved
  /\ \/ At(Own, "answered") /\ req[Own].answer \in Results /\ Told(req[Own].answer)
     \/ At(Own, "answered") /\ req[Own].answer \notin Results /\ giveUp
     \/ At(Own, "lost") /\ giveUp

forward ==
  /\ CallAt("forwarding")
  /\ \/ Sent(Fallback) /\ Step("forwarded")
     \/ challenged /\ Unmoved /\ Told("402")
     \/ Unmoved /\ Told("502")

forwardAnswer ==
  /\ CallAt("forwarded") /\ Unmoved
  /\ \/ At(Fallback, "answered") /\ Told(req[Fallback].answer)
     \/ At(Fallback, "lost") /\ Told("502")

-----------------------------------------------------------------------------
(* The recipe *)

\* call: with the one payload of X_PAYMENT, or with none.
recipeAsks(r, route) ==
  /\ arriveUnpaid(r, route, OwnBody) \/ arrivePaid(r, route, OwnPayment, OwnBody)
  /\ UNCHANGED <<client, quote>>

\* A challenge, an error, a broken connection or ten seconds without an answer:
\* "An agent that cannot get an answer has not got a yes."
recipeStops == Unmoved /\ Told("stopped")

recipeDecodes ==
  /\ CallAt("idle") /\ client = "recipe"
  /\ \/ recipeAsks(Own, "decode") /\ Step("decoding")
     \/ recipeStops

recipeVerifies ==
  /\ CallAt("decoding")
  /\ \/ /\ At(Own, "answered") /\ req[Own].answer = "intent"
        /\ recipeAsks(Fallback, "verify") /\ Step("judging")
     \/ recipeStops

\* Whether the verdict is one to execute on.
recipeAccepts(answer) == answer = "ALLOW"

recipeActs ==
  /\ CallAt("judging")
  /\ \/ At(Fallback, "answered") /\ recipeAccepts(req[Fallback].answer) /\ Unmoved
        /\ Told("executed")
     \/ recipeStops

clientStep ==
  \/ begin \/ firstAttempt \/ firstAnswer \/ answerChallenge
  \/ secondAttempt \/ secondAnswer \/ forward \/ forwardAnswer
  \/ recipeDecodes \/ recipeVerifies \/ recipeActs

-----------------------------------------------------------------------------
(* Any other caller *)

otherArrives(r) ==
  /\ \E o \in Offers : \/ arriveUnpaid(r, o.route, o.body)
                      \/ arrivePaid(r, o.route, o.pay, o.body)
  /\ UNCHANGED clientVars

Init ==
  /\ InitApi
  /\ client \in Clients /\ quote = 0
  /\ call = [pc |-> "idle", outcome |-> "none"]

Next ==
  \/ clientStep
  \/ \E r \in Others : otherArrives(r)
  \/ NextApi /\ UNCHANGED clientVars

\* The event loop runs while the process does: requests settle or time out, the
\* approval timer fires, submissions settle, and the client acts on answers.
Spec ==
  /\ Init /\ [][Next]_vars
  /\ WF_vars(\/ clientStep
             \/ hcsSubmitted /\ UNCHANGED clientVars
             \/ \E r \in Requests : serve(r) /\ UNCHANGED clientVars)

-----------------------------------------------------------------------------
(* Properties *)

\* Every variable stays in its range.
TypeOK ==
  /\ ReplayTypeOK
  /\ gate \in Gates /\ optional \in Engines
  /\ req \in [Requests ->
       [pc: {"free", "verifying", "working", "approval", "settling", "answered", "lost"},
        route: {"verify", "decode"}, pay: Payments \cup {"none"}, body: {o.body : o \in Offers} \cup {OwnBody, BadBody},
        under: Documents, decision: Decisions,
        answer: Answers, overtaken: BOOLEAN]]
  /\ asked \subseteq Payments /\ policy \in Documents
  /\ call.pc \in {"idle", "attempting", "first", "challenged", "signed", "second",
                  "forwarding", "forwarded", "decoding", "judging", "done"}
  /\ call.outcome \in Answers \cup {"abandoned", "502", "stopped", "executed"}

\* "A payment payload authorises exactly one call" (replay.ts): whatever is
\* released, refused and retried at either route, at most one request at a time
\* holds a payment and none does after it bought a result, unless the guard
\* forgot the claim by age, by count, or in a crash.
OneCallPerPayment ==
  \A p \in Payments \ lapsed :
    Cardinality({r \in Requests : req[r].pay = p /\ Holding(r)}) <= 1

\* "a caller is never charged for a request that failed" (middleware.ts): a
\* payment the facilitator may have charged bought a result that is delivered or about to be,
\* and the caller of fetchPaid is given that result, unless the process died.
PaidIsAnswered ==
  ~crashed =>
    /\ \A p \in asked : \E r \in Requests :
         req[r].pay = p /\ req[r].answer \in Results
    /\ CallAt("done") /\ req[Own].answer \in Results /\ client # "recipe" =>
         call.outcome = req[Own].answer

\* No charge to the client exceeds its ceiling, nor, for the researcher, what
\* its policy lets it pay without asking a human (checkPrice, checkPolicy).
ChargedWithinLimits ==
  OwnPayment \in asked /\ req[Own].pay = OwnPayment =>
    /\ quote <= Ceiling
    /\ client = "researcher" => quote < Document.approvalThreshold

\* "Silence is not consent" (server.ts): an escalated action is answered ALLOW
\* exactly when a human approved that request while it was pending, and what the
\* recipe executes was answered ALLOW.
EscalatedNeedsClick ==
  /\ \A r \in Requests :
       req[r].decision = "REQUIRE_APPROVAL" /\ req[r].answer # "none" =>
         (req[r].answer = "ALLOW" <=> r \in clicked)
  /\ call.outcome = "executed" => req[Fallback].answer = "ALLOW"

AuditTrail == topic \o submitting \o queue

\* Each audit record carries the verdict of its request's engine and the hash
\* of the policy that gave it, unless that policy was replaced while the request
\* waited for a human or for its settlement (publishAudit).
AuditNamesPolicy ==
  \A i \in DOMAIN AuditTrail :
    LET rec == AuditTrail[i] IN
      /\ rec.decision = req[rec.req].decision
      /\ ~req[rec.req].overtaken => rec.hash = req[rec.req].under

\* Records reach the topic once each and in the order they were written, and a
\* waiting record always has a flush to take it (HcsAuditTrail).
AuditInOrder ==
  /\ \A i, j \in DOMAIN AuditTrail : i < j => AuditTrail[i].n < AuditTrail[j].n
  /\ queue # <<>> => flushing /\ submitting # <<>>

\* Every request is answered unless the process dies, and the client's call
\* ends: no facilitator, human or reader can hold either for ever.
RequestsAnswered ==
  (\E r \in Requests : ~At(r, "free")) \/ ~CallAt("idle") ~>
    /\ \A r \in Requests : At(r, "free") \/ At(r, "answered") \/ At(r, "lost")
    /\ CallAt("idle") \/ CallAt("done")
=============================================================================
