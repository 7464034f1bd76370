---------------------------- MODULE VerificationApi ----------------------------
(***************************************************************************)
(* packages/api/src: POST /v1/verify and /v1/decode behind the x402 gate   *)
(* (x402/middleware.ts), with the replay guard, the facilitator client     *)
(* (x402/blocky402.ts), the routes (routes/index.ts), the dashboard        *)
(* approver, the policy swap of PUT /v1/policy and the HCS audit trail, as *)
(* server.ts wires them.  A step is what runs between two awaits.          *)
(*                                                                         *)
(* The facilitator and the Hedera topic are external.  A request slot      *)
(* serves one HTTP request.  What PUT does to its file is PolicyEditor's.  *)
(***************************************************************************)
EXTENDS ReplayGuard, HcsAudit, PolicyEngine

CONSTANTS
  Document,    \* the policy the process first boots with
  Documents,   \* the policies it may be given by PUT
  Requests,    \* request slots
  BadBody,     \* a body the route refuses: no action, or another agent's name;
               \* any other body is an intent
  Gates,       \* subset of {"enabled", "disabled"}
  Engines,     \* which optional policies the deployment can evaluate
  Readings,    \* what the state provider may answer: a spend and a balance
  MaxEvents    \* bound: clock periods, policy edits and crashes together

ASSUME ApiAssumption ==
  /\ \A p \in Documents :
       resolvable(p) /\ p.maxTransaction \in Nat /\ p.approvalThreshold \in Nat
  /\ Document \in Documents
  /\ Gates \subseteq {"enabled", "disabled"}
  /\ MaxEvents \in Nat

VARIABLES
  policy,    \* the policy served: policy, engine and context of server.ts
  gate,      \* whether payment is demanded
  optional,  \* the optional policies buildEngine includes
  req,       \* each request: where it is, and what it knows
  asked,     \* payments whose settlement the facilitator was asked for: from
             \* then on it may charge them, whatever becomes of its answer
  clicked,   \* history: requests a human approved while they were pending
  recorded,  \* history: audit records written
  lapsed,    \* history: payments whose claim was evicted, or lost in a crash
  crashed,   \* history: the process has died
  events     \* clock periods, policy edits and crashes so far

setup == <<gate, optional>>
gateVars == <<setup, policy, req, asked, clicked, recorded, lapsed, crashed, events>>
apiVars == <<gateVars, seen, now, auditVars>>

Free == [pc |-> "free", route |-> "verify", pay |-> "none", body |-> BadBody,
         under |-> Document, decision |-> "ALLOW", answer |-> "none",
         overtaken |-> FALSE]

At(r, pc) == req[r].pc = pc

\* Answers that carry a result, status 200.
Results == {"ALLOW", "BLOCK", "intent"}
Answers == Results \cup {"none", "402", "error"}

\* The work is under way or was delivered.
Holding(r) == \/ req[r].pc \in {"verifying", "working", "approval", "settling"}
              \/ req[r].answer \in Results

\* An answer without a result: nothing of the request is left.
Refuse(r, a) == req' = [req EXCEPT ![r] = [Free EXCEPT !.pc = "answered", !.answer = a]]

-----------------------------------------------------------------------------
(* The engine of this deployment *)

PoolLiquidityPolicy(intent, pool) ==
  IF intent.kind = "SWAP" /\ pool \in {"none", "thin"} THEN "BLOCK" ELSE "ALLOW"

\* The subgraph's answer, up to a minute old: no pool, or the deepest one.  Not
\* being able to ask is no answer.
deepestPool == {"unknown", "none", "thin", "deep"}

\* Only a swap has a venue, and a subgraph that cannot be asked leaves the
\* policy unevaluated.
poolFor(intent) ==
  IF "poolLiquidity" \in optional /\ intent.kind = "SWAP"
    THEN deepestPool ELSE {"unknown"}

\* A row of the engine; an optional one is there if the deployment can evaluate
\* it.
rowOf(acc, id, decision) == consider(acc, [id |-> id, decision |-> decision])
optionalRow(acc, id, decision) ==
  IF id \in optional THEN rowOf(acc, id, decision) ELSE acc

\* The loop over buildEngine's policies: minBalance needs balances,
\* poolLiquidity a Uniswap subgraph.
verdict(p, intent, state, pool) ==
  LET allow == rowOf(Undecided, "allowlist", AllowlistPolicy(p, intent))
      max == rowOf(allow, "maxTransaction", MaxTransactionPolicy(p, intent))
      floor == optionalRow(max, "minBalance", MinBalancePolicy(p, intent, state))
      daily == rowOf(floor, "dailySpend", DailySpendPolicy(p, intent, state))
      venue == optionalRow(daily, "poolLiquidity", PoolLiquidityPolicy(intent, pool))
  IN  rowOf(venue, "approvalThreshold", ApprovalThresholdPolicy(p, intent)).decision

-----------------------------------------------------------------------------
(* The gate *)

\* With the gate on, a request without a usable payment is answered with a
\* challenge and nothing changes.
challenged == gate = "enabled"

\* With the gate off the work begins at once.
arriveUnpaid(r, route, body) ==
  /\ At(r, "free") /\ gate = "disabled"
  /\ req' = [req EXCEPT ![r] = [Free EXCEPT !.pc = "working", !.route = route,
                                            !.body = body]]
  /\ UNCHANGED <<setup, policy, asked, clicked, recorded, lapsed, crashed, events,
                 seen, now, auditVars>>

\* With a payment: claimed before it is verified, or refused as used.
arrivePaid(r, route, pay, body) ==
  /\ At(r, "free") /\ gate = "enabled"
  /\ lapsed' = lapsed \cup (Claimed(seen) \ Claimed(evict(seen, now)))
  /\ \/ /\ claim(pay)
        /\ req' = [req EXCEPT ![r] = [Free EXCEPT !.pc = "verifying",
                     !.route = route, !.pay = pay, !.body = body]]
     \/ /\ claimRefused(pay)
        /\ Refuse(r, "402")
  /\ UNCHANGED <<setup, policy, asked, clicked, recorded, crashed, events, now,
                 auditVars>>

\* facilitator.verify answers that the payload is not good, or throws.
verifyRefused(r) ==
  /\ At(r, "verifying")
  /\ release(req[r].pay)
  /\ \E status \in {"402", "error"} : Refuse(r, status)
  /\ UNCHANGED <<setup, policy, asked, clicked, recorded, lapsed, crashed, events,
                 now, auditVars>>

\* mutant: settle before the work.
SettleFirst(r) ==
  /\ At(r, "verifying")
  /\ asked' = asked \cup {req[r].pay}
  /\ req' = [req EXCEPT ![r].pc = "working"]
  /\ UNCHANGED <<setup, policy, clicked, recorded, lapsed, crashed, events, seen,
                 now, auditVars>>

verified(r) ==
  /\ At(r, "verifying")
  /\ req' = [req EXCEPT ![r].pc = "working"]
  /\ UNCHANGED <<setup, policy, asked, clicked, recorded, lapsed, crashed, events,
                 seen, now, auditVars>>

-----------------------------------------------------------------------------
(* The work *)

\* The work throws: a body the route refuses, or a state read that fails.  The
\* claim is released and nothing is settled.
workThrows(r) ==
  /\ At(r, "working")
  /\ IF req[r].pay \in Payments THEN release(req[r].pay) ELSE UNCHANGED seen
  /\ req[r].body = BadBody \/ req[r].route = "verify"
  /\ Refuse(r, "error")
  /\ UNCHANGED <<setup, policy, asked, clicked, recorded, lapsed, crashed, events,
                 now, auditVars>>

\* publishAudit: the engine's own result under the hash served at this moment.
publishAudit(r) ==
  IF req[r].route = "verify"
    THEN /\ record([req |-> r, n |-> recorded + 1, hash |-> policy,
                    decision |-> req'[r].decision])
         /\ recorded' = recorded + 1
    ELSE UNCHANGED <<auditVars, recorded>>

\* mutant: the gate settles even where nothing is due.
SettleAlways(r, result) ==
  /\ req' = [result EXCEPT ![r].pc = "settling"]
  /\ asked' = asked \cup {req[r].pay}
  /\ UNCHANGED <<auditVars, recorded>>

\* The work returned a result: settle it, or hand it over when nothing is due.
workReturns(r, result) ==
  IF gate = "enabled"
    THEN /\ req' = [result EXCEPT ![r].pc = "settling"]
         /\ asked' = asked \cup {req[r].pay}
         /\ UNCHANGED <<auditVars, recorded>>
    ELSE /\ req' = [result EXCEPT ![r].pc = "answered"]
         /\ publishAudit(r)
         /\ UNCHANGED asked

\* decodeRoute: no state and no await.
decodeRoute(r) ==
  /\ At(r, "working") /\ req[r].route = "decode" /\ req[r].body # BadBody
  /\ workReturns(r, [req EXCEPT ![r].answer = "intent"])
  /\ UNCHANGED <<setup, policy, clicked, lapsed, crashed, events, seen, now>>

\* mutant: the engine is the one the process booted with.
BootEngine == Document

\* ctx.engine, read after the awaits.
engineNow == policy

\* verifyRoute resumes with its reads: evaluate, publish, and open an approval
\* if the verdict asks for one.
verifyRoute(r, reading, pool) ==
  LET d == verdict(engineNow, req[r].body, reading, pool)
      decided == [req EXCEPT ![r].decision = d, ![r].under = engineNow,
                             ![r].body = BadBody]
  IN
  /\ At(r, "working") /\ req[r].route = "verify" /\ req[r].body # BadBody
  /\ pool \in poolFor(req[r].body)
  /\ IF d = "REQUIRE_APPROVAL"
       THEN /\ req' = [decided EXCEPT ![r].pc = "approval"]
            /\ UNCHANGED <<asked, auditVars, recorded>>
       ELSE workReturns(r, [decided EXCEPT ![r].answer = d])
  /\ UNCHANGED <<setup, policy, clicked, lapsed, crashed, events, seen, now>>

\* The held request resumes with the outcome of its approval.
approvalOutcome(r, approved) ==
  /\ workReturns(r, [req EXCEPT ![r].answer = IF approved THEN "ALLOW" ELSE "BLOCK"])
  /\ UNCHANGED <<setup, policy, lapsed, crashed, events, seen, now>>

\* POST /v1/approve for an id that is pending; any other id is a 404.
approve(r, approved) ==
  /\ At(r, "approval")
  /\ clicked' = IF approved THEN clicked \cup {r} ELSE clicked
  /\ approvalOutcome(r, approved)

\* mutant: an approval nobody answered goes through.
SilenceIsConsent(r) == At(r, "approval") /\ approvalOutcome(r, TRUE) /\ UNCHANGED clicked

\* mutant: no timer is set.
NoTimer(r) == FALSE

\* DashboardApprover's timer.
approvalTimeout(r) == At(r, "approval") /\ approvalOutcome(r, FALSE) /\ UNCHANGED clicked

\* The answer to /settle arrives, says no, or does not come: the result is
\* handed over in every case.
settled(r) ==
  /\ At(r, "settling")
  /\ req' = [req EXCEPT ![r].pc = "answered"]
  /\ publishAudit(r)
  /\ UNCHANGED <<setup, policy, asked, clicked, lapsed, crashed, events, seen, now>>

-----------------------------------------------------------------------------
(* Around the requests *)

hcsSubmitted ==
  /\ \E ok \in BOOLEAN : submitted(ok)
  /\ UNCHANGED <<gateVars, seen, now>>

event == events < MaxEvents /\ events' = events + 1

\* Time passes; only claims are read against it.
tick ==
  /\ event /\ seen # <<>>
  /\ now' = now + 1
  /\ UNCHANGED <<setup, policy, req, asked, clicked, recorded, lapsed, crashed, seen,
                 auditVars>>

\* PUT /v1/policy, once its file is written: policy, engine and context change
\* together, under the requests already decided.
swapPolicy(doc) ==
  /\ event
  /\ doc # policy /\ policy' = doc
  /\ req' = [r \in Requests |->
       IF req[r].pc \in {"approval", "settling"}
         THEN [req[r] EXCEPT !.overtaken = TRUE] ELSE req[r]]
  /\ UNCHANGED <<setup, asked, clicked, recorded, lapsed, crashed, seen, now,
                 auditVars>>

\* The process dies and boots again from the policy it served: claims, held
\* requests and queued records are gone.
crash ==
  /\ event /\ crashed' = TRUE
  /\ req' = [r \in Requests |->
       IF req[r].pc \in {"free", "answered"} THEN req[r]
       ELSE [Free EXCEPT !.pc = "lost"]]
  /\ lapsed' = lapsed \cup Claimed(seen)
  /\ seen' = <<>> /\ queue' = <<>> /\ flushing' = FALSE /\ submitting' = <<>>
  /\ UNCHANGED <<setup, policy, asked, clicked, recorded, topic, now>>

serve(r) ==
  \/ verifyRefused(r) \/ verified(r) \/ workThrows(r) \/ decodeRoute(r)
  \/ \E reading \in Readings, pool \in deepestPool :
       verifyRoute(r, reading, pool)
  \/ approvalTimeout(r) \/ settled(r)

InitApi ==
  /\ seen = <<>> /\ now = 0
  /\ InitAudit
  /\ gate \in Gates /\ optional \in Engines
  /\ req = [r \in Requests |-> Free]
  /\ policy = Document
  /\ asked = {} /\ clicked = {} /\ recorded = 0 /\ lapsed = {}
  /\ crashed = FALSE /\ events = 0

NextApi ==
  \/ \E r \in Requests : serve(r)
  \/ \E r \in Requests, approved \in BOOLEAN : approve(r, approved)
  \/ hcsSubmitted \/ tick \/ crash
  \/ \E doc \in Documents : swapPolicy(doc)
=============================================================================
