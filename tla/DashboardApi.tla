------------------------------ MODULE DashboardApi ------------------------------
(***************************************************************************)
(* The routes of packages/api/src/server.ts the console uses: /health, the *)
(* dashboard session, the stream, POST /v1/verify up to its escalation,    *)
(* POST /v1/approve and the publish routes, with DashboardApprover         *)
(* (sdk/src/approval/index.ts).  Payment, the engine and the audit trail   *)
(* are VerificationApi's; here a verify call is decided or escalated.      *)
(***************************************************************************)
EXTENDS EventStream

CONSTANTS
  Asks,             \* verify calls, each with the id its escalation would get
  Escalating,       \* bound: those of them that may be escalated
  Tokens,           \* values of AGENTPROOF_ADMIN_TOKEN, NoToken if unset
  ApprovalTimeout,  \* APPROVAL_TIMEOUT_MS, in periods of the clock
  MaxTime,          \* bound on the clock
  MaxFaults         \* bound: restarts, broken connections and expired cookies

NoToken == "none"

ASSUME DashboardAssumption ==
  /\ ApprovalTimeout \in Nat \ {0} /\ MaxTime \in Nat /\ MaxFaults \in Nat
  /\ "none" \notin Asks

VARIABLES
  up,       \* the API process runs
  token,    \* its AGENTPROOF_ADMIN_TOKEN, or NoToken
  cookie,   \* the browser's session cookie: the token it was issued for
  ask,      \* each verify call: "idle", "pending" a human, or its outcome
  expires,  \* the deadline of a pending one
  now,      \* the clock, shared by the API and the browser
  faults    \* faults so far

serverVars == <<up, token, cookie, ask, expires, now, faults>>
apiVars == <<streamVars, serverVars>>

Final == {"decided", "approved", "declined", "expired", "lost"}

-----------------------------------------------------------------------------
(* Sessions: stateless, the cookie is derived from the token *)

hasDashboardSession == token = NoToken \/ cookie = token

\* GET /health, as far as the console reads it.
health == [answer |-> "ok", dashboardAuth |-> token # NoToken,
           dashboardSession |-> hasDashboardSession]

\* POST /v1/dashboard/login: 503 without a token, 401 for another one.
loginStatus(t) == IF token = NoToken THEN 503 ELSE IF t # token THEN 401 ELSE 200

-----------------------------------------------------------------------------
(* Verify and approve *)

\* DashboardApprover.pending.
pendingIds == {id \in Asks : ask[id] = "pending"}

\* The next of a caller's calls: ids are issued afresh, so which one does not
\* matter.
Fresh(calls, id) ==
  LET idle == {x \in calls : ask[x] = "idle"}
  IN  idle # {} /\ id = CHOOSE x \in idle : TRUE

\* A verify call that is not escalated publishes its decision and is answered.
verifyDecided(id) ==
  /\ up /\ ask[id] = "idle"
  /\ ask' = [ask EXCEPT ![id] = "decided"]
  /\ publish(<<Plain>>)
  /\ UNCHANGED <<up, token, cookie, expires, now, faults>>

\* One that is escalated publishes the decision, then the request for approval,
\* and is held.
verifyEscalated(id) ==
  /\ up /\ ask[id] = "idle" /\ id \in Escalating
  /\ ask' = [ask EXCEPT ![id] = "pending"]
  /\ expires' = [expires EXCEPT ![id] = now + ApprovalTimeout]
  /\ publish(<<Plain, Approval(id, now + ApprovalTimeout, TRUE)>>)
  /\ UNCHANGED <<up, token, cookie, now, faults>>

verify(id) == verifyDecided(id) \/ verifyEscalated(id)

\* A call that gets no answer.
verifyLost(id) ==
  /\ ask[id] = "idle" /\ ask' = [ask EXCEPT ![id] = "lost"]
  /\ UNCHANGED <<streamVars, up, token, cookie, expires, now, faults>>

\* The held call resumes: its resolved verdict is published and answered.
resolves(id, outcome) ==
  /\ ask' = [ask EXCEPT ![id] = outcome]
  /\ expires' = [expires EXCEPT ![id] = 0]
  /\ publish(<<Plain>>)
  /\ UNCHANGED <<up, token, cookie, now, faults>>

approvalTimeout(id) ==
  /\ id \in pendingIds /\ expires[id] <= now
  /\ resolves(id, "expired")

Outcome(approved) == IF approved THEN "approved" ELSE "declined"

\* mutant: the id is not looked up before the click is confirmed.
AlwaysSettled(id) == IF hasDashboardSession THEN 200 ELSE 401

\* The status of POST /v1/approve: only what is pending can be resolved.
approveStatus(id) ==
  IF ~hasDashboardSession THEN 401
  ELSE IF id \in pendingIds THEN 200 ELSE 404

\* The whole handler, without its answer.
approve(id, approved) ==
  IF hasDashboardSession /\ id \in pendingIds
    THEN resolves(id, Outcome(approved)) ELSE UNCHANGED apiVars

\* POST /v1/publish, which asks for no session and takes any data, and
\* /v1/internal/publish, which wants the admin token.  Nothing is stored.
publishRoute(event) == up /\ publish(<<event>>) /\ UNCHANGED serverVars

-----------------------------------------------------------------------------
(* Faults and time *)

fault == faults < MaxFaults /\ faults' = faults + 1

\* The process ends: held calls are lost, connections break, the backlog is
\* gone.
stops ==
  /\ fault /\ up /\ up' = FALSE
  /\ ask' = [id \in Asks |-> IF id \in pendingIds THEN "lost" ELSE ask[id]]
  /\ expires' = [id \in Asks |-> 0]
  /\ recent' = <<>> /\ link' = Broken
  /\ UNCHANGED <<token, cookie, now, wire, sentTo>>

\* createApiServerFromEnv: it starts again, with the token of its environment.
starts(t) ==
  /\ ~up /\ up' = TRUE /\ token' = t
  /\ UNCHANGED <<cookie, ask, expires, now, faults, streamVars>>

linkBreaks ==
  /\ fault /\ link = "open" /\ link' = Broken
  /\ UNCHANGED <<up, token, cookie, ask, expires, now, recent, wire, sentTo>>

\* Max-Age of the cookie.
cookieExpires ==
  /\ fault /\ cookie # NoToken /\ cookie' = NoToken
  /\ UNCHANGED <<up, token, ask, expires, now, streamVars>>

\* A period passes once the timers due in it have fired.
tick ==
  /\ now < MaxTime /\ now' = now + 1
  /\ \A id \in pendingIds : expires[id] > now
  /\ UNCHANGED <<up, token, cookie, ask, expires, faults, streamVars>>

InitApi ==
  /\ recent = <<>> /\ wire = <<>> /\ sentTo = {}
  /\ up = TRUE /\ token \in Tokens /\ cookie \in {token, NoToken}
  /\ ask = [id \in Asks |-> "idle"] /\ expires = [id \in Asks |-> 0]
  /\ now = 0 /\ faults = 0

apiStep ==
  \/ \E id \in Asks : approvalTimeout(id)
  \/ stops \/ linkBreaks \/ cookieExpires \/ tick
  \/ \E t \in Tokens : starts(t)
=============================================================================
