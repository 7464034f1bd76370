-------------------------------- MODULE OpsPage --------------------------------
(***************************************************************************)
(* The operator page of apps/console: Ops.tsx, lib/useStream.ts,           *)
(* Approvals.tsx, LoginGate.tsx and lib/api.ts.  React applies the state   *)
(* an event handler sets before the next handler runs, so a handler is a   *)
(* step.                                                                   *)
(***************************************************************************)
EXTENDS DashboardApi

CONSTANT
  PageTtl,   \* APPROVAL_TTL_MS, in periods of the clock
  Strangers  \* ids of approvals announced through the publish routes

ASSUME OpsAssumption ==
  PageTtl \in Nat \ {0} /\ Strangers \cap Asks = {} /\ "none" \notin Strangers

VARIABLES
  known,       \* the last health answer, or Unknown
  failing,     \* the last health call failed: the page shows the error instead
  poll,        \* the answer of a polled health call, on its way back
  connection,  \* what the page says of its stream
  cards,       \* approvals: the requests offered to the owner
  resolved,    \* what the page says became of a request
  click,       \* the answer to a click, on its way back: one at a time
  doubtful,    \* history: requests whose click was not heard back, or whose card
               \* was replayed after it was answered
  crashed      \* a render threw and React took the page down

opsVars == <<known, failing, poll, connection, cards, resolved, click, doubtful, crashed>>

\* Health answers: none yet, or a call whose answer never comes.
Unknown == [answer |-> "none", dashboardAuth |-> TRUE, dashboardSession |-> FALSE]
LostHealth == [Unknown EXCEPT !.answer = "lost"]

\* Answers to a click: no call, or one whose answer never comes.
Idle == [id |-> "none", status |-> 0, approved |-> FALSE]
LostStatus == 599

authed(h) == h.answer = "ok" /\ (~h.dashboardAuth \/ h.dashboardSession)

\* What is on screen when nothing stands in its place.
Visible(h, error) == authed(h) /\ ~error

\* ApprovalCard reads request.intent of every card it renders: one without
\* throws, and no error boundary is there to catch it.
Throws(h, error, cs) == Visible(h, error) /\ \E c \in cs : ~c.intent

\* The page is rendered with its new state.  A throw unmounts it, which closes
\* its source.
Render(h, error, cs, l) ==
  /\ known' = h /\ failing' = error /\ cards' = cs
  /\ crashed' = Throws(h, error, cs)
  /\ IF Throws(h, error, cs) THEN source("none") ELSE l

-----------------------------------------------------------------------------
(* Health and session *)

\* request of lib/api.ts: the answer, or none within ten seconds.
request(answer, lost) == (IF up THEN {answer} ELSE {}) \cup {lost}

\* useStream's effect runs when authed changes: connect, or close the source.
effect(h) ==
  IF authed(h) = authed(known) THEN UNCHANGED <<streamVars, connection>>
  ELSE IF authed(h) THEN source("trying") /\ connection' = "connecting"
  ELSE source("none") /\ connection' = "closed"

\* setHealth and setError.  A call that failed leaves the last health in place.
refreshed(answer) ==
  LET failed == answer = LostHealth
      h == IF failed THEN known ELSE answer
  IN  IF Throws(h, failed, cards)
        THEN Render(h, failed, cards, TRUE) /\ connection' = "closed"
        ELSE Render(h, failed, cards, effect(h))

\* The poll asks; what the API says is of this moment.
refreshHealth ==
  /\ ~crashed /\ poll = Unknown
  /\ poll' \in request(health, LostHealth)
  /\ UNCHANGED <<apiVars, known, failing, connection, cards, resolved, click, doubtful,
                 crashed>>

\* Its answer arrives, after whatever happened since.
healthArrives ==
  /\ ~crashed /\ poll # Unknown /\ poll' = Unknown
  /\ refreshed(poll)
  /\ UNCHANGED <<serverVars, resolved, click, doubtful>>

\* LoginGate.submit: the cookie is set with the answer, and health is asked at
\* once; a refusal only shows why.
submit(t) ==
  /\ ~crashed /\ ~failing /\ known.answer = "ok" /\ ~authed(known)
  /\ up /\ loginStatus(t) = 200
  /\ cookie' = t
  /\ \E answer \in {[health EXCEPT !.dashboardSession = TRUE], LostHealth} :
       refreshed(answer)
  /\ UNCHANGED <<up, token, ask, expires, now, faults, poll, resolved, click, doubtful>>

-----------------------------------------------------------------------------
(* useStream *)

onopen ==
  /\ ~crashed /\ up /\ hasDashboardSession
  /\ subscribe /\ connection' = "open"
  /\ UNCHANGED <<serverVars, known, failing, poll, cards, resolved, click, doubtful,
                 crashed>>

\* The newest frame of an id replaces the card of that id.
offered(card) == {c \in cards : c.id # card.id} \cup {card}

\* A frame is handled.  Decisions and thoughts only fill their lists; a request
\* without a deadline is given one.
onframe ==
  LET e == Head(wire)
      c == [id |-> e.id, intent |-> e.intent,
            expires |-> IF e.expires = 0 THEN now + PageTtl ELSE e.expires]
      cs == IF e.type = "approval" THEN offered(c) ELSE cards
  IN
  /\ ~crashed /\ wire # <<>>
  /\ Render(known, failing, cs, wire' = Tail(wire) /\ UNCHANGED <<recent, link, sentTo>>)
  /\ connection' = IF crashed' THEN "closed" ELSE connection
  /\ doubtful' = IF e.type = "approval" /\ resolved[e.id] \in {"approved", "declined"}
                   THEN doubtful \cup {e.id} ELSE doubtful
  /\ UNCHANGED <<serverVars, poll, resolved, click>>

\* mutant: the error is swallowed.
ErrorIgnored == UNCHANGED connection

\* onerror closes the source before it asks for its readyState, and the counter
\* of attempts is raised only where a retry is set: the test for a connection
\* that never opened always holds and nothing is retried.
erred == connection' = "unauthorized"

onerror ==
  /\ ~crashed
  /\ \/ link = "broken"
     \/ link = "trying"   \* refused, or the network's fault
  /\ source("none") /\ erred
  /\ UNCHANGED <<serverVars, known, failing, poll, cards, resolved, click, doubtful,
                 crashed>>

\* Cards past their deadline are taken away and said to have expired.
age ==
  LET old == {c \in cards : c.expires <= now} IN
  /\ ~crashed /\ old # {}
  /\ Render(known, failing, cards \ old, UNCHANGED streamVars)
  /\ resolved' = [id \in DOMAIN resolved |->
                    IF \E c \in old : c.id = id THEN "expired" ELSE resolved[id]]
  /\ UNCHANGED <<serverVars, poll, connection, click, doubtful>>

-----------------------------------------------------------------------------
(* ApprovalCard *)

\* The owner clicks; the answer is on its way, or will not arrive.  A session
\* that is gone, or a request that is, changes nothing at the API.
resolve(id, approved) ==
  /\ ~crashed /\ Visible(known, failing) /\ click = Idle
  /\ \E c \in cards : c.id = id
  /\ \E reached \in {up, FALSE}, status \in request(approveStatus(id), LostStatus) :
       /\ reached \/ status = LostStatus
       /\ IF reached THEN approve(id, approved) ELSE UNCHANGED apiVars
       /\ click' = [id |-> id, status |-> status, approved |-> approved]
  /\ UNCHANGED <<known, failing, poll, connection, cards, resolved, doubtful, crashed>>

\* The answer: settled marks it resolved and takes the card away, anything else
\* leaves the card with an error.
clickReturns ==
  LET id == click.id IN
  /\ ~crashed /\ click # Idle /\ click' = Idle
  /\ doubtful' = IF click.status = LostStatus THEN doubtful \cup {id} ELSE doubtful
  /\ IF click.status = 200
       THEN /\ resolved' = [resolved EXCEPT ![id] = Outcome(click.approved)]
            /\ Render(known, failing, {c \in cards : c.id # id}, UNCHANGED streamVars)
       ELSE UNCHANGED <<resolved, known, failing, cards, crashed, streamVars>>
  /\ UNCHANGED <<serverVars, poll, connection>>

InitOps ==
  /\ known = Unknown /\ failing = FALSE
  /\ poll = Unknown
  /\ connection = "closed" /\ cards = {}
  /\ resolved = [id \in Asks \cup Strangers |-> "open"]
  /\ click = Idle
  /\ doubtful = {} /\ crashed = FALSE

opsStep ==
  \/ refreshHealth \/ healthArrives
  \/ \E t \in Tokens : submit(t)
  \/ onopen \/ onframe \/ onerror \/ age
  \/ clickReturns
  \/ \E id \in Asks \cup Strangers, approved \in BOOLEAN : resolve(id, approved)
=============================================================================
