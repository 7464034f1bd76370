-------------------------------- MODULE Console --------------------------------
(***************************************************************************)
(* One browser page of apps/console, the API it talks to, and the others   *)
(* who talk to that API: agents calling /v1/verify, another tab of the     *)
(* owner, and the demo runner.                                             *)
(***************************************************************************)
EXTENDS OpsPage, BenchPage, HomePage, DemoRunner

CONSTANTS
  Pages,       \* subset of {"ops", "run", "home"}
  OtherAsks,   \* verify calls made by agents
  AgentPages,  \* bound: the pages open while agents call the API,
  RunnerPages  \* and while the demo runner publishes

ASSUME ConsoleAssumption ==
  /\ OtherAsks \subseteq Asks /\ RunnerAsk \in Strangers
  /\ OtherAsks \cap (BenchAsks \cup HomeAsks) = {} /\ BenchAsks \cap HomeAsks = {}

VARIABLES
  page,       \* which page is open
  elsewhere   \* history: requests answered in another tab

vars == <<apiVars, opsVars, benchVars, homeVars, script, page, elsewhere>>

\* The run page opens its stream when it is mounted.
Init ==
  /\ InitApi /\ InitOps /\ InitBench /\ InitHome /\ InitRunner
  /\ page \in Pages /\ elsewhere = {}
  /\ link = IF page = "run" THEN "trying" ELSE "none"

others == UNCHANGED <<opsVars, benchVars, homeVars, page>>

agentVerifies(id) ==
  /\ verify(id)
  /\ others /\ UNCHANGED <<script, elsewhere>>

otherTab(id, approved) ==
  /\ up /\ id \in pendingIds /\ resolves(id, Outcome(approved))
  /\ elsewhere' = elsewhere \cup {id}
  /\ others /\ UNCHANGED script

Next ==
  \/ apiStep /\ others /\ UNCHANGED <<script, elsewhere>>
  \/ \E id \in Asks, approved \in BOOLEAN : otherTab(id, approved)
  \/ page \in AgentPages /\ \E id \in OtherAsks : agentVerifies(id)
  \/ page \in RunnerPages /\ runnerPublish /\ others /\ UNCHANGED elsewhere
  \/ page = "ops" /\ opsStep
     /\ UNCHANGED <<benchVars, homeVars, script, page, elsewhere>>
  \/ page = "run" /\ benchStep
     /\ UNCHANGED <<opsVars, homeVars, script, page, elsewhere>>
  \/ page = "home" /\ homeStep
     /\ UNCHANGED <<opsVars, benchVars, script, page, elsewhere>>

\* A broken connection makes the browser raise an error event.
Spec == Init /\ [][Next]_vars /\ WF_vars(page = "ops" /\ onerror
          /\ UNCHANGED <<benchVars, homeVars, script, page, elsewhere>>)

-----------------------------------------------------------------------------
(* Properties *)

\* An operator page that says its stream is open, and has handled what it was
\* sent, shows a card for every escalation still waiting that was in the backlog
\* when it subscribed or was published since: replay, live events, session
\* changes and other publishers lose none (useStream.ts, stream.ts).
NothingMissed ==
  page = "ops" /\ ~crashed /\ connection = "open" /\ link = "open" /\ wire = <<>> =>
    \A id \in sentTo \cap pendingIds :
      expires[id] > now => \E c \in cards : c.id = id

\* What the operator page says became of an escalation is what its caller was
\* told: approved and declined always (Approvals.tsx), expired unless it was
\* answered in another tab, by a click whose answer has not been heard, or its
\* card was replayed after the answer.
OpsTells ==
  \A id \in Asks :
    /\ resolved[id] \in {"approved", "declined"} => ask[id] = resolved[id]
    /\ resolved[id] = "expired" /\ ask[id] \in {"approved", "declined"} =>
         id \in elsewhere \cup doubtful \cup {click.id}

\* The run page shows a card only while a call of its own is waiting
\* (AttackBench.tsx, awaiting).
BenchTells == pending # "none" => awaiting

\* No page misleads its reader about an escalation.
ToldTheTruth == OpsTells /\ BenchTells

\* The landing page shows the verdict of the scene on screen, except for a call
\* that was still open, or frozen on screen under the pointer, when the scene
\* changed (LiveDemo.tsx).
VerdictOfScene == shown # "none" => shownFor = scene \/ shown \in overtaken

\* A dashboard does not go on claiming a stream it has lost (useStream.ts).
StaleIsShown ==
  (page = "ops" /\ link = "broken" /\ ~crashed)
    ~> (connection # "open" \/ link = "open" \/ crashed)

\* No frame takes the operator page down: useStream.ts holds that a malformed one
\* is not worth tearing the stream down for.
PageSurvives == ~crashed
=============================================================================
