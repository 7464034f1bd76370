------------------------------- MODULE BenchPage -------------------------------
(***************************************************************************)
(* The try-it-yourself page of apps/console: components/AttackBench.tsx.   *)
(* A visitor's attempt is a verify call that is held while a human decides.*)
(* Its EventSource has no error handler, so the browser itself connects    *)
(* again unless the stream was refused.                                    *)
(***************************************************************************)
EXTENDS DashboardApi

CONSTANT BenchAsks   \* the verify calls this page can make

ASSUME BenchAssumption == BenchAsks \subseteq Asks

VARIABLES
  own,        \* the call under way ("none": not awaiting), busy while there is one
  pending,    \* the id of the card on screen, or "none"
  posted      \* the id an answer was sent for, until its answer arrives

benchVars == <<own, pending, posted>>

awaiting == own # "none"

\* evaluate: the call goes out, and reaches the API or does not.
evaluate(id) ==
  /\ ~awaiting /\ Fresh(BenchAsks, id)
  /\ own' = id
  /\ verify(id) \/ verifyLost(id)
  /\ UNCHANGED <<pending, posted>>

\* The verdict arrives, the call fails, or 180 s pass without an answer: finally,
\* nothing is awaited and no card is left.
evaluated ==
  /\ awaiting
  /\ own' = "none" /\ pending' = "none"
  /\ UNCHANGED <<apiVars, posted>>

\* mutant: every approval on the stream is taken for one of this page.
TakeAny(e) == TRUE

\* An approval is taken only while a call is under way, and not after its
\* deadline.
takes(e) == awaiting /\ (e.expires = 0 \/ e.expires > now)

frame ==
  LET e == Head(wire) IN
  /\ wire # <<>> /\ wire' = Tail(wire)
  /\ pending' = IF e.type = "approval" /\ takes(e) THEN e.id ELSE pending
  /\ UNCHANGED <<recent, link, sentTo, serverVars, own, posted>>

\* answer: the click is posted, with one post under way at a time.
answer(approved) ==
  /\ pending # "none" /\ posted = "none"
  /\ posted' = pending
  /\ (up /\ approve(pending, approved)) \/ UNCHANGED apiVars
  /\ UNCHANGED <<own, pending>>

\* Its answer is not looked at, and takes away whatever card is there by then.
answered ==
  /\ posted # "none" /\ posted' = "none"
  /\ pending' = "none"
  /\ UNCHANGED <<apiVars, own>>

\* The browser's own handling of the stream.
connects ==
  /\ up /\ hasDashboardSession /\ subscribe
  /\ UNCHANGED <<serverVars, benchVars>>

refused ==
  /\ link = "trying" /\ ~(up /\ hasDashboardSession) /\ source("none")
  /\ UNCHANGED <<serverVars, benchVars>>

reconnects ==
  /\ link = "broken" /\ source("trying")
  /\ UNCHANGED <<serverVars, benchVars>>

InitBench ==
  /\ own = "none" /\ pending = "none" /\ posted = "none"

benchStep ==
  \/ \E id \in BenchAsks : evaluate(id)
  \/ evaluated \/ frame \/ answered
  \/ \E approved \in BOOLEAN : answer(approved)
  \/ connects \/ refused \/ reconnects
=============================================================================
