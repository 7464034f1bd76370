------------------------------ MODULE EventStream ------------------------------
(***************************************************************************)
(* packages/api/src/stream.ts: the server-sent events of the API, and the  *)
(* connection of the one browser page under study.  Other subscribers      *)
(* change nothing for it.                                                  *)
(***************************************************************************)
EXTENDS Naturals, SequencesExt

CONSTANTS
  Backlog,   \* events kept for replay (50)
  MaxWire    \* bound: events on their way to the page

ASSUME StreamAssumption ==
  Backlog \in Nat \ {0} /\ MaxWire \in Nat /\ Backlog <= MaxWire

VARIABLES
  recent,   \* the last events published
  link,     \* the page's connection: "none", "trying", "open", or "broken"
            \* when it is gone and the page has not noticed
  wire,     \* events written to it and not yet handled by the page
  sentTo    \* history: ids of the approvals written to this connection

streamVars == <<recent, link, wire, sentTo>>

\* The events the pages tell apart.  Decisions, thoughts and identities only fill
\* lists; an approval names its request, may carry a deadline (0: none) and may
\* carry the decoded intent.
Plain == [type |-> "plain", id |-> "none", expires |-> 0, intent |-> TRUE]
Approval(id, expires, intent) ==
  [type |-> "approval", id |-> id, expires |-> expires, intent |-> intent]

ApprovalIds(events) == {e.id : e \in {x \in Range(events) : x.type = "approval"}}

\* mutant: a new subscriber starts with an empty page.
NoReplay == <<>>

\* What a new subscriber is sent at once.
replay == recent

\* Replay, then join the clients.
subscribe ==
  /\ link = "trying"
  /\ link' = "open" /\ wire' = replay
  /\ sentTo' = ApprovalIds(recent)
  /\ UNCHANGED recent

\* Append, forget the oldest beyond the backlog, write to the clients.
publish(events) ==
  LET all == recent \o events
      on  == link = "open"
  IN  /\ on => Len(wire \o events) <= MaxWire
      /\ recent' = SubSeq(all, 1 + (IF Len(all) > Backlog THEN Len(all) - Backlog ELSE 0),
                          Len(all))
      /\ wire' = IF on THEN wire \o events ELSE wire
      /\ sentTo' = IF on THEN sentTo \cup ApprovalIds(events) ELSE sentTo
      /\ UNCHANGED link

\* The page opens or closes its source; a closed one leaves the clients.
source(state) ==
  /\ link' = state /\ wire' = <<>> /\ sentTo' = {}
  /\ UNCHANGED recent

\* The connection breaks; what was already written may still be handled.
Broken == IF link = "open" THEN "broken" ELSE link
=============================================================================
