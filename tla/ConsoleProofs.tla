----------------------------- MODULE ConsoleProofs -----------------------------
(***************************************************************************)
(* The console's pages and the API behind them, for any number of calls,   *)
(* any backlog, any demo script, any clock and any number of faults.       *)
(***************************************************************************)
EXTENDS Console, SequenceTheorems, TLAPS

Told == {"approved", "declined"}
AskStates == {"idle", "pending"} \cup Final

\* What the stream carries: an approval names a request.
Event == [type: {"plain", "approval"}, id: Asks \cup Strangers \cup {"none"},
          expires: Nat, intent: BOOLEAN]

\* What the demo runner publishes is about none of the API's own requests.
RunnerEvent == {e \in Event : e.id \notin Asks}

Carries(events, id) == \E e \in Range(events) : e.type = "approval" /\ e.id = id

\* An approval e was announced when its request was made, with its deadline.
Announced(e, state, deadline) ==
  e.type = "approval" /\ e.id \in Asks =>
    /\ state[e.id] # "idle"
    /\ state[e.id] = "pending" => e.expires = deadline[e.id]

\* The API: a held request has a deadline, and what the stream keeps, carries or
\* has sent of it was announced.
ApiInv ==
  /\ ask \in [Asks -> AskStates] /\ expires \in [Asks -> Nat] /\ now \in Nat
  /\ recent \in Seq(Event) /\ wire \in Seq(Event)
  /\ \A id \in Asks : ask[id] = "pending" => expires[id] # 0
  /\ \A e \in Range(recent) \cup Range(wire) : Announced(e, ask, expires)
  /\ \A id \in sentTo : id \in Asks => ask[id] # "idle"

ScriptInv == script \in Seq(RunnerEvent)

\* A live request that was sent to the page is on its screen or on the wire.
Covered ==
  \A id \in sentTo \cap Asks :
    ask[id] = "pending" /\ expires[id] > now =>
      (\E c \in cards : c.id = id) \/ Carries(wire, id)

\* The cards bear the deadlines of their requests, and none is missing.
ShowInv ==
  /\ \A c \in cards : c.id \in Asks =>
       /\ ask[c.id] # "idle"
       /\ ask[c.id] = "pending" => c.expires = expires[c.id]
  /\ page = "ops" => Covered

\* A click that was confirmed is what decided; one that was refused decided
\* nothing.
ClickInv ==
  /\ click.status = 200 => click.id \in Asks /\ ask[click.id] = Outcome(click.approved)
  /\ click.status \notin {200, LostStatus} /\ click.id \in Asks /\ ask[click.id] \in Told =>
       click.id \in elsewhere \cup doubtful

\* What the page says was answered was answered so; an answer it does not know
\* of was given elsewhere, was not heard back, or is on its way.
TellInv ==
  /\ resolved \in [Asks \cup Strangers -> {"open", "expired"} \cup Told]
  /\ \A id \in Asks : resolved[id] \in Told => ask[id] = resolved[id]
  /\ \A c \in cards : c.id \in Asks /\ resolved[c.id] \in Told => c.id \in doubtful
  /\ page = "ops" => \A id \in Asks : ask[id] \in Told =>
       resolved[id] = ask[id] \/ id \in elsewhere \cup doubtful \cup {click.id}
  /\ page # "ops" => /\ cards = {} /\ click = Idle
                     /\ \A id \in Asks : resolved[id] = "open"

OpsInv == ShowInv /\ ClickInv /\ TellInv

BenchInv == pending # "none" => awaiting

\* A call of the landing page is about the scene on screen, or was overtaken.
HomeInv ==
  /\ asked \in [HomeAsks -> Nat] /\ scene \in Nat
  /\ \A id \in InFlight : asked[id] = scene \/ id \in overtaken
  /\ shown # "none" => shownFor = scene \/ shown \in overtaken

IInv == ApiInv /\ ScriptInv /\ OpsInv /\ BenchInv /\ HomeInv

-----------------------------------------------------------------------------
(* Sequences of events *)

\* What a concatenation carries is what its parts carry.
LEMMA RangeOfConcat ==
  ASSUME NEW s \in Seq(Event), NEW t \in Seq(Event)
  PROVE  s \o t \in Seq(Event) /\ Range(s \o t) = Range(s) \cup Range(t)
<1>1. /\ s \o t \in Seq(Event) /\ Len(s \o t) = Len(s) + Len(t)
      /\ \A i \in 1..Len(s) + Len(t) :
           (s \o t)[i] = IF i <= Len(s) THEN s[i] ELSE t[i - Len(s)]
  BY ConcatProperties
<1>2. DOMAIN s = 1..Len(s) /\ DOMAIN t = 1..Len(t) /\ DOMAIN (s \o t) = 1..Len(s) + Len(t)
      /\ Len(s) \in Nat /\ Len(t) \in Nat
  BY <1>1, LenProperties
<1>3. Range(s \o t) \subseteq Range(s) \cup Range(t)
  BY <1>1, <1>2 DEF Range
<1>4. Range(s) \subseteq Range(s \o t)
  BY <1>1, <1>2 DEF Range
<1>5. ASSUME NEW j \in 1..Len(t) PROVE t[j] \in Range(s \o t)
  <2>1. Len(s) + j \in 1..Len(s) + Len(t) /\ (s \o t)[Len(s) + j] = t[j]
    BY <1>1, <1>2
  <2> QED BY <1>2, <2>1 DEF Range
<1> QED BY <1>1, <1>2, <1>3, <1>4, <1>5 DEF Range

\* A suffix (the backlog after its oldest event is dropped) carries nothing
\* new.
LEMMA RangeOfSuffix ==
  ASSUME NEW s \in Seq(Event), NEW m \in 1..Len(s) + 1
  PROVE  /\ SubSeq(s, m, Len(s)) \in Seq(Event)
         /\ Range(SubSeq(s, m, Len(s))) \subseteq Range(s)
<1> DEFINE u == SubSeq(s, m, Len(s))
<1>1. Len(s) \in Nat /\ m \in Int /\ DOMAIN s = 1..Len(s)
  BY LenProperties
<1>2. /\ u \in Seq(Event) /\ Len(u) = (IF m <= Len(s) THEN Len(s) - m + 1 ELSE 0)
      /\ \A i \in 1..Len(s) - m + 1 : u[i] = s[m + i - 1]
  <2>1. \A i \in m..Len(s) : s[i] \in Event
    BY <1>1
  <2> QED BY <1>1, <2>1, SubSeqProperties
<1>3. DOMAIN u = 1..Len(u)
  BY <1>2, LenProperties
<1> HIDE DEF u
<1>4. ASSUME NEW i \in 1..Len(u) PROVE u[i] \in Range(s)
  <2>1. m + i - 1 \in 1..Len(s) /\ u[i] = s[m + i - 1]
    BY <1>1, <1>2
  <2> QED BY <1>1, <2>1 DEF Range
<1>5. Range(u) \subseteq Range(s)
  BY <1>3, <1>4 DEF Range
<1> QED BY <1>2, <1>5 DEF u

\* Taking the first frame off loses that frame only.
LEMMA RangeOfTail ==
  ASSUME NEW S, NEW s \in Seq(S), s # <<>>
  PROVE  /\ Head(s) \in S /\ Tail(s) \in Seq(S) /\ Head(s) \in Range(s)
         /\ Range(Tail(s)) \subseteq Range(s)
         /\ Range(s) \subseteq Range(Tail(s)) \cup {Head(s)}
<1>1. /\ Head(s) \in S /\ Tail(s) \in Seq(S) /\ Len(Tail(s)) = Len(s) - 1
      /\ \A i \in 1..Len(Tail(s)) : Tail(s)[i] = s[i + 1]
  BY HeadTailProperties
<1>2. DOMAIN s = 1..Len(s) /\ DOMAIN Tail(s) = 1..Len(Tail(s))
      /\ Len(s) \in Nat /\ Len(s) # 0 /\ Head(s) = s[1]
  BY <1>1, LenProperties, EmptySeq
<1>3. Head(s) \in Range(s) /\ Range(Tail(s)) \subseteq Range(s)
  BY <1>1, <1>2 DEF Range
<1>4. ASSUME NEW i \in 1..Len(s), i # 1 PROVE s[i] \in Range(Tail(s))
  <2>1. i - 1 \in 1..Len(Tail(s)) /\ Tail(s)[i - 1] = s[i]
    BY <1>1, <1>2, <1>4
  <2> QED BY <1>2, <2>1 DEF Range
<1> QED BY <1>1, <1>2, <1>3, <1>4 DEF Range

\* The events the API itself publishes.
LEMMA OwnEvents ==
  /\ Plain \in Event /\ Plain.type = "plain" /\ <<Plain>> \in Seq(Event)
  /\ \A e : e \in Event => <<e>> \in Seq(Event) /\ Range(<<e>>) = {e}
  /\ \A e : e \in Event => <<Plain, e>> \in Seq(Event) /\ Range(<<Plain, e>>) = {Plain, e}
<1>1. Plain \in Event /\ Plain.type = "plain"
  BY DEF Plain, Event
<1>2. ASSUME NEW e \in Event
      PROVE  /\ <<e>> \in Seq(Event) /\ Range(<<e>>) = {e}
             /\ <<Plain, e>> \in Seq(Event) /\ Range(<<Plain, e>>) = {Plain, e}
  BY <1>1 DEF Range
<1> QED BY <1>1, <1>2

-----------------------------------------------------------------------------
(* The API and its stream *)

\* How a step may move the requests: those in yes are answered by a human.
AskMoves(yes) ==
  \A id \in Asks :
    \/ ask'[id] = ask[id] /\ (ask[id] = "pending" => expires'[id] = expires[id])
    \/ ask[id] = "idle" /\ ask'[id] \notin {"idle"} \cup Told
    \/ ask[id] = "pending" /\ ask'[id] \in {"expired", "lost"}
    \/ id \in yes /\ ask[id] = "pending" /\ ask'[id] \in Told

\* What was on the wire stays there, and what is sent is put there.
StreamKeeps ==
  /\ Range(wire) \subseteq Range(wire')
  /\ \A id \in sentTo' : id \in sentTo \/ Carries(wire', id)

\* A step of the API, as the pages see it.
ApiMoves(yes) == ApiInv' /\ AskMoves(yes) /\ StreamKeeps /\ now' \in Nat /\ now <= now'

\* What was announced stays so while requests are made and settled.
LEMMA AnnouncedKept ==
  ASSUME NEW yes, AskMoves(yes), NEW e, Announced(e, ask, expires)
  PROVE  Announced(e, ask', expires')
BY DEF AskMoves, Announced, Told

\* Every event published reaches the backlog and, on an open connection, the
\* page; nothing else does.
LEMMA Published ==
  ASSUME ApiInv, NEW events \in Seq(Event), publish(events)
  PROVE  /\ recent' \in Seq(Event) /\ wire' \in Seq(Event)
         /\ Range(recent') \subseteq Range(recent) \cup Range(events)
         /\ Range(wire) \subseteq Range(wire')
         /\ Range(wire') \subseteq Range(wire) \cup Range(events)
         /\ \A id \in sentTo' : \/ id \in sentTo
                                \/ Carries(events, id) /\ Carries(wire', id)
<1> DEFINE all == recent \o events
           from == 1 + (IF Len(all) > Backlog THEN Len(all) - Backlog ELSE 0)
<1>0. recent \in Seq(Event) /\ wire \in Seq(Event)
  BY DEF ApiInv
<1>1. /\ all \in Seq(Event) /\ Range(all) = Range(recent) \cup Range(events)
      /\ wire \o events \in Seq(Event) /\ Range(wire \o events) = Range(wire) \cup Range(events)
  BY <1>0, RangeOfConcat
<1>2. recent' = SubSeq(all, from, Len(all))
  BY DEF publish
<1> HIDE DEF all
<1>3. from \in 1..Len(all) + 1
  BY <1>1, LenProperties, StreamAssumption
<1> HIDE DEF from
<1>4. recent' \in Seq(Event) /\ Range(recent') \subseteq Range(all)
  BY <1>1, <1>2, <1>3, RangeOfSuffix
<1>5. CASE link = "open"
  <2>1. wire' = wire \o events /\ sentTo' = sentTo \cup ApprovalIds(events)
    BY <1>5 DEF publish
  <2>2. \A id \in ApprovalIds(events) : Carries(events, id) /\ Carries(wire', id)
    BY <1>1, <2>1 DEF ApprovalIds, Carries
  <2> QED BY <1>1, <1>4, <2>1, <2>2
<1>6. CASE link # "open"
  <2>1. wire' = wire /\ sentTo' = sentTo
    BY <1>6 DEF publish
  <2> QED BY <1>0, <1>1, <1>4, <2>1
<1> QED BY <1>5, <1>6

\* A handler that changes requests and publishes about them.
LEMMA PublishStep ==
  ASSUME ApiInv, NEW yes, NEW events \in Seq(Event), publish(events), AskMoves(yes),
         ask' \in [Asks -> AskStates], expires' \in [Asks -> Nat], now' = now,
         \A id \in Asks : ask'[id] = "pending" => expires'[id] # 0,
         \A e \in Range(events) : Announced(e, ask', expires')
  PROVE  ApiMoves(yes)
<1>1. /\ recent' \in Seq(Event) /\ wire' \in Seq(Event)
      /\ Range(recent') \subseteq Range(recent) \cup Range(events)
      /\ Range(wire) \subseteq Range(wire')
      /\ Range(wire') \subseteq Range(wire) \cup Range(events)
      /\ \A id \in sentTo' : id \in sentTo \/ (Carries(events, id) /\ Carries(wire', id))
  BY Published
<1>2. /\ now \in Nat /\ \A e \in Range(recent) \cup Range(wire) : Announced(e, ask, expires)
      /\ \A id \in sentTo : id \in Asks => ask[id] # "idle"
  BY DEF ApiInv
<1>3. \A e \in Range(recent') \cup Range(wire') : Announced(e, ask', expires')
  BY <1>1, <1>2, AnnouncedKept
<1>4. \A id \in sentTo' : id \in Asks => ask'[id] # "idle"
  <2> SUFFICES ASSUME NEW id \in sentTo', id \in Asks PROVE ask'[id] # "idle"
    OBVIOUS
  <2>1. CASE id \in sentTo
    BY <1>2, <2>1 DEF AskMoves, Told
  <2>2. CASE Carries(events, id)
    BY <2>2 DEF Carries, Announced
  <2> QED BY <1>1, <2>1, <2>2
<1>5. ApiInv'
  BY <1>1, <1>2, <1>3, <1>4 DEF ApiInv
<1> QED BY <1>1, <1>2, <1>5 DEF ApiMoves, StreamKeeps

\* A verify call is decided, escalated, or never answered.
LEMMA VerifyStep ==
  ASSUME ApiInv, NEW id \in Asks, verify(id) \/ verifyLost(id)
  PROVE  ApiMoves({})
<1>0. /\ ask \in [Asks -> AskStates] /\ expires \in [Asks -> Nat] /\ now \in Nat
      /\ \A k \in Asks : ask[k] = "pending" => expires[k] # 0
      /\ \A e \in Range(recent) \cup Range(wire) : Announced(e, ask, expires)
  BY DEF ApiInv
<1>1. CASE verifyDecided(id)
  <2>1. /\ ask' = [ask EXCEPT ![id] = "decided"] /\ ask[id] = "idle"
        /\ UNCHANGED <<expires, now>> /\ publish(<<Plain>>)
    BY <1>1 DEF verifyDecided
  <2>2. AskMoves({})
    BY <1>0, <2>1 DEF AskMoves, Told
  <2>3. ask' \in [Asks -> AskStates] /\ expires' \in [Asks -> Nat]
        /\ \A k \in Asks : ask'[k] = "pending" => expires'[k] # 0
    BY <1>0, <2>1 DEF AskStates, Final
  <2>4. \A e \in Range(<<Plain>>) : Announced(e, ask', expires')
    BY OwnEvents DEF Announced
  <2> QED BY <2>1, <2>2, <2>3, <2>4, OwnEvents, PublishStep
<1>2. CASE verifyEscalated(id)
  <2> DEFINE t == now + ApprovalTimeout
             a == Approval(id, t, TRUE)
  <2>1. /\ ask' = [ask EXCEPT ![id] = "pending"] /\ ask[id] = "idle"
        /\ expires' = [expires EXCEPT ![id] = t]
        /\ UNCHANGED now /\ publish(<<Plain, a>>)
    BY <1>2 DEF verifyEscalated
  <2>2. t \in Nat /\ t # 0
    BY <1>0, DashboardAssumption
  <2>3. a \in Event /\ a.id = id /\ a.expires = t
    BY <2>2 DEF Approval, Event
  <2> HIDE DEF t, a
  <2>4. AskMoves({})
    BY <1>0, <2>1 DEF AskMoves, Told
  <2>5. ask' \in [Asks -> AskStates] /\ expires' \in [Asks -> Nat]
        /\ \A k \in Asks : ask'[k] = "pending" => expires'[k] # 0
    BY <1>0, <2>1, <2>2 DEF AskStates
  <2>6. \A e \in {Plain, a} : Announced(e, ask', expires')
    BY <1>0, <2>1, <2>3, OwnEvents DEF Announced
  <2>7. <<Plain, a>> \in Seq(Event) /\ Range(<<Plain, a>>) = {Plain, a}
    BY <2>3, OwnEvents
  <2> QED BY <2>1, <2>4, <2>5, <2>6, <2>7, PublishStep
<1>3. CASE verifyLost(id)
  <2>1. /\ ask' = [ask EXCEPT ![id] = "lost"] /\ ask[id] = "idle"
        /\ UNCHANGED <<expires, now, recent, wire, sentTo>>
    BY <1>3 DEF verifyLost, streamVars
  <2>2. AskMoves({})
    BY <1>0, <2>1 DEF AskMoves, Told
  <2>3. \A e \in Range(recent') \cup Range(wire') : Announced(e, ask', expires')
    BY <1>0, <2>1, <2>2, AnnouncedKept
  <2>4. ApiInv'
    BY <1>0, <2>1, <2>3 DEF ApiInv, AskStates, Final
  <2> QED BY <1>0, <2>1, <2>2, <2>4 DEF ApiMoves, StreamKeeps
<1> QED BY <1>1, <1>2, <1>3 DEF verify

\* A held call resumes.
LEMMA ResolveStep ==
  ASSUME ApiInv, NEW id \in pendingIds, NEW yes, NEW o, resolves(id, o),
         o = "expired" \/ (o \in Told /\ id \in yes)
  PROVE  ApiMoves(yes) /\ ask' = [ask EXCEPT ![id] = o]
<1>0. /\ ask \in [Asks -> AskStates] /\ expires \in [Asks -> Nat] /\ now \in Nat
      /\ \A k \in Asks : ask[k] = "pending" => expires[k] # 0
      /\ id \in Asks /\ ask[id] = "pending"
  BY DEF ApiInv, pendingIds
<1>1. /\ ask' = [ask EXCEPT ![id] = o] /\ expires' = [expires EXCEPT ![id] = 0]
      /\ UNCHANGED now /\ publish(<<Plain>>)
  BY DEF resolves
<1>2. AskMoves(yes)
  BY <1>0, <1>1 DEF AskMoves
<1>3. ask' \in [Asks -> AskStates] /\ expires' \in [Asks -> Nat]
      /\ \A k \in Asks : ask'[k] = "pending" => expires'[k] # 0
  BY <1>0, <1>1 DEF AskStates, Final, Told
<1>4. \A e \in Range(<<Plain>>) : Announced(e, ask', expires')
  BY OwnEvents DEF Announced
<1> QED BY <1>1, <1>2, <1>3, <1>4, OwnEvents, PublishStep

\* Nothing happens to the requests, the clock or the stream.
LEMMA ApiKept ==
  ASSUME ApiInv, UNCHANGED <<ask, expires, now, recent, wire, sentTo>>, NEW yes
  PROVE  ApiMoves(yes)
BY DEF ApiInv, ApiMoves, AskMoves, StreamKeeps, Carries

\* Timers, faults and the clock.
LEMMA ApiStep ==
  ASSUME ApiInv, apiStep
  PROVE  ApiMoves({})
<1>0. /\ ask \in [Asks -> AskStates] /\ expires \in [Asks -> Nat] /\ now \in Nat
      /\ wire \in Seq(Event) /\ recent \in Seq(Event)
      /\ \A e \in Range(recent) \cup Range(wire) : Announced(e, ask, expires)
      /\ \A k \in sentTo : k \in Asks => ask[k] # "idle"
  BY DEF ApiInv
<1>1. CASE \E id \in Asks : approvalTimeout(id)
  BY <1>1, ResolveStep DEF approvalTimeout
<1>2. CASE stops
  <2>1. /\ ask' = [id \in Asks |-> IF id \in pendingIds THEN "lost" ELSE ask[id]]
        /\ expires' = [id \in Asks |-> 0] /\ recent' = <<>>
        /\ UNCHANGED <<now, wire, sentTo>>
    BY <1>2 DEF stops
  <2>2. AskMoves({})
    BY <1>0, <2>1 DEF AskMoves, pendingIds
  <2>3. recent' \in Seq(Event) /\ Range(recent') = {}
    BY <2>1 DEF Range
  <2>4. \A e \in Range(recent') \cup Range(wire') : Announced(e, ask', expires')
    BY <1>0, <2>1, <2>2, <2>3, AnnouncedKept
  <2>5. ask' \in [Asks -> AskStates] /\ expires' \in [Asks -> Nat]
        /\ \A k \in Asks : ask'[k] # "pending" /\ (ask'[k] = "idle" => ask[k] = "idle")
    BY <1>0, <2>1 DEF AskStates, Final, pendingIds
  <2>6. ApiInv'
    BY <1>0, <2>1, <2>3, <2>4, <2>5 DEF ApiInv
  <2> QED BY <1>0, <2>1, <2>2, <2>6 DEF ApiMoves, StreamKeeps
<1>3. CASE tick
  <2>1. now' = now + 1 /\ UNCHANGED <<ask, expires, recent, wire, sentTo>>
    BY <1>3 DEF tick, streamVars
  <2>2. ApiInv'
    BY <1>0, <2>1 DEF ApiInv
  <2> QED BY <1>0, <2>1, <2>2 DEF ApiMoves, AskMoves, StreamKeeps
<1>4. CASE linkBreaks \/ cookieExpires \/ \E t \in Tokens : starts(t)
  <2>1. UNCHANGED <<ask, expires, now, recent, wire, sentTo>>
    BY <1>4 DEF linkBreaks, cookieExpires, starts, streamVars
  <2> QED BY <2>1, ApiKept
<1> QED BY <1>1, <1>2, <1>3, <1>4 DEF apiStep

\* The page subscribes, opens or closes its source, or handles a frame: what it
\* is sent comes from the backlog.
LEMMA StreamStep ==
  ASSUME ApiInv, UNCHANGED <<ask, expires, now, recent>>,
         \/ subscribe \/ \E state : source(state)
         \/ wire # <<>> /\ wire' = Tail(wire) /\ UNCHANGED sentTo
  PROVE  ApiInv'
<1>0. /\ recent \in Seq(Event) /\ wire \in Seq(Event)
      /\ \A e \in Range(recent) \cup Range(wire) : Announced(e, ask, expires)
      /\ \A k \in sentTo : k \in Asks => ask[k] # "idle"
  BY DEF ApiInv
<1>1. CASE subscribe
  <2>1. wire' = recent /\ sentTo' = ApprovalIds(recent)
    BY <1>1 DEF subscribe, replay
  <2>2. \A id \in sentTo' : id \in Asks => ask[id] # "idle"
    BY <1>0, <2>1 DEF ApprovalIds, Announced
  <2> QED BY <1>0, <2>1, <2>2 DEF ApiInv
<1>2. CASE \E state : source(state)
  <2>1. wire' = <<>> /\ sentTo' = {}
    BY <1>2 DEF source
  <2>2. wire' \in Seq(Event) /\ Range(wire') = {}
    BY <2>1 DEF Range
  <2> QED BY <1>0, <2>1, <2>2 DEF ApiInv
<1>3. CASE wire # <<>> /\ wire' = Tail(wire) /\ UNCHANGED sentTo
  <2>1. wire' \in Seq(Event) /\ Range(wire') \subseteq Range(wire)
    BY <1>0, <1>3, RangeOfTail
  <2> QED BY <1>0, <1>3, <2>1 DEF ApiInv
<1> QED BY <1>1, <1>2, <1>3

-----------------------------------------------------------------------------
(* The operator page *)

\* Requests, events and the clock move; the cards do not.
LEMMA ShowKept ==
  ASSUME ApiInv, ShowInv, NEW yes, ApiMoves(yes), UNCHANGED <<cards, page>>
  PROVE  ShowInv'
<1>0. /\ AskMoves(yes) /\ now \in Nat /\ now' \in Nat /\ now <= now'
      /\ expires \in [Asks -> Nat] /\ expires' \in [Asks -> Nat]
      /\ Range(wire) \subseteq Range(wire')
      /\ \A id \in sentTo' : id \in sentTo \/ Carries(wire', id)
      /\ \A id \in sentTo : id \in Asks => ask[id] # "idle"
  BY DEF ApiInv, ApiMoves, StreamKeeps
<1>1. \A c \in cards' : c.id \in Asks =>
        /\ ask'[c.id] # "idle"
        /\ ask'[c.id] = "pending" => c.expires = expires'[c.id]
  BY <1>0 DEF ShowInv, AskMoves, Told
<1>2. ASSUME page' = "ops", NEW id \in sentTo' \cap Asks,
             ask'[id] = "pending", expires'[id] > now'
      PROVE  (\E c \in cards' : c.id = id) \/ Carries(wire', id)
  <2>1. CASE id \in sentTo
    <3>1. ask[id] = "pending" /\ expires'[id] = expires[id]
      BY <1>0, <1>2, <2>1 DEF AskMoves, Told
    <3>2. expires[id] > now
      BY <1>0, <1>2, <3>1
    <3>3. (\E c \in cards : c.id = id) \/ Carries(wire, id)
      BY <1>2, <2>1, <3>1, <3>2 DEF ShowInv, Covered
    <3> QED BY <1>0, <3>3 DEF Carries
  <2> QED BY <1>0, <2>1
<1> QED BY <1>1, <1>2 DEF ShowInv, Covered

\* The page says what it said, of requests that others answer.
LEMMA TellKept ==
  ASSUME ClickInv, TellInv, NEW yes, AskMoves(yes),
         UNCHANGED <<cards, page, resolved, click, doubtful>>,
         elsewhere \subseteq elsewhere', page = "ops" => yes \subseteq elsewhere'
  PROVE  ClickInv' /\ TellInv'
<1>0. page # "ops" => click = Idle /\ click.id \notin Asks
  BY DashboardAssumption DEF TellInv, Idle
<1>1. ClickInv'
  <2>1. click.status = 200 => ask'[click.id] = ask[click.id]
    BY DEF ClickInv, AskMoves, Outcome, Told
  <2>2. click.id \in Asks /\ ask'[click.id] \in Told =>
          ask[click.id] = ask'[click.id] \/ click.id \in yes
    BY DEF AskMoves, Told
  <2> QED BY <1>0, <2>1, <2>2 DEF ClickInv, LostStatus
<1>2. TellInv'
  <2>1. \A id \in Asks : ask[id] \in Told => ask'[id] = ask[id]
    BY DEF AskMoves, Told
  <2>2. \A id \in Asks : ask'[id] \in Told => ask[id] = ask'[id] \/ id \in yes
    BY DEF AskMoves, Told
  <2>3. \A id \in Asks : resolved[id] \in Told => ask'[id] = resolved[id]
    BY <2>1 DEF TellInv
  <2>4. page = "ops" => \A id \in Asks : ask'[id] \in Told =>
          resolved[id] = ask'[id] \/ id \in elsewhere' \cup doubtful \cup {click.id}
    BY <2>2 DEF TellInv
  <2> QED BY <2>3, <2>4 DEF TellInv
<1> QED BY <1>1, <1>2

\* Somebody else's step, as the open page lives through it.
LEMMA OthersStep ==
  ASSUME ApiInv, OpsInv, NEW yes, ApiMoves(yes), UNCHANGED opsVars, UNCHANGED page,
         elsewhere \subseteq elsewhere', page = "ops" => yes \subseteq elsewhere'
  PROVE  ApiInv' /\ OpsInv'
<1>1. UNCHANGED <<cards, resolved, click, doubtful>> /\ AskMoves(yes) /\ ApiInv'
  BY DEF opsVars, ApiMoves
<1> QED BY <1>1, ShowKept, TellKept DEF OpsInv

\* Another page is open: the operator page shows and says nothing.
LEMMA AwayStep ==
  ASSUME OpsInv, page # "ops", NEW yes, AskMoves(yes), UNCHANGED opsVars,
         UNCHANGED <<page, elsewhere>>
  PROVE  OpsInv'
<1>1. UNCHANGED <<cards, resolved, click, doubtful>>
  BY DEF opsVars
<1>2. ClickInv' /\ TellInv'
  BY <1>1, TellKept DEF OpsInv
<1>3. ShowInv'
  BY <1>1 DEF OpsInv, TellInv, ShowInv
<1> QED BY <1>2, <1>3 DEF OpsInv

\* A handler of the page leaves the stream alone, or closes or opens it anew,
\* and takes no card of a live request away.
LEMMA ShowStep ==
  ASSUME ApiInv, ShowInv, UNCHANGED <<ask, expires, now, page>>,
         UNCHANGED streamVars \/ \E state : source(state),
         cards' \subseteq cards,
         \A c \in cards : c.id \in Asks /\ ask[c.id] = "pending" /\ expires[c.id] > now =>
           \E k \in cards' : k.id = c.id
  PROVE  ApiInv' /\ ShowInv'
<1>1. \A c \in cards' : c.id \in Asks =>
        /\ ask'[c.id] # "idle"
        /\ ask'[c.id] = "pending" => c.expires = expires'[c.id]
  BY DEF ShowInv
<1>2. CASE UNCHANGED streamVars
  <2>1. UNCHANGED <<recent, wire, sentTo>>
    BY <1>2 DEF streamVars
  <2>2. ApiInv'
    BY <2>1 DEF ApiInv
  <2>3. page' = "ops" => Covered'
    BY <2>1 DEF ShowInv, Covered, Carries
  <2> QED BY <1>1, <2>2, <2>3 DEF ShowInv
<1>3. CASE \E state : source(state)
  <2>1. UNCHANGED recent /\ sentTo' = {}
    BY <1>3 DEF source
  <2>2. ApiInv'
    BY <1>3, <2>1, StreamStep
  <2>3. Covered'
    BY <2>1 DEF Covered
  <2> QED BY <1>1, <2>2, <2>3 DEF ShowInv
<1> QED BY <1>2, <1>3

\* A health answer changes what is known of the session, never the cards.
LEMMA Refreshed ==
  ASSUME NEW reply, refreshed(reply)
  PROVE  /\ cards' = cards
         /\ UNCHANGED streamVars \/ \E state : source(state)
BY DEF refreshed, Render, effect

\* Health, the login form, and the stream's opening and failing.
LEMMA SessionStep ==
  ASSUME ApiInv, OpsInv, UNCHANGED <<page, elsewhere>>,
         \/ refreshHealth \/ healthArrives \/ (\E t \in Tokens : submit(t))
         \/ onopen \/ onerror
  PROVE  ApiInv' /\ OpsInv'
<1>0. /\ UNCHANGED <<ask, expires, now, resolved, click, doubtful, cards>>
      /\ UNCHANGED streamVars \/ subscribe \/ \E state : source(state)
  <2>1. CASE refreshHealth
    BY <2>1 DEF refreshHealth, apiVars, serverVars
  <2>2. CASE healthArrives
    BY <2>2, Refreshed DEF healthArrives, serverVars
  <2>3. CASE \E t \in Tokens : submit(t)
    BY <2>3, Refreshed DEF submit
  <2>4. CASE onopen \/ onerror
    BY <2>4 DEF onopen, onerror, serverVars
  <2> QED BY <2>1, <2>2, <2>3, <2>4
<1>1. ClickInv' /\ TellInv'
  <2>1. AskMoves({})
    BY <1>0 DEF AskMoves
  <2> QED BY <1>0, <2>1, TellKept DEF OpsInv
<1>2. CASE subscribe
  <2>1. UNCHANGED recent /\ wire' = recent /\ sentTo' = ApprovalIds(recent)
    BY <1>2 DEF subscribe, replay
  <2>2. ApiInv'
    BY <1>0, <1>2, <2>1, StreamStep
  <2>3. \A id \in sentTo' : Carries(wire', id)
    BY <2>1 DEF ApprovalIds, Carries
  <2>4. ShowInv'
    BY <1>0, <2>3 DEF OpsInv, ShowInv, Covered
  <2> QED BY <1>1, <2>2, <2>4 DEF OpsInv
<1>3. CASE UNCHANGED streamVars \/ \E state : source(state)
  BY <1>0, <1>1, <1>3, ShowStep DEF OpsInv
<1> QED BY <1>0, <1>2, <1>3

\* A frame is handled: a request's card takes the place of its event.
LEMMA FrameStep ==
  ASSUME ApiInv, OpsInv, UNCHANGED <<page, elsewhere>>, page = "ops", onframe
  PROVE  ApiInv' /\ OpsInv'
<1> DEFINE e == Head(wire)
           c == [id |-> e.id, intent |-> e.intent,
                 expires |-> IF e.expires = 0 THEN now + PageTtl ELSE e.expires]
           cs == IF e.type = "approval" THEN offered(c) ELSE cards
           told == e.type = "approval" /\ resolved[e.id] \in Told
<1>0. /\ wire # <<>> /\ cards' = cs
      /\ UNCHANGED <<ask, expires, now, resolved, click>>
      /\ doubtful' = IF told THEN doubtful \cup {e.id} ELSE doubtful
      /\ \/ source("none")
         \/ wire' = Tail(wire) /\ UNCHANGED <<recent, sentTo>>
  BY DEF onframe, Render, serverVars, Told
<1>1. /\ wire \in Seq(Event) /\ e \in Range(wire) /\ e \in Event
      /\ Range(wire) \subseteq Range(Tail(wire)) \cup {e}
      /\ Announced(e, ask, expires)
      /\ \A id \in Asks : ask[id] = "pending" => expires[id] # 0
  BY <1>0, RangeOfTail DEF ApiInv
<1>2. ApiInv'
  <2>1. UNCHANGED recent
    BY <1>0 DEF source
  <2> QED BY <1>0, <2>1, StreamStep
<1>3. c.id = e.id /\ (e.expires # 0 => c.expires = e.expires)
  OBVIOUS
<1>4. /\ e.type # "approval" => cs = cards
      /\ e.type = "approval" => /\ c \in cs
                                /\ \A k \in cs : k = c \/ k \in cards
                                /\ \A k \in cards : \E l \in cs : l.id = k.id
  <2> HIDE DEF e, c
  <2> QED BY DEF offered
<1> HIDE DEF c, cs, e
<1>5. \A k \in cards' : k.id \in Asks =>
        /\ ask[k.id] # "idle"
        /\ ask[k.id] = "pending" => k.expires = expires[k.id]
  <2>1. e.type = "approval" /\ c.id \in Asks =>
          /\ ask[c.id] # "idle"
          /\ ask[c.id] = "pending" => c.expires = expires[c.id]
    BY <1>1, <1>3 DEF Announced
  <2> QED BY <1>0, <1>4, <2>1 DEF OpsInv, ShowInv
<1>6. Covered'
  <2>1. CASE source("none")
    BY <2>1 DEF source, Covered
  <2>2. CASE wire' = Tail(wire) /\ UNCHANGED <<recent, sentTo>>
    <3> SUFFICES ASSUME NEW id \in sentTo \cap Asks,
                        ask[id] = "pending", expires[id] > now
                 PROVE  (\E k \in cs : k.id = id) \/ Carries(Tail(wire), id)
      BY <1>0, <2>2 DEF Covered
    <3>1. (\E k \in cards : k.id = id) \/ Carries(wire, id)
      BY DEF OpsInv, ShowInv, Covered
    <3>2. Carries(wire, id) =>
            Carries(Tail(wire), id) \/ (e.type = "approval" /\ e.id = id)
      BY <1>1 DEF Carries
    <3> QED BY <1>3, <1>4, <3>1, <3>2
  <2> QED BY <1>0, <2>1, <2>2
<1>7. TellInv'
  <2>1. \A k \in cards' : k.id \in Asks /\ resolved[k.id] \in Told => k.id \in doubtful'
    BY <1>0, <1>3, <1>4 DEF OpsInv, TellInv
  <2> QED BY <1>0, <2>1 DEF OpsInv, TellInv
<1>8. ClickInv'
  BY <1>0 DEF OpsInv, ClickInv
<1> QED BY <1>0, <1>2, <1>5, <1>6, <1>7, <1>8 DEF OpsInv, ShowInv

\* Cards past their deadline go, and are said to have expired.
LEMMA AgeStep ==
  ASSUME ApiInv, OpsInv, UNCHANGED <<page, elsewhere>>, page = "ops", age
  PROVE  ApiInv' /\ OpsInv'
<1> DEFINE old == {c \in cards : c.expires <= now}
<1>0. /\ cards' = cards \ old
      /\ UNCHANGED <<ask, expires, now, click, doubtful>>
      /\ resolved' = [id \in DOMAIN resolved |->
                        IF \E c \in old : c.id = id THEN "expired" ELSE resolved[id]]
      /\ UNCHANGED streamVars \/ source("none")
  BY DEF age, Render, serverVars
<1>1. /\ resolved \in [Asks \cup Strangers -> {"open", "expired"} \cup Told]
      /\ expires \in [Asks -> Nat] /\ now \in Nat
  BY DEF OpsInv, TellInv, ApiInv
<1>2. ApiInv' /\ ShowInv'
  <2>1. \A c \in cards : c.id \in Asks /\ ask[c.id] = "pending" /\ expires[c.id] > now =>
          c \in cards'
    BY <1>0, <1>1 DEF OpsInv, ShowInv
  <2> QED BY <1>0, <2>1, ShowStep DEF OpsInv
<1>3. /\ resolved' \in [Asks \cup Strangers -> {"open", "expired"} \cup Told]
      /\ \A id \in Asks : \/ resolved'[id] = resolved[id]
                          \/ resolved'[id] = "expired" /\ \E c \in cards : c.id = id
  BY <1>0, <1>1
<1>4. TellInv'
  <2>1. \A id \in Asks : resolved'[id] \in Told => ask'[id] = resolved'[id]
    BY <1>0, <1>3 DEF OpsInv, TellInv, Told
  <2>2. \A c \in cards' : c.id \in Asks /\ resolved'[c.id] \in Told => c.id \in doubtful'
    BY <1>0, <1>3 DEF OpsInv, TellInv, Told
  <2>3. \A id \in Asks : ask'[id] \in Told =>
          resolved'[id] = ask'[id] \/ id \in elsewhere' \cup doubtful' \cup {click'.id}
    BY <1>0, <1>3 DEF OpsInv, TellInv
  <2> QED BY <1>3, <2>1, <2>2, <2>3 DEF TellInv
<1>5. ClickInv'
  BY <1>0 DEF OpsInv, ClickInv
<1> QED BY <1>2, <1>4, <1>5 DEF OpsInv

\* The owner clicks: the API resolves the request, refuses, or is not reached.
LEMMA ClickStep ==
  ASSUME ApiInv, OpsInv, UNCHANGED <<page, elsewhere>>, page = "ops",
         NEW id \in Asks \cup Strangers, NEW approved \in BOOLEAN, resolve(id, approved)
  PROVE  ApiInv' /\ OpsInv'
<1>0. /\ click = Idle /\ \E c \in cards : c.id = id
      /\ click'.id = id /\ click'.approved = approved
      /\ UNCHANGED <<cards, resolved, doubtful>>
      /\ \/ /\ hasDashboardSession /\ id \in pendingIds
            /\ resolves(id, Outcome(approved))
            /\ click'.status \in {200, LostStatus}
         \/ UNCHANGED apiVars /\ click'.status # 200
  BY DEF resolve, approve, request, approveStatus, LostStatus
<1>1. click.id \notin Asks
  BY <1>0, DashboardAssumption DEF Idle
<1>2. ApiMoves({id}) /\ (\/ id \in Asks /\ ask'[id] = Outcome(approved)
                            /\ click'.status \in {200, LostStatus}
                         \/ UNCHANGED ask /\ click'.status # 200)
  <2>1. CASE id \in pendingIds /\ resolves(id, Outcome(approved))
             /\ click'.status \in {200, LostStatus}
    <3>1. Outcome(approved) \in Told /\ id \in Asks /\ ask \in [Asks -> AskStates]
      BY <2>1 DEF Outcome, Told, pendingIds, ApiInv
    <3>2. ApiMoves({id}) /\ ask' = [ask EXCEPT ![id] = Outcome(approved)]
      BY <2>1, <3>1, ResolveStep
    <3> QED BY <2>1, <3>1, <3>2
  <2>2. CASE UNCHANGED apiVars /\ click'.status # 200
    <3>1. UNCHANGED <<ask, expires, now, recent, wire, sentTo>>
      BY <2>2 DEF apiVars, serverVars, streamVars
    <3> QED BY <2>2, <3>1, ApiKept
  <2> QED BY <1>0, <2>1, <2>2
<1>3. /\ \A k \in Asks : ask[k] \in Told => ask'[k] = ask[k]
      /\ \A k \in Asks : ask'[k] \in Told => ask'[k] = ask[k] \/ k = id
  BY <1>2 DEF ApiMoves, AskMoves, Told
<1>4. ShowInv'
  BY <1>0, <1>2, ShowKept DEF OpsInv
<1>5. ClickInv'
  <2>1. id \in Asks /\ ask[id] \in Told => id \in elsewhere \cup doubtful
    BY <1>0, <1>1 DEF OpsInv, TellInv
  <2> QED BY <1>0, <1>2, <2>1 DEF ClickInv, LostStatus
<1>6. TellInv'
  <2>1. \A k \in Asks : resolved[k] \in Told => ask'[k] = resolved[k]
    BY <1>3 DEF OpsInv, TellInv
  <2>2. \A k \in Asks : ask'[k] \in Told =>
          resolved[k] = ask'[k] \/ k \in elsewhere \cup doubtful \cup {id}
    BY <1>1, <1>3 DEF OpsInv, TellInv
  <2> QED BY <1>0, <2>1, <2>2 DEF OpsInv, TellInv
<1> QED BY <1>2, <1>4, <1>5, <1>6 DEF OpsInv, ApiMoves

\* The answer to a click arrives, or its absence is noticed.
LEMMA ReturnStep ==
  ASSUME ApiInv, OpsInv, UNCHANGED <<page, elsewhere>>, page = "ops", clickReturns
  PROVE  ApiInv' /\ OpsInv'
<1> DEFINE id == click.id
<1>0. /\ click' = Idle /\ UNCHANGED <<ask, expires, now>>
      /\ doubtful' = IF click.status = LostStatus THEN doubtful \cup {id} ELSE doubtful
  BY DEF clickReturns, serverVars
<1>1. ClickInv'
  BY <1>0, DashboardAssumption DEF ClickInv, Idle, LostStatus
<1>2. resolved \in [Asks \cup Strangers -> {"open", "expired"} \cup Told]
  BY DEF OpsInv, TellInv
<1>3. CASE click.status = 200
  <2>1. /\ resolved' = [resolved EXCEPT ![id] = Outcome(click.approved)]
        /\ cards' = {c \in cards : c.id # id} /\ doubtful' = doubtful
        /\ UNCHANGED streamVars \/ source("none")
    BY <1>0, <1>3 DEF clickReturns, Render, LostStatus
  <2>2. id \in Asks /\ ask[id] = Outcome(click.approved) /\ ask[id] \in Told
    BY <1>3 DEF OpsInv, ClickInv, Outcome, Told
  <2>3. ApiInv' /\ ShowInv'
    <3>1. \A c \in cards : c.id \in Asks /\ ask[c.id] = "pending" => c \in cards'
      BY <2>1, <2>2 DEF Told
    <3> QED BY <1>0, <2>1, <3>1, ShowStep DEF OpsInv
  <2> HIDE DEF id
  <2>4. /\ resolved' \in [Asks \cup Strangers -> {"open", "expired"} \cup Told]
        /\ resolved'[id] = ask[id]
        /\ \A k \in Asks : k # id => resolved'[k] = resolved[k]
    BY <1>2, <2>1, <2>2
  <2>5. TellInv'
    <3>1. \A k \in Asks : resolved'[k] \in Told => ask'[k] = resolved'[k]
      BY <1>0, <2>4 DEF OpsInv, TellInv
    <3>2. \A c \in cards' : c.id \in Asks /\ resolved'[c.id] \in Told => c.id \in doubtful'
      BY <2>1, <2>4 DEF OpsInv, TellInv
    <3>3. \A k \in Asks : ask'[k] \in Told =>
            resolved'[k] = ask'[k] \/ k \in elsewhere' \cup doubtful' \cup {click'.id}
      <4>1. \A k \in Asks : ask[k] \in Told =>
              resolved[k] = ask[k] \/ k \in elsewhere \cup doubtful \cup {id}
        BY DEF OpsInv, TellInv, id
      <4> QED BY <1>0, <2>1, <2>4, <4>1
    <3> QED BY <2>4, <3>1, <3>2, <3>3 DEF TellInv
  <2> QED BY <1>1, <2>3, <2>5 DEF OpsInv
<1>4. CASE click.status # 200
  <2>1. UNCHANGED <<resolved, cards>> /\ UNCHANGED streamVars
    BY <1>4 DEF clickReturns
  <2>2. ApiInv' /\ ShowInv'
    BY <1>0, <2>1, ShowStep DEF OpsInv
  <2>3. id \in Asks /\ ask[id] \in Told => id \in elsewhere \cup doubtful'
    BY <1>0, <1>4 DEF OpsInv, ClickInv
  <2> HIDE DEF id
  <2>4. TellInv'
    <3>1. \A k \in Asks : ask[k] \in Told =>
            resolved[k] = ask[k] \/ k \in elsewhere \cup doubtful \cup {id}
      BY DEF OpsInv, TellInv, id
    <3>2. \A k \in Asks : ask[k] \in Told =>
            resolved[k] = ask[k] \/ k \in elsewhere \cup doubtful'
      BY <1>0, <2>3, <3>1
    <3> QED BY <1>0, <2>1, <3>2 DEF OpsInv, TellInv
  <2> QED BY <1>1, <2>2, <2>4 DEF OpsInv
<1> QED BY <1>3, <1>4

-----------------------------------------------------------------------------
(* The other pages and the demo runner *)

\* The run page asks, is answered, reads the stream and answers requests.
LEMMA BenchStep ==
  ASSUME ApiInv, OpsInv, BenchInv, page = "run", benchStep, UNCHANGED opsVars,
         UNCHANGED <<page, elsewhere>>
  PROVE  ApiInv' /\ OpsInv' /\ BenchInv'
<1>0. ApiInv' /\ (\E yes : AskMoves(yes)) /\ BenchInv'
  <2>1. ASSUME NEW id \in BenchAsks, evaluate(id) PROVE ApiMoves({}) /\ BenchInv'
    <3>1. id \in Asks /\ id # "none"
      BY BenchAssumption, DashboardAssumption
    <3>2. own' = id /\ (verify(id) \/ verifyLost(id))
      BY <2>1 DEF evaluate
    <3> QED BY <3>1, <3>2, VerifyStep DEF BenchInv, awaiting
  <2>2. CASE evaluated \/ answered
    <3>1. UNCHANGED <<ask, expires, now, recent, wire, sentTo>> /\ pending' = "none"
      BY <2>2 DEF evaluated, answered, apiVars, serverVars, streamVars
    <3> QED BY <3>1, ApiKept DEF BenchInv, ApiMoves
  <2>3. CASE frame
    <3>1. /\ wire # <<>> /\ wire' = Tail(wire)
          /\ UNCHANGED <<recent, sentTo, ask, expires, now, own>>
          /\ pending' = pending \/ awaiting
      BY <2>3 DEF frame, serverVars, takes
    <3>2. AskMoves({})
      BY <3>1 DEF AskMoves
    <3> QED BY <3>1, <3>2, StreamStep DEF BenchInv, awaiting
  <2>4. ASSUME NEW approved \in BOOLEAN, answer(approved)
        PROVE  ApiMoves({pending}) /\ BenchInv'
    <3>1. /\ UNCHANGED <<own, pending>>
          /\ \/ pending \in pendingIds /\ resolves(pending, Outcome(approved))
             \/ UNCHANGED apiVars
      BY <2>4 DEF answer, approve
    <3>2. Outcome(approved) \in Told
      BY DEF Outcome, Told
    <3>3. UNCHANGED apiVars => UNCHANGED <<ask, expires, now, recent, wire, sentTo>>
      BY DEF apiVars, serverVars, streamVars
    <3> QED BY <3>1, <3>2, <3>3, ApiKept, ResolveStep DEF BenchInv, awaiting
  <2>5. CASE connects \/ refused \/ reconnects
    <3>1. /\ UNCHANGED <<ask, expires, now, recent, own, pending>>
          /\ subscribe \/ \E state : source(state)
      BY <2>5 DEF connects, refused, reconnects, serverVars, benchVars, subscribe, source
    <3>2. AskMoves({})
      BY <3>1 DEF AskMoves
    <3> QED BY <3>1, <3>2, StreamStep DEF BenchInv, awaiting
  <2> QED BY <2>1, <2>2, <2>3, <2>4, <2>5 DEF benchStep, ApiMoves
<1> QED BY <1>0, AwayStep

\* The landing page asks about the scene on screen, and shows what it is told.
LEMMA HomeStep ==
  ASSUME ApiInv, OpsInv, HomeInv, page = "home", homeStep, UNCHANGED opsVars,
         UNCHANGED <<page, elsewhere>>
  PROVE  ApiInv' /\ OpsInv' /\ HomeInv'
<1>0. /\ asked \in [HomeAsks -> Nat] /\ scene \in Nat
      /\ \A id \in InFlight : asked[id] = scene \/ id \in overtaken
      /\ shown # "none" => shownFor = scene \/ shown \in overtaken
      /\ Scenes \in Nat
  BY HomeAssumption DEF HomeInv
<1>1. ApiMoves({}) /\ HomeInv'
  <2>1. ASSUME NEW s \in Nat, NEW id \in HomeAsks, play(s, id) PROVE ApiMoves({}) /\ HomeInv'
    <3>1. /\ scene' = s /\ shown' = "none" /\ asked' = [asked EXCEPT ![id] = s]
          /\ overtaken' = overtaken \cup InFlight /\ (verify(id) \/ verifyLost(id))
      BY <2>1 DEF play, clearVerdict
    <3>2. ApiMoves({})
      BY <3>1, HomeAssumption, VerifyStep
    <3>3. asked' \in [HomeAsks -> Nat] /\ asked'[id] = s
          /\ \A k \in HomeAsks \ {id} : asked'[k] = asked[k]
      BY <1>0, <3>1
    <3>4. \A k \in InFlight' : asked'[k] = scene' \/ k \in overtaken'
      BY <3>1, <3>3 DEF InFlight
    <3> QED BY <3>1, <3>2, <3>3, <3>4 DEF HomeInv
  <2>2. ASSUME pauses \/ (\E s \in 0..(Scenes - 1) : changesPaused(s))
               \/ (\E id \in HomeAsks : answers(id))
        PROVE  ApiMoves({}) /\ HomeInv'
    <3>1. UNCHANGED <<ask, expires, now, recent, wire, sentTo>>
      BY <2>2 DEF pauses, changesPaused, answers, apiVars, serverVars, streamVars
    <3>2. ASSUME pauses PROVE HomeInv'
      <4>1. UNCHANGED <<scene, asked, shown, shownFor, overtaken>>
        BY <3>2 DEF pauses
      <4> QED BY <1>0, <4>1 DEF HomeInv, InFlight
    <3>3. ASSUME NEW s \in 0..(Scenes - 1), changesPaused(s) PROVE HomeInv'
      <4>1. /\ scene' = s /\ overtaken' = overtaken \cup InFlight \cup {shown}
            /\ UNCHANGED <<asked, shown, shownFor>>
        BY <3>3 DEF changesPaused
      <4> QED BY <1>0, <4>1 DEF HomeInv, InFlight
    <3>4. ASSUME NEW id \in HomeAsks, answers(id) PROVE HomeInv'
      <4>1. /\ id \in InFlight /\ asked' = [asked EXCEPT ![id] = NoScene]
            /\ \/ shown' = id /\ shownFor' = asked[id]
               \/ shown' = "none"
               \/ UNCHANGED <<shown, shownFor>>
            /\ UNCHANGED <<scene, overtaken>>
        BY <3>4 DEF answers, clearVerdict
      <4>2. asked' \in [HomeAsks -> Nat] /\ asked'[id] = NoScene
            /\ \A k \in HomeAsks \ {id} : asked'[k] = asked[k]
        BY <1>0, <4>1 DEF NoScene
      <4>3. \A k \in InFlight' : asked'[k] = scene' \/ k \in overtaken'
        BY <1>0, <4>1, <4>2 DEF InFlight
      <4>4. shown' # "none" => shownFor' = scene' \/ shown' \in overtaken'
        BY <1>0, <4>1
      <4> QED BY <1>0, <4>1, <4>2, <4>3, <4>4 DEF HomeInv
    <3> QED BY <2>2, <3>1, <3>2, <3>3, <3>4, ApiKept
  <2> QED BY <1>0, <2>1, <2>2 DEF homeStep, replays, changes, resumes
<1> QED BY <1>1, AwayStep DEF ApiMoves

\* The runner's script is about requests of its own.
LEMMA RunnerScript == main \in Seq(RunnerEvent)
<1> DEFINE acts == [i \in 1..(2 * Acts) |-> act[1 + ((i + 1) % 2)]]
           asks == Approval(RunnerAsk, 0, TRUE)
           closes == Approval(RunnerAsk, 0, FALSE)
<1>0. Acts \in Nat /\ Slices \in Nat /\ RunnerAsk \in Strangers /\ RunnerAsk \notin Asks
  BY RunnerAssumption, ConsoleAssumption
<1>1. Plain \in RunnerEvent
  BY OwnEvents, DashboardAssumption DEF RunnerEvent, Plain
<1>2. asks \in RunnerEvent /\ closes \in RunnerEvent
  BY <1>0 DEF RunnerEvent, Event, Approval
<1>3. acts \in Seq(RunnerEvent)
  <2>1. ASSUME NEW i \in 1..(2 * Acts) PROVE act[1 + ((i + 1) % 2)] \in RunnerEvent
    <3>1. act[1] = Plain /\ act[2] = Plain
      BY DEF act, decisionPayload
    <3>2. (i + 1) % 2 \in {0, 1}
      BY <1>0
    <3> QED BY <1>1, <3>1, <3>2
  <2>2. 2 * Acts \in Nat
    BY <1>0
  <2> HIDE DEF acts
  <2>3. acts \in [1..(2 * Acts) -> RunnerEvent]
    BY <2>1 DEF acts
  <2> QED BY <2>2, <2>3, SeqDef
<1>4. salami \in Seq(RunnerEvent)
  <2>1. [i \in 1..Slices |-> decisionPayload] \in [1..Slices -> RunnerEvent]
    BY <1>1 DEF decisionPayload
  <2>2. [i \in 1..Slices |-> decisionPayload] \in Seq(RunnerEvent)
    BY <1>0, <2>1, SeqDef
  <2>3. <<Plain>> \in Seq(RunnerEvent)
    BY <1>1
  <2> QED BY <2>2, <2>3, ConcatProperties DEF salami
<1>5. escalatedAct \in Seq(RunnerEvent)
  <2>1. <<Plain>> \in Seq(RunnerEvent) /\ approverRequest \in Seq(RunnerEvent)
        /\ <<decisionPayload>> \in Seq(RunnerEvent)
    <3>1. \A x, y \in RunnerEvent : <<x>> \in Seq(RunnerEvent) /\ <<x, y>> \in Seq(RunnerEvent)
      OBVIOUS
    <3> QED BY <1>1, <1>2, <3>1 DEF approverRequest, decisionPayload
  <2> QED BY <2>1, ConcatProperties DEF escalatedAct
<1>6. bypass \in Seq(RunnerEvent) /\ identityScene \in Seq(RunnerEvent)
  BY <1>1 DEF bypass, identityScene, decisionPayload
<1> HIDE DEF acts
<1>7. identityScene \o acts \o escalatedAct \o acts \o salami \o bypass \in Seq(RunnerEvent)
  BY <1>3, <1>4, <1>5, <1>6, ConcatProperties
<1> QED BY <1>7 DEF main, acts

\* The runner publishes its next event, or loses it.
LEMMA RunnerStep ==
  ASSUME ApiInv, ScriptInv, runnerPublish
  PROVE  ApiMoves({}) /\ ScriptInv'
<1>0. script \in Seq(RunnerEvent) /\ script # <<>> /\ script' = Tail(script)
  BY DEF ScriptInv, runnerPublish
<1>1. Head(script) \in RunnerEvent /\ ScriptInv'
  BY <1>0, RangeOfTail DEF ScriptInv
<1>2. CASE up
  <2> DEFINE e == Head(script)
  <2>1. publish(<<e>>) /\ UNCHANGED <<ask, expires, now>>
    BY <1>2 DEF runnerPublish, publishRoute, serverVars
  <2>2. e \in Event /\ e.id \notin Asks
    BY <1>1 DEF RunnerEvent
  <2> HIDE DEF e
  <2>3. <<e>> \in Seq(Event) /\ Range(<<e>>) = {e}
    BY <2>2, OwnEvents
  <2>4. Announced(e, ask', expires')
    BY <2>2 DEF Announced
  <2>5. /\ ask' \in [Asks -> AskStates] /\ expires' \in [Asks -> Nat] /\ AskMoves({})
        /\ \A id \in Asks : ask'[id] = "pending" => expires'[id] # 0
    BY <2>1 DEF ApiInv, AskMoves
  <2> QED BY <1>1, <2>1, <2>3, <2>4, <2>5, PublishStep
<1>3. CASE ~up
  <2>1. UNCHANGED <<ask, expires, now, recent, wire, sentTo>>
    BY <1>3 DEF runnerPublish, apiVars, serverVars, streamVars
  <2> QED BY <1>1, <2>1, ApiKept
<1> QED BY <1>2, <1>3

-----------------------------------------------------------------------------
(* The theorems *)

\* No page has been sent anything yet.
LEMMA ConsoleInit == Init => IInv
<1> SUFFICES ASSUME Init PROVE IInv
  OBVIOUS
<1>1. ApiInv
  <2>1. /\ recent = <<>> /\ wire = <<>> /\ sentTo = {} /\ now = 0
        /\ ask = [id \in Asks |-> "idle"] /\ expires = [id \in Asks |-> 0]
    BY DEF Init, InitApi
  <2>2. recent \in Seq(Event) /\ wire \in Seq(Event) /\ Range(recent) = {} /\ Range(wire) = {}
    BY <2>1 DEF Range
  <2> QED BY <2>1, <2>2 DEF ApiInv, AskStates
<1>2. ScriptInv
  BY RunnerScript DEF Init, InitRunner, ScriptInv
<1>3. OpsInv
  <2>1. /\ cards = {} /\ click = Idle /\ sentTo = {} /\ ask = [id \in Asks |-> "idle"]
        /\ resolved = [id \in Asks \cup Strangers |-> "open"]
    BY DEF Init, InitApi, InitOps
  <2>2. click.status = 0 /\ click.id \notin Asks
    BY <2>1, DashboardAssumption DEF Idle
  <2> QED BY <2>1, <2>2 DEF OpsInv, ShowInv, Covered, ClickInv, TellInv, Told, LostStatus
<1>4. BenchInv
  BY DEF Init, InitBench, BenchInv
<1>5. HomeInv
  <2>1. /\ scene = 0 /\ asked = [id \in HomeAsks |-> NoScene] /\ shown = "none"
    BY DEF Init, InitHome
  <2>2. Scenes \in Nat
    BY HomeAssumption
  <2> QED BY <2>1, <2>2 DEF HomeInv, InFlight, NoScene
<1> QED BY <1>1, <1>2, <1>3, <1>4, <1>5 DEF IInv

\* The inductive invariant holds whichever page is open, and however its
\* handlers interleave with the API, its faults and its other callers.
THEOREM ConsoleInductive == Spec => []IInv
<1>1. IInv /\ [Next]_vars => IInv'
  <2> SUFFICES ASSUME IInv, [Next]_vars PROVE IInv'
    OBVIOUS
  <2>0. ApiInv /\ ScriptInv /\ OpsInv /\ BenchInv /\ HomeInv
    BY DEF IInv
  <2>1. UNCHANGED script => ScriptInv'
    BY <2>0 DEF ScriptInv
  <2>2. UNCHANGED benchVars => BenchInv'
    BY <2>0 DEF benchVars, BenchInv, awaiting
  <2>3. UNCHANGED homeVars => HomeInv'
    <3> SUFFICES ASSUME UNCHANGED <<scene, asked, shown, shownFor, overtaken>> PROVE HomeInv'
      BY DEF homeVars
    <3> QED BY <2>0 DEF HomeInv, InFlight
  <2>4. ASSUME NEW yes, ApiMoves(yes), others, elsewhere' = elsewhere \cup yes, ScriptInv'
        PROVE  IInv'
    <3>1. ApiInv' /\ OpsInv'
      BY <2>0, <2>4, OthersStep DEF others
    <3> QED BY <2>2, <2>3, <2>4, <3>1 DEF others, IInv
  <2>5. CASE apiStep /\ others /\ UNCHANGED <<script, elsewhere>>
    BY <2>0, <2>1, <2>4, <2>5, ApiStep
  <2>6. ASSUME NEW id \in Asks, NEW approved \in BOOLEAN, otherTab(id, approved) PROVE IInv'
    <3>1. Outcome(approved) \in Told
      BY DEF Outcome, Told
    <3>2. ApiMoves({id})
      BY <2>0, <2>6, <3>1, ResolveStep DEF otherTab
    <3> QED BY <2>1, <2>4, <2>6, <3>2 DEF otherTab
  <2>7. ASSUME NEW id \in OtherAsks, agentVerifies(id) PROVE IInv'
    <3>1. ApiMoves({})
      BY <2>0, <2>7, ConsoleAssumption, VerifyStep DEF agentVerifies
    <3> QED BY <2>1, <2>4, <2>7, <3>1 DEF agentVerifies
  <2>8. CASE runnerPublish /\ others /\ UNCHANGED elsewhere
    BY <2>0, <2>4, <2>8, RunnerStep
  <2>9. CASE page = "ops" /\ opsStep
             /\ UNCHANGED <<benchVars, homeVars, script, page, elsewhere>>
    <3>1. ApiInv' /\ OpsInv'
      BY <2>0, <2>9, SessionStep, FrameStep, AgeStep, ClickStep, ReturnStep DEF opsStep
    <3> QED BY <2>1, <2>2, <2>3, <2>9, <3>1 DEF IInv
  <2>10. CASE page = "run" /\ benchStep
              /\ UNCHANGED <<opsVars, homeVars, script, page, elsewhere>>
    BY <2>0, <2>1, <2>3, <2>10, BenchStep DEF IInv
  <2>11. CASE page = "home" /\ homeStep
              /\ UNCHANGED <<opsVars, benchVars, script, page, elsewhere>>
    BY <2>0, <2>1, <2>2, <2>11, HomeStep DEF IInv
  <2>12. CASE UNCHANGED vars
    <3>1. /\ UNCHANGED <<ask, expires, now, recent, wire, sentTo>> /\ others
          /\ UNCHANGED <<script, elsewhere>>
      BY <2>12 DEF vars, apiVars, serverVars, streamVars, others
    <3>2. ApiMoves({})
      BY <2>0, <3>1, ApiKept
    <3> QED BY <2>1, <2>4, <3>1, <3>2
  <2> QED BY <2>5, <2>6, <2>7, <2>8, <2>9, <2>10, <2>11, <2>12 DEF Next
<1> QED BY <1>1, ConsoleInit, PTL DEF Spec

\* An operator page whose stream is open, and which has handled what it was
\* sent, shows a card for every escalation still waiting that was in the backlog
\* when it subscribed or was published since (useStream.ts, stream.ts), for any
\* backlog, any sessions and any faults.
THEOREM NothingMissedHolds == Spec => []NothingMissed
<1>1. IInv => NothingMissed
  <2> SUFFICES ASSUME IInv, page = "ops", wire = <<>>, NEW id \in sentTo \cap pendingIds,
                      expires[id] > now
               PROVE  \E c \in cards : c.id = id
    BY DEF NothingMissed
  <2>1. id \in sentTo \cap Asks /\ ask[id] = "pending"
    BY DEF pendingIds
  <2>2. ~Carries(wire, id)
    BY DEF Carries, Range
  <2> QED BY <2>1, <2>2 DEF IInv, OpsInv, ShowInv, Covered
<1> QED BY <1>1, ConsoleInductive, PTL

\* What the operator page says became of an escalation is what its caller was
\* told, and the run page shows a card only while a call of its own waits
\* (Approvals.tsx, Ops.tsx, AttackBench.tsx).
THEOREM ToldTheTruthHolds == Spec => []ToldTheTruth
<1>1. IInv => ToldTheTruth
  <2> SUFFICES ASSUME IInv PROVE OpsTells /\ BenchTells
    BY DEF ToldTheTruth
  <2>1. TellInv /\ BenchInv
    BY DEF IInv, OpsInv
  <2>2. OpsTells
    <3>1. CASE page = "ops"
      BY <2>1, <3>1 DEF TellInv, OpsTells, Told
    <3>2. CASE page # "ops"
      BY <2>1, <3>2 DEF TellInv, OpsTells
    <3> QED BY <3>1, <3>2
  <2> QED BY <2>1, <2>2 DEF BenchInv, BenchTells
<1> QED BY <1>1, ConsoleInductive, PTL

\* The landing page shows the verdict of the scene on screen, except for a call
\* that was still open, or frozen on screen under the pointer, when the scene
\* changed (LiveDemo.tsx), for any number of scenes and calls.
THEOREM VerdictOfSceneHolds == Spec => []VerdictOfScene
<1>1. IInv => VerdictOfScene
  BY DEF IInv, HomeInv, VerdictOfScene
<1> QED BY <1>1, ConsoleInductive, PTL
=============================================================================
