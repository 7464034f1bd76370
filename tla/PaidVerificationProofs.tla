------------------------ MODULE PaidVerificationProofs ------------------------
(***************************************************************************)
(* The verification API behind its payment gate, for any number of         *)
(* requests, payloads, prices, policies, edits and crashes, and for any    *)
(* time to live and capacity of the replay guard.                          *)
(***************************************************************************)
EXTENDS PaidVerification, FiniteSetTheorems, SequenceTheorems, WellFoundedInduction, TLAPS

ReqPcs == {"free", "verifying", "working", "approval", "settling", "answered", "lost"}
Routes == {"verify", "decode"}
Bodies == {o.body : o \in Offers} \cup {OwnBody, BadBody}
CallPcs == {"idle", "attempting", "first", "challenged", "signed", "second",
            "forwarding", "forwarded", "decoding", "judging", "done"}
Outcomes == Answers \cup {"abandoned", "502", "stopped", "executed"}

ClaimType == [key: Payments, at: Nat]
ReqType == [pc: ReqPcs, route: Routes, pay: Payments \cup {"none"}, body: Bodies,
            under: Documents, decision: Decisions, answer: Answers, overtaken: BOOLEAN]
RecType == [req: Requests, n: Nat, hash: Documents, decision: Decisions]

Active == {"verifying", "working", "approval", "settling"}

ApiTypes ==
  /\ gate \in Gates /\ optional \in Engines
  /\ req \in [Requests -> ReqType]
  /\ asked \subseteq Payments /\ policy \in Documents
  /\ recorded \in Nat

Distinct(claims) ==
  \A i, j \in DOMAIN claims : claims[i].key = claims[j].key => i = j

\* The guard remembers each payload once, and no more of them than it may.
GuardInv ==
  /\ now \in Nat /\ seen \in Seq(ClaimType)
  /\ Len(seen) <= MaxClaims + 1
  /\ Distinct(seen)

\* What is known of one request x in slot r, with the gate g, the policy served
\* and the approvals clicked so far.
ReqOK(r, x, g, served, clicks) ==
  /\ x.pc = "free" => x = Free
  /\ x.pc \in {"verifying", "working", "approval", "lost"} => x.answer = "none"
  /\ x.pc = "settling" => x.answer \in Results
  /\ x.pc \in {"verifying", "working"} => x.decision = "ALLOW"
  /\ x.pc = "approval" => x.decision = "REQUIRE_APPROVAL" /\ x.route = "verify"
  /\ x.pc \in {"approval", "settling"} /\ x.route = "verify" /\ ~x.overtaken =>
       x.under = served
  /\ x.pc \in {"settling", "answered"} /\ x.decision = "REQUIRE_APPROVAL" =>
       (x.answer = "ALLOW" <=> r \in clicks)
  /\ r \in clicks => x.pc \in {"settling", "answered", "lost"}
  /\ g = "enabled" /\ x.pc \in Active => x.pay \in Payments
  /\ g = "disabled" => x.pay = "none"

ReqInv == \A r \in Requests : ReqOK(r, req[r], gate, policy, clicked)

\* The claim of a payload that is at work, or has bought a result, is in the
\* guard, and one request holds it.
HoldInv ==
  \A r \in Requests : Holding(r) /\ req[r].pay \in Payments \ lapsed =>
    /\ req[r].pay \in Claimed(seen)
    /\ \A s \in Requests : Holding(s) /\ req[s].pay = req[r].pay => s = r

\* Settlement is asked for with the result in hand.
AskedInv ==
  ~crashed => \A p \in asked : \E r \in Requests :
                req[r].pay = p /\ req[r].answer \in Results

Increasing(recs) == \A i, j \in DOMAIN recs : i < j => recs[i].n < recs[j].n
Before(recs, later) ==
  \A i \in DOMAIN recs, j \in DOMAIN later : recs[i].n < later[j].n

\* A record is of a delivered answer, and says what its request says.
RecOK(rec, reqs, written) ==
  /\ rec.n <= written
  /\ reqs[rec.req].pc = "answered"
  /\ rec.decision = reqs[rec.req].decision
  /\ ~reqs[rec.req].overtaken => rec.hash = reqs[rec.req].under

AllOK(recs, reqs, written) == \A i \in DOMAIN recs : RecOK(recs[i], reqs, written)

\* The flush holds the oldest waiting record; the topic's last one is older.
AuditShape ==
  /\ queue \in Seq(RecType) /\ submitting \in Seq(RecType) /\ topic \in Seq(RecType)
  /\ Increasing(queue) /\ Increasing(submitting) /\ Increasing(topic)
  /\ Before(topic, submitting) /\ Before(submitting, queue) /\ Before(topic, queue)
  /\ flushing = (submitting # <<>>)
  /\ ~flushing => queue = <<>>

AuditInv ==
  /\ AuditShape
  /\ AllOK(queue, req, recorded) /\ AllOK(submitting, req, recorded)
  /\ AllOK(topic, req, recorded)

ApiInv == ApiTypes /\ GuardInv /\ ReqInv /\ HoldInv /\ AskedInv /\ AuditInv

\* The limits an amount must pass before it is signed for.
WithinLimits(q, who) ==
  /\ q <= Ceiling
  /\ who = "researcher" => q < Document.approvalThreshold

\* Where a call c of the client who stands, with the price q, against its own
\* two requests; dead says that the process has died.
CallOK(own, fall, who, q, c, dead) ==
  /\ q \in Nat /\ c \in [pc: CallPcs, outcome: Outcomes]
  /\ who = "recipe" => q = 0 /\ c.pc \in {"idle", "decoding", "judging", "done"}
  /\ who # "recipe" => c.pc \notin {"decoding", "judging"}
  /\ c.pc = "signed" => WithinLimits(q, who)
  /\ own.pay = OwnPayment => WithinLimits(q, who)
  /\ own.pc = "lost" => dead
  /\ c.pc \in {"idle", "attempting", "challenged", "signed"} => own.pc = "free"
  /\ ~dead /\ who # "recipe" /\ c.pc \in {"forwarding", "forwarded", "done"} =>
       \/ own.pc = "free"
       \/ own.pc = "answered" /\ own.answer \notin Results
       \/ own.pc = "answered" /\ c.pc = "done" /\ c.outcome = own.answer
  /\ c.outcome = "executed" => fall.pc = "answered" /\ fall.answer = "ALLOW"

CallInv == CallOK(req[Own], req[Fallback], client, quote, call, crashed)

IInv == ApiInv /\ CallInv

-----------------------------------------------------------------------------
(* The replay guard *)

\* A set of numbers that is not empty has a least one.
LEMMA LeastNumber ==
  ASSUME NEW S, S \subseteq Nat, S # {}
  PROVE  \E i \in S : \A j \in S : i <= j
<1>1. PICK x \in S : \A y \in S : ~(<<y, x>> \in OpToRel(<, Nat))
  BY NatLessThanWellFounded, WFMin
<1>2. \A y \in S : (<<y, x>> \in OpToRel(<, Nat)) = (y < x)
  BY DEF OpToRel
<1>3. \A y \in S : ~(y < x)
  BY <1>1, <1>2, Zenon
<1> QED BY <1>3

\* Eviction leaves a suffix of the claims, short enough for one more.
LEMMA EvictFacts ==
  ASSUME NEW claims \in Seq(ClaimType), NEW t \in Nat, Distinct(claims)
  PROVE  /\ evict(claims, t) \in Seq(ClaimType)
         /\ Len(evict(claims, t)) <= MaxClaims
         /\ Distinct(evict(claims, t))
         /\ Claimed(evict(claims, t)) \subseteq Claimed(claims)
<1> DEFINE fresh == {i \in DOMAIN claims : i \notin expired(claims, t)}
           drop == {i \in DOMAIN claims : Len(claims) - i >= MaxClaims}
           kept == fresh \ drop
           first == CHOOSE i \in kept : \A j \in kept : i <= j
           suffix == SubSeq(claims, first, Len(claims))
<1>0. Len(claims) \in Nat /\ DOMAIN claims = 1..Len(claims) /\ MaxClaims \in Nat
  BY ReplayAssumption, LenProperties
<1>1. CASE kept = {}
  <2>1. evict(claims, t) = <<>>
    BY <1>1 DEF evict
  <2> QED BY <1>0, <2>1 DEF Distinct, Claimed
<1>2. CASE kept # {}
  <2>1. evict(claims, t) = suffix
    BY <1>2 DEF evict
  <2>2. kept \subseteq Nat
    BY <1>0
  <2>3. first \in kept
    <3>1. \E i \in kept : \A j \in kept : i <= j
      BY <1>2, <2>2, LeastNumber
    <3> HIDE DEF kept
    <3> QED BY <3>1
  <2>4. /\ first \in 1..Len(claims) /\ Len(claims) - first < MaxClaims
    BY <1>0, <2>3
  <2> HIDE DEF kept, fresh, drop, first
  <2>5. /\ suffix \in Seq(ClaimType)
        /\ Len(suffix) = Len(claims) - first + 1
        /\ \A i \in 1..(Len(claims) - first + 1) : suffix[i] = claims[first + i - 1]
    BY <1>0, <2>4, SubSeqProperties, ElementOfSeq
  <2>6. DOMAIN suffix = 1..(Len(claims) - first + 1)
    BY <2>5, LenProperties
  <2> HIDE DEF suffix
  <2>7. \A i \in DOMAIN suffix :
          first + i - 1 \in DOMAIN claims /\ suffix[i] = claims[first + i - 1]
    <3> DEFINE n == Len(claims)
    <3>1. n \in Nat /\ first \in 1..n
      BY <1>0, <2>4
    <3> HIDE DEF n
    <3>2. \A i \in 1..(n - first + 1) : first + i - 1 \in 1..n
      BY <3>1
    <3>3. \A i \in DOMAIN suffix : first + i - 1 \in DOMAIN claims
      BY <1>0, <2>6, <3>2 DEF n
    <3> QED BY <2>5, <2>6, <3>3
  <2>8. Distinct(suffix)
    BY <1>0, <2>4, <2>6, <2>7 DEF Distinct
  <2>9. Claimed(suffix) \subseteq Claimed(claims)
    BY <2>7 DEF Claimed
  <2> QED BY <1>0, <2>1, <2>4, <2>5, <2>8, <2>9
<1> QED BY <1>1, <1>2

\* A claim goes to the end.
LEMMA AppendClaim ==
  ASSUME NEW claims \in Seq(ClaimType), Distinct(claims),
         NEW p \in Payments, NEW t \in Nat, p \notin Claimed(claims)
  PROVE  LET more == Append(claims, [key |-> p, at |-> t])
         IN  /\ more \in Seq(ClaimType) /\ Len(more) = Len(claims) + 1
             /\ Distinct(more) /\ Claimed(more) = Claimed(claims) \cup {p}
<1> DEFINE c == [key |-> p, at |-> t]
           more == Append(claims, c)
<1>0. c \in ClaimType /\ c.key = p
  BY DEF ClaimType
<1> HIDE DEF c
<1>1. /\ more \in Seq(ClaimType) /\ Len(more) = Len(claims) + 1
      /\ \A i \in 1..Len(claims) : more[i] = claims[i]
      /\ more[Len(claims) + 1] = c
  BY <1>0, AppendProperties
<1>2. /\ Len(claims) \in Nat /\ DOMAIN claims = 1..Len(claims)
      /\ DOMAIN more = 1..(Len(claims) + 1)
  BY <1>1, LenProperties
<1> HIDE DEF more
<1>3. \A i \in DOMAIN claims : claims[i].key # p
  BY DEF Claimed
<1>4. Distinct(more)
  BY <1>0, <1>1, <1>2, <1>3 DEF Distinct
<1>5. Claimed(more) = Claimed(claims) \cup {p}
  <2>1. \A i \in DOMAIN more : more[i].key \in Claimed(claims) \cup {p}
    BY <1>0, <1>1, <1>2 DEF Claimed
  <2>2. \A i \in DOMAIN claims : i \in DOMAIN more /\ more[i].key = claims[i].key
    BY <1>1, <1>2
  <2>3. Len(claims) + 1 \in DOMAIN more /\ more[Len(claims) + 1].key = p
    BY <1>0, <1>1, <1>2
  <2> QED BY <2>1, <2>2, <2>3 DEF Claimed
<1> QED BY <1>1, <1>4, <1>5 DEF more, c

\* A release forgets one payload and no other.
LEMMA ReleaseFacts ==
  ASSUME seen \in Seq(ClaimType), Distinct(seen), Len(seen) <= MaxClaims + 1,
         NEW p, release(p)
  PROVE  /\ seen' \in Seq(ClaimType) /\ Len(seen') <= MaxClaims + 1
         /\ Distinct(seen')
         /\ Claimed(seen) \ {p} \subseteq Claimed(seen')
<1>0. Len(seen) \in Nat /\ DOMAIN seen = 1..Len(seen) /\ MaxClaims \in Nat
  BY ReplayAssumption, LenProperties
<1>1. CASE p \notin Claimed(seen)
  BY <1>1 DEF release, Distinct, Claimed
<1>2. CASE p \in Claimed(seen)
  <2>1. PICK k \in 1..Len(seen) : seen[k].key = p /\ seen' = RemoveAt(seen, k)
    BY <1>0, <1>2 DEF release
  <2> DEFINE front == SubSeq(seen, 1, k - 1)
             rear == SubSeq(seen, k + 1, Len(seen))
  <2>0. \A i \in 1..Len(seen) : seen[i] \in ClaimType
    BY <1>0, ElementOfSeq
  <2>2. /\ front \in Seq(ClaimType) /\ Len(front) = k - 1
        /\ \A i \in 1..(k - 1) : front[i] = seen[i]
    BY <1>0, <2>1, SubSeqProperties, ElementOfSeq
  <2>3. /\ rear \in Seq(ClaimType) /\ Len(rear) = Len(seen) - k
        /\ \A i \in 1..(Len(seen) - k) : rear[i] = seen[k + i]
    <3>1. /\ k + 1 \in Int /\ Len(seen) \in Int
          /\ \A i \in (k + 1)..Len(seen) : seen[i] \in ClaimType
      BY <1>0, <2>0
    <3>2. /\ rear \in Seq(ClaimType)
          /\ \A i \in 1..(Len(seen) - (k + 1) + 1) : rear[i] = seen[(k + 1) + i - 1]
      BY <3>1, SubSeqProperties
    <3>3. Len(rear) = Len(seen) - k
      <4>1. Len(rear) = IF k + 1 <= Len(seen) THEN Len(seen) - (k + 1) + 1 ELSE 0
        BY <3>1, SubSeqProperties
      <4>2. /\ k + 1 <= Len(seen) => Len(seen) - (k + 1) + 1 = Len(seen) - k
            /\ ~(k + 1 <= Len(seen)) => 0 = Len(seen) - k
        <5> DEFINE n == Len(seen)
        <5>1. n \in Nat /\ k \in 1..n
          BY <1>0
        <5> HIDE DEF n
        <5>2. /\ k + 1 <= n => n - (k + 1) + 1 = n - k
              /\ ~(k + 1 <= n) => 0 = n - k
          BY <5>1
        <5> QED BY <5>2 DEF n
      <4> QED BY <4>1, <4>2, Zenon
    <3> HIDE DEF rear
    <3>4. ASSUME NEW i \in 1..(Len(seen) - k) PROVE rear[i] = seen[k + i]
      <4>1. i \in 1..(Len(seen) - (k + 1) + 1) /\ (k + 1) + i - 1 = k + i
        BY <1>0
      <4> QED BY <3>2, <4>1
    <3> QED BY <3>2, <3>3, <3>4
  <2>4. seen' = front \o rear
    BY <2>1 DEF RemoveAt
  <2> HIDE DEF front, rear
  <2>5. /\ seen' \in Seq(ClaimType) /\ Len(seen') = Len(seen) - 1
        /\ \A i \in 1..(Len(seen) - 1) :
             seen'[i] = IF i <= k - 1 THEN front[i] ELSE rear[i - (k - 1)]
    <3>1. /\ front \o rear \in Seq(ClaimType)
          /\ Len(front \o rear) = Len(front) + Len(rear)
          /\ \A i \in 1..(Len(front) + Len(rear)) : (front \o rear)[i] =
               IF i <= Len(front) THEN front[i] ELSE rear[i - Len(front)]
      BY <2>2, <2>3, ConcatProperties
    <3>2. Len(front) + Len(rear) = Len(seen) - 1
      BY <1>0, <2>2, <2>3
    <3> QED BY <2>2, <2>4, <3>1, <3>2
  <2>6. DOMAIN seen' = 1..(Len(seen) - 1)
    BY <1>0, <2>5, LenProperties
  <2>7. \A i \in 1..(Len(seen) - 1) :
          seen'[i] = IF i <= k - 1 THEN seen[i] ELSE seen[i + 1]
    <3> DEFINE n == Len(seen)
    <3>0. n \in Nat /\ k \in 1..n
      BY <1>0
    <3> HIDE DEF n
    <3>1. \A i \in 1..(n - 1) :
            /\ i <= k - 1 => i \in 1..(k - 1)
            /\ ~(i <= k - 1) => i - (k - 1) \in 1..(n - k) /\ k + (i - (k - 1)) = i + 1
      BY <3>0
    <3> SUFFICES ASSUME NEW i \in 1..(n - 1)
                 PROVE  seen'[i] = IF i <= k - 1 THEN seen[i] ELSE seen[i + 1]
      BY DEF n
    <3>2. seen'[i] = IF i <= k - 1 THEN front[i] ELSE rear[i - (k - 1)]
      BY <2>5 DEF n
    <3>3. i <= k - 1 => front[i] = seen[i]
      BY <2>2, <3>1
    <3>4. ~(i <= k - 1) => rear[i - (k - 1)] = seen[i + 1]
      <4>1. \A j \in 1..(n - k) : rear[j] = seen[k + j]
        BY <2>3 DEF n
      <4> QED BY <3>1, <4>1
    <3> QED BY <3>2, <3>3, <3>4
  <2>8. Distinct(seen')
    <3> SUFFICES ASSUME NEW i \in 1..(Len(seen) - 1), NEW j \in 1..(Len(seen) - 1),
                        seen'[i].key = seen'[j].key
                 PROVE  i = j
      BY <2>6 DEF Distinct
    <3> DEFINE from(m) == IF m <= k - 1 THEN m ELSE m + 1
    <3>1. /\ from(i) \in DOMAIN seen /\ seen'[i] = seen[from(i)]
          /\ from(j) \in DOMAIN seen /\ seen'[j] = seen[from(j)]
      BY <1>0, <2>1, <2>7
    <3>2. from(i) = from(j)
      BY <3>1 DEF Distinct
    <3> QED BY <2>1, <3>2
  <2>9. ASSUME NEW i \in 1..Len(seen), i # k
        PROVE  \E j \in DOMAIN seen' : seen'[j] = seen[i]
    <3>1. CASE i < k
      BY <1>0, <2>1, <2>6, <2>7, <3>1
    <3>2. CASE i > k
      <4>1. i - 1 \in DOMAIN seen' /\ seen'[i - 1] = seen[i]
        BY <1>0, <2>1, <2>6, <2>7, <3>2
      <4> QED BY <4>1
    <3> QED BY <1>0, <2>1, <2>9, <3>1, <3>2
  <2>10. Claimed(seen) \ {p} \subseteq Claimed(seen')
    <3> SUFFICES ASSUME NEW q \in Claimed(seen), q # p
                 PROVE  q \in Claimed(seen')
      OBVIOUS
    <3>1. PICK i \in 1..Len(seen) : q = seen[i].key
      BY <1>0 DEF Claimed
    <3>2. i # k
      BY <2>1, <3>1
    <3> QED BY <2>9, <3>1, <3>2 DEF Claimed
  <2> QED BY <1>0, <2>5, <2>8, <2>10
<1> QED BY <1>1, <1>2

-----------------------------------------------------------------------------
(* The audit trail *)

\* Concatenation keeps records in order, and keeps what is true of each.
LEMMA ConcatRecords ==
  ASSUME NEW s \in Seq(RecType), NEW t \in Seq(RecType)
  PROVE  /\ s \o t \in Seq(RecType)
         /\ Increasing(s) /\ Increasing(t) /\ Before(s, t) => Increasing(s \o t)
         /\ \A i \in DOMAIN (s \o t) :
              \/ \E j \in DOMAIN s : (s \o t)[i] = s[j]
              \/ \E j \in DOMAIN t : (s \o t)[i] = t[j]
<1> DEFINE m == Len(s)
           n == Len(t)
           u == s \o t
<1>1. /\ u \in Seq(RecType) /\ Len(u) = m + n
      /\ \A i \in 1..(m + n) : u[i] = IF i <= m THEN s[i] ELSE t[i - m]
  BY ConcatProperties
<1>2. /\ m \in Nat /\ n \in Nat /\ DOMAIN s = 1..m /\ DOMAIN t = 1..n
      /\ DOMAIN u = 1..(m + n)
      /\ \A i \in DOMAIN s : s[i].n \in Nat
      /\ \A i \in DOMAIN t : t[i].n \in Nat
  <2>1. m \in Nat /\ n \in Nat /\ DOMAIN s = 1..m /\ DOMAIN t = 1..n /\ DOMAIN u = 1..(m + n)
    BY <1>1, LenProperties
  <2>2. /\ \A i \in DOMAIN s : s[i] \in RecType
        /\ \A i \in DOMAIN t : t[i] \in RecType
    BY <2>1, ElementOfSeq
  <2> QED BY <2>1, <2>2 DEF RecType
<1> HIDE DEF m, n, u
<1>3. \A i \in DOMAIN u :
        \/ i \in DOMAIN s /\ u[i] = s[i] /\ i <= m
        \/ i - m \in DOMAIN t /\ u[i] = t[i - m] /\ i > m
  BY <1>1, <1>2
<1>4. ASSUME Increasing(s), Increasing(t), Before(s, t) PROVE Increasing(u)
  <2> SUFFICES ASSUME NEW i \in DOMAIN u, NEW j \in DOMAIN u, i < j
               PROVE  u[i].n < u[j].n
    BY DEF Increasing
  <2>1. CASE j <= m
    BY <1>2, <1>3, <1>4, <2>1 DEF Increasing
  <2>2. CASE i <= m /\ j > m
    BY <1>2, <1>3, <1>4, <2>2 DEF Before
  <2>3. CASE i > m
    <3>1. /\ i - m \in DOMAIN t /\ u[i] = t[i - m]
          /\ j - m \in DOMAIN t /\ u[j] = t[j - m]
          /\ i - m < j - m
      BY <1>2, <1>3, <2>3
    <3> QED BY <1>4, <3>1 DEF Increasing
  <2> QED BY <1>2, <2>1, <2>2, <2>3
<1>5. \A i \in DOMAIN u : \/ \E j \in DOMAIN s : u[i] = s[j]
                          \/ \E j \in DOMAIN t : u[i] = t[j]
  BY <1>3
<1> QED BY <1>1, <1>4, <1>5 DEF u

\* A sequence and its first record.
LEMMA FirstAndRest ==
  ASSUME NEW s \in Seq(RecType), s # <<>>, Increasing(s)
  PROVE  /\ <<Head(s)>> \in Seq(RecType) /\ Tail(s) \in Seq(RecType)
         /\ Increasing(<<Head(s)>>) /\ Increasing(Tail(s))
         /\ Before(<<Head(s)>>, Tail(s))
         /\ \A i \in DOMAIN Tail(s) : \E j \in DOMAIN s : Tail(s)[i] = s[j]
         /\ \A i \in DOMAIN <<Head(s)>> : \E j \in DOMAIN s : <<Head(s)>>[i] = s[j]
<1> DEFINE n == Len(s)
           rest == Tail(s)
           first == <<Head(s)>>
<1>1. /\ Head(s) \in RecType /\ Head(s) = s[1] /\ rest \in Seq(RecType)
      /\ Len(rest) = n - 1 /\ \A i \in 1..Len(rest) : rest[i] = s[i + 1]
  BY HeadTailProperties
<1>2. n \in Nat \ {0} /\ DOMAIN s = 1..n /\ DOMAIN rest = 1..Len(rest)
  BY <1>1, LenProperties, EmptySeq
<1>3. first \in Seq(RecType) /\ DOMAIN first = {1} /\ first[1] = s[1]
  BY <1>1
<1>4. \A i \in DOMAIN s : s[i].n \in Nat
  <2>1. \A i \in DOMAIN s : s[i] \in RecType
    BY <1>2, ElementOfSeq
  <2> QED BY <2>1 DEF RecType
<1> HIDE DEF n, rest, first
<1>5. \A i \in DOMAIN rest : i \in Nat /\ i > 0 /\ i + 1 \in DOMAIN s /\ rest[i] = s[i + 1]
  BY <1>1, <1>2
<1>6. 1 \in DOMAIN s
  BY <1>2
<1>7. Increasing(rest)
  BY <1>5 DEF Increasing
<1>8. Increasing(first)
  BY <1>3 DEF Increasing
<1>9. Before(first, rest)
  BY <1>3, <1>5, <1>6 DEF Increasing, Before
<1> QED BY <1>1, <1>3, <1>5, <1>6, <1>7, <1>8, <1>9 DEF rest, first

\* A new record goes to the end of a sequence of older ones.
LEMMA AppendRecord ==
  ASSUME NEW s \in Seq(RecType), Increasing(s), NEW rec \in RecType,
         \A i \in DOMAIN s : s[i].n < rec.n
  PROVE  /\ Append(s, rec) \in Seq(RecType) /\ Append(s, rec) # <<>>
         /\ Increasing(Append(s, rec))
         /\ \A i \in DOMAIN Append(s, rec) :
              Append(s, rec)[i] = rec \/ \E j \in DOMAIN s : Append(s, rec)[i] = s[j]
<1> DEFINE n == Len(s)
           more == Append(s, rec)
<1>1. /\ more \in Seq(RecType) /\ more # <<>> /\ Len(more) = n + 1
      /\ \A i \in 1..n : more[i] = s[i]
      /\ more[n + 1] = rec
  BY AppendProperties
<1>2. n \in Nat /\ DOMAIN s = 1..n /\ DOMAIN more = 1..(n + 1)
  BY <1>1, LenProperties
<1> HIDE DEF n, more
<1>3. \A i \in DOMAIN more :
        \/ i \in DOMAIN s /\ more[i] = s[i]
        \/ i = n + 1 /\ more[i] = rec
  BY <1>1, <1>2
<1>4. Increasing(more)
  <2> SUFFICES ASSUME NEW i \in DOMAIN more, NEW j \in DOMAIN more, i < j
               PROVE  more[i].n < more[j].n
    BY DEF Increasing
  <2>1. i \in DOMAIN s
    BY <1>2
  <2> QED BY <1>2, <1>3, <2>1 DEF Increasing
<1> QED BY <1>1, <1>3, <1>4 DEF more

\* What a record says of a delivered answer stays true.
LEMMA RecordsKept ==
  ASSUME NEW s \in Seq(RecType), NEW reqs, NEW written \in Nat, AllOK(s, reqs, written),
         NEW later, NEW more \in Nat, written <= more,
         \A r \in Requests : reqs[r].pc = "answered" => later[r] = reqs[r]
  PROVE  AllOK(s, later, more)
<1> SUFFICES ASSUME NEW i \in DOMAIN s PROVE RecOK(s[i], later, more)
  BY DEF AllOK
<1>1. s[i] \in RecType
  BY LenProperties, ElementOfSeq
<1>2. s[i].req \in Requests /\ s[i].n \in Nat
  BY <1>1 DEF RecType
<1>3. RecOK(s[i], reqs, written)
  BY DEF AllOK
<1> QED BY <1>2, <1>3 DEF RecOK

\* The parts of AuditInv after a step, with the primes on the variables.
LEMMA AuditNext ==
  ASSUME queue' \in Seq(RecType), submitting' \in Seq(RecType), topic' \in Seq(RecType),
         Increasing(queue'), Increasing(submitting'), Increasing(topic'),
         Before(topic', submitting'), Before(submitting', queue'), Before(topic', queue'),
         flushing' = (submitting' # <<>>), ~flushing' => queue' = <<>>,
         AllOK(queue', req', recorded'), AllOK(submitting', req', recorded'),
         AllOK(topic', req', recorded')
  PROVE  AuditInv'
<1>1. AuditShape'
  BY DEF AuditShape, Increasing, Before
<1> QED BY <1>1 DEF AuditInv, AllOK, RecOK

\* A step that writes no record, and leaves delivered answers alone.
LEMMA AuditKept ==
  ASSUME AuditInv, UNCHANGED auditVars, recorded \in Nat, UNCHANGED recorded,
         \A r \in Requests : req[r].pc = "answered" => req'[r] = req[r]
  PROVE  AuditInv'
<1>0. UNCHANGED <<queue, flushing, submitting, topic>>
  BY DEF auditVars
<1>1. /\ AllOK(queue, req', recorded) /\ AllOK(submitting, req', recorded)
      /\ AllOK(topic, req', recorded)
  BY RecordsKept DEF AuditInv, AuditShape
<1> QED BY <1>0, <1>1, AuditNext DEF AuditInv, AuditShape

\* A step that loses the queue and the flush.
LEMMA AuditLost ==
  ASSUME AuditInv, queue' = <<>>, submitting' = <<>>, flushing' = FALSE, UNCHANGED topic,
         recorded \in Nat, UNCHANGED recorded,
         \A r \in Requests : req[r].pc = "answered" => req'[r] = req[r]
  PROVE  AuditInv'
<1>1. topic \in Seq(RecType) /\ Increasing(topic) /\ AllOK(topic, req', recorded)
  BY RecordsKept DEF AuditInv, AuditShape
<1>2. /\ <<>> \in Seq(RecType) /\ Increasing(<<>>) /\ Before(<<>>, <<>>)
      /\ Before(topic, <<>>) /\ AllOK(<<>>, req', recorded)
  BY EmptySeq DEF Increasing, Before, AllOK
<1> QED BY <1>1, <1>2, AuditNext

\* record(): the newest record waits last, or is submitted at once.
LEMMA AuditRecord ==
  ASSUME AuditInv, NEW rec \in RecType, record(rec),
         recorded \in Nat, recorded' = recorded + 1, rec.n = recorded + 1,
         RecOK(rec, req', recorded'),
         \A r \in Requests : req[r].pc = "answered" => req'[r] = req[r]
  PROVE  AuditInv'
<1>0. /\ queue \in Seq(RecType) /\ submitting \in Seq(RecType) /\ topic \in Seq(RecType)
      /\ Increasing(queue) /\ Increasing(submitting) /\ Increasing(topic)
      /\ Before(topic, submitting) /\ Before(submitting, queue) /\ Before(topic, queue)
      /\ flushing = (submitting # <<>>) /\ (~flushing => queue = <<>>)
  BY DEF AuditInv, AuditShape
<1>1. /\ AllOK(queue, req', recorded') /\ AllOK(submitting, req', recorded')
      /\ AllOK(topic, req', recorded')
  BY RecordsKept DEF AuditInv, AuditShape
<1>2. /\ \A i \in DOMAIN queue : queue[i].n < rec.n
      /\ \A i \in DOMAIN submitting : submitting[i].n < rec.n
      /\ \A i \in DOMAIN topic : topic[i].n < rec.n
  <2>1. ASSUME NEW s \in Seq(RecType), AllOK(s, req, recorded), NEW i \in DOMAIN s
        PROVE  s[i].n < rec.n
    <3>1. s[i] \in RecType
      BY LenProperties, ElementOfSeq
    <3>2. s[i].n \in Nat /\ s[i].n <= recorded
      BY <2>1, <3>1 DEF RecType, AllOK, RecOK
    <3> QED BY <3>2
  <2> QED BY <1>0, <2>1 DEF AuditInv
<1>3. CASE flushing
  <2> DEFINE more == Append(queue, rec)
  <2>1. queue' = more /\ UNCHANGED <<flushing, submitting, topic>>
    BY <1>3 DEF record
  <2>2. /\ more \in Seq(RecType) /\ Increasing(more)
        /\ \A i \in DOMAIN more : more[i] = rec \/ \E j \in DOMAIN queue : more[i] = queue[j]
    BY <1>0, <1>2, AppendRecord
  <2> HIDE DEF more
  <2>3. Before(submitting, more) /\ Before(topic, more)
    BY <1>0, <1>2, <2>2 DEF Before
  <2>4. AllOK(more, req', recorded')
    BY <1>1, <2>2 DEF AllOK
  <2> QED BY <1>0, <1>1, <1>3, <2>1, <2>2, <2>3, <2>4, AuditNext
<1>4. CASE ~flushing
  <2>1. queue = <<>> /\ submitting = <<>>
    BY <1>0, <1>4
  <2>2. Append(queue, rec) = <<rec>> /\ <<rec>> # <<>>
        /\ Head(<<rec>>) = rec /\ Tail(<<rec>>) = <<>>
    BY <2>1
  <2>3. queue' = <<>> /\ submitting' = <<rec>> /\ flushing' = TRUE /\ UNCHANGED topic
    BY <1>4, <2>2 DEF record, flushOn
  <2>4. /\ <<>> \in Seq(RecType) /\ <<rec>> \in Seq(RecType)
        /\ Increasing(<<>>) /\ Increasing(<<rec>>)
        /\ Before(<<rec>>, <<>>) /\ Before(topic, <<>>) /\ Before(topic, <<rec>>)
        /\ AllOK(<<>>, req', recorded') /\ AllOK(<<rec>>, req', recorded')
    <3>1. <<>> \in Seq(RecType) /\ <<rec>> \in Seq(RecType)
      OBVIOUS
    <3>2. DOMAIN <<rec>> = {1} /\ <<rec>>[1] = rec
      OBVIOUS
    <3>3. DOMAIN <<>> = {}
      OBVIOUS
    <3> QED BY <1>2, <3>1, <3>2, <3>3 DEF Increasing, Before, AllOK
  <2> QED BY <1>0, <1>1, <2>2, <2>3, <2>4, AuditNext
<1> QED BY <1>3, <1>4

\* A submission settles, and the next record moves up.
LEMMA AuditSubmitted ==
  ASSUME AuditInv, NEW ok \in BOOLEAN, submitted(ok), UNCHANGED <<req, recorded>>
  PROVE  AuditInv'
<1>0. /\ queue \in Seq(RecType) /\ submitting \in Seq(RecType) /\ topic \in Seq(RecType)
      /\ Increasing(queue) /\ Increasing(submitting) /\ Increasing(topic)
      /\ Before(topic, submitting) /\ Before(submitting, queue) /\ Before(topic, queue)
      /\ AllOK(queue, req', recorded') /\ AllOK(submitting, req', recorded')
      /\ AllOK(topic, req', recorded')
  BY DEF AuditInv, AuditShape
<1>1. /\ topic' \in Seq(RecType) /\ Increasing(topic') /\ Before(topic', queue)
      /\ AllOK(topic', req', recorded')
  BY <1>0 DEF submitted
<1>2. CASE queue = <<>>
  <2>1. queue' = <<>> /\ submitting' = <<>> /\ flushing' = FALSE
    BY <1>2 DEF submitted, flushOn
  <2>2. Before(<<>>, <<>>) /\ Before(topic', <<>>)
    BY DEF Before
  <2> QED BY <1>0, <1>1, <1>2, <2>1, <2>2, AuditNext
<1>3. CASE queue # <<>>
  <2> DEFINE first == <<Head(queue)>>
             rest == Tail(queue)
  <2>1. queue' = rest /\ submitting' = first /\ flushing' = TRUE
    BY <1>3 DEF submitted, flushOn
  <2>2. /\ first \in Seq(RecType) /\ rest \in Seq(RecType)
        /\ Increasing(first) /\ Increasing(rest) /\ Before(first, rest)
        /\ \A i \in DOMAIN rest : \E j \in DOMAIN queue : rest[i] = queue[j]
        /\ \A i \in DOMAIN first : \E j \in DOMAIN queue : first[i] = queue[j]
    BY <1>0, <1>3, FirstAndRest
  <2>3. first # <<>>
    OBVIOUS
  <2> HIDE DEF first, rest
  <2>4. Before(topic', first) /\ Before(topic', rest)
    BY <1>1, <2>2 DEF Before
  <2>5. AllOK(first, req', recorded') /\ AllOK(rest, req', recorded')
    BY <1>0, <2>2 DEF AllOK
  <2> QED BY <1>1, <2>1, <2>2, <2>3, <2>4, <2>5, AuditNext
<1> QED BY <1>2, <1>3

\* publishAudit: the record says what the request says when it is delivered.
LEMMA PublishAudit ==
  ASSUME AuditInv, ApiTypes, NEW r \in Requests, publishAudit(r),
         req' \in [Requests -> ReqType], req'[r].pc = "answered",
         req[r].route = "verify" /\ ~req'[r].overtaken => req'[r].under = policy,
         \A s \in Requests : req[s].pc = "answered" => req'[s] = req[s]
  PROVE  AuditInv' /\ recorded' \in Nat
<1>0. recorded \in Nat /\ policy \in Documents
  BY DEF ApiTypes
<1>1. CASE req[r].route = "verify"
  <2> DEFINE rec == [req |-> r, n |-> recorded + 1, hash |-> policy,
                     decision |-> req'[r].decision]
  <2>1. record(rec) /\ recorded' = recorded + 1
    BY <1>1 DEF publishAudit
  <2>2. req'[r].decision \in Decisions
    BY DEF ReqType
  <2>3. rec \in RecType /\ rec.n = recorded + 1
    BY <1>0, <2>2 DEF RecType
  <2>4. RecOK(rec, req', recorded')
    BY <1>0, <1>1, <2>1 DEF RecOK
  <2> HIDE DEF rec
  <2> QED BY <1>0, <2>1, <2>3, <2>4, AuditRecord
<1>2. CASE req[r].route # "verify"
  BY <1>0, <1>2, AuditKept DEF publishAudit
<1> QED BY <1>1, <1>2

-----------------------------------------------------------------------------
(* One request *)

\* The engine answers one of the three decisions.
LEMMA VerdictType ==
  ASSUME NEW p, NEW intent, NEW state, NEW pool
  PROVE  verdict(p, intent, state, pool) \in Decisions
<1>1. ASSUME NEW acc, acc.decision \in Decisions, NEW id, NEW d
      PROVE  /\ rowOf(acc, id, d).decision \in Decisions
             /\ optionalRow(acc, id, d).decision \in Decisions
  BY <1>1 DEF rowOf, optionalRow, consider, Decisions
<1>2. Undecided.decision \in Decisions
  BY DEF Undecided, Decisions
<1> QED BY <1>1, <1>2 DEF verdict

Held(x) == x.pc \in Active \/ x.answer \in Results

\* A request that was refused.
Refused(a) == [Free EXCEPT !.pc = "answered", !.answer = a]

\* A slot starts out as a request.
LEMMA FreeType == Free \in ReqType /\ Free.pc = "free" /\ Free.answer = "none"
BY ApiAssumption
DEF Free, ReqType, ReqPcs, Routes, Bodies, Decisions, Answers, Results

\* A refusal holds nothing.
LEMMA RefusedFacts ==
  ASSUME NEW a \in {"402", "error"}, NEW r, NEW g, NEW served, NEW clicks, r \notin clicks
  PROVE  /\ Refused(a) \in ReqType /\ ~Held(Refused(a)) /\ Refused(a).pay = "none"
         /\ Refused(a).answer \notin Results
         /\ ReqOK(r, Refused(a), g, served, clicks)
<1>1. Refused(a) \in ReqType
  BY FreeType DEF Refused, ReqType, ReqPcs, Answers
<1>2. /\ Refused(a).pc = "answered" /\ Refused(a).answer = a /\ Refused(a).pay = "none"
      /\ Refused(a).decision = "ALLOW"
  BY DEF Refused, Free
<1> QED BY <1>1, <1>2 DEF Held, Active, Results, ReqOK

\* One undelivered request becomes x; all others stay.
LEMMA OneRequest ==
  ASSUME ApiInv, NEW r \in Requests, NEW x \in ReqType, req' = [req EXCEPT ![r] = x],
         UNCHANGED <<gate, optional, policy, crashed>>,
         req[r].pc # "answered",
         clicked \subseteq clicked', clicked' \subseteq clicked \cup {r},
         ReqOK(r, x, gate, policy, clicked'),
         req[r].answer \in Results => x.pay = req[r].pay /\ x.answer \in Results,
         \/ asked' = asked
         \/ x.pay \in Payments /\ x.answer \in Results /\ asked' = asked \cup {x.pay},
         recorded' \in Nat
  PROVE  /\ ApiTypes' /\ ReqInv' /\ AskedInv'
         /\ \A s \in Requests : req[s].pc = "answered" => req'[s] = req[s]
<1>0. req \in [Requests -> ReqType] /\ ApiTypes /\ ReqInv /\ AskedInv
  BY DEF ApiInv, ApiTypes
<1>1. req' \in [Requests -> ReqType] /\ req'[r] = x
      /\ \A s \in Requests \ {r} : req'[s] = req[s]
  BY <1>0
<1>2. ApiTypes'
  BY <1>0, <1>1 DEF ApiTypes
<1>3. ReqInv'
  <2> SUFFICES ASSUME NEW s \in Requests
               PROVE  ReqOK(s, req'[s], gate', policy', clicked')
    BY DEF ReqInv, ReqOK
  <2>1. CASE s = r
    BY <1>1, <2>1
  <2>2. CASE s # r
    <3>1. ReqOK(s, req[s], gate, policy, clicked)
      BY <1>0 DEF ReqInv
    <3>2. s \in clicked' <=> s \in clicked
      BY <2>2
    <3>3. req'[s] = req[s]
      BY <1>1, <2>2
    <3> QED BY <3>1, <3>2, <3>3 DEF ReqOK
  <2> QED BY <2>1, <2>2
<1>4. AskedInv'
  <2> SUFFICES ASSUME ~crashed, NEW p \in asked'
               PROVE  \E s \in Requests : req'[s].pay = p /\ req'[s].answer \in Results
    BY DEF AskedInv
  <2>1. CASE p \in asked
    <3>1. PICK s \in Requests : req[s].pay = p /\ req[s].answer \in Results
      BY <1>0, <2>1 DEF AskedInv
    <3> QED BY <1>1, <3>1
  <2>2. CASE p \notin asked
    BY <1>1, <2>2
  <2> QED BY <2>1, <2>2
<1> QED BY <1>1, <1>2, <1>3, <1>4

\* No request comes to hold a payload, and a claim is dropped only with its
\* holder, or as lapsed.
LEMMA HoldKept ==
  ASSUME ApiInv, NEW r \in Requests, NEW x \in ReqType, req' = [req EXCEPT ![r] = x],
         lapsed \subseteq lapsed',
         Held(x) /\ x.pay \in Payments => Held(req[r]) /\ x.pay = req[r].pay,
         \A p \in Claimed(seen) \ lapsed' :
           p \in Claimed(seen') \/ (p = req[r].pay /\ Held(req[r]) /\ ~Held(x))
  PROVE  HoldInv'
<1>0. /\ req \in [Requests -> ReqType]
      /\ \A s \in Requests : Held(req[s]) /\ req[s].pay \in Payments \ lapsed =>
           /\ req[s].pay \in Claimed(seen)
           /\ \A t \in Requests : Held(req[t]) /\ req[t].pay = req[s].pay => t = s
  BY DEF ApiInv, ApiTypes, HoldInv, Holding, Held, Active
<1>1. req'[r] = x /\ \A s \in Requests \ {r} : req'[s] = req[s]
  BY <1>0
<1> SUFFICES ASSUME NEW s \in Requests, Held(req'[s]), req'[s].pay \in Payments \ lapsed'
             PROVE  /\ req'[s].pay \in Claimed(seen')
                    /\ \A t \in Requests : Held(req'[t]) /\ req'[t].pay = req'[s].pay => t = s
  BY DEF HoldInv, Holding, Held, Active, Claimed
<1>2. Held(req[s]) /\ req'[s].pay = req[s].pay
  BY <1>1
<1>3. /\ req[s].pay \in Claimed(seen)
      /\ \A t \in Requests : Held(req[t]) /\ req[t].pay = req[s].pay => t = s
  BY <1>0, <1>2
<1>4. \A t \in Requests : Held(req'[t]) /\ req'[t].pay = req'[s].pay => t = s
  BY <1>1, <1>2, <1>3
<1>5. req'[s].pay \in Claimed(seen')
  BY <1>1, <1>2, <1>3
<1> QED BY <1>4, <1>5

-----------------------------------------------------------------------------
(* The gate's steps *)

\* What the invariant says of one request, for the steps that serve it.
LEMMA OfRequest ==
  ASSUME ApiInv, NEW r \in Requests
  PROVE  /\ req[r] \in ReqType
         /\ ReqOK(r, req[r], gate, policy, clicked)
         /\ seen \in Seq(ClaimType) /\ Distinct(seen) /\ Len(seen) <= MaxClaims + 1
         /\ now \in Nat /\ recorded \in Nat /\ policy \in Documents
         /\ gate \in {"enabled", "disabled"}
         /\ ApiTypes /\ AuditInv /\ GuardInv
BY ApiAssumption DEF ApiInv, ApiTypes, ReqInv, GuardInv

\* With the gate off the work begins without a payload.
LEMMA ArriveUnpaid ==
  ASSUME ApiInv, NEW r \in Requests, NEW route \in Routes, NEW body \in Bodies,
         arriveUnpaid(r, route, body)
  PROVE  ApiInv'
<1> DEFINE x == [Free EXCEPT !.pc = "working", !.route = route, !.body = body]
<1>0. /\ req[r].pc = "free" /\ gate = "disabled" /\ req' = [req EXCEPT ![r] = x]
      /\ UNCHANGED <<gate, optional, policy, asked, clicked, recorded, lapsed, crashed,
                     seen, now>>
      /\ UNCHANGED auditVars
  BY DEF arriveUnpaid, At, setup
<1>1. /\ ReqOK(r, req[r], gate, policy, clicked) /\ recorded \in Nat
      /\ AuditInv /\ GuardInv /\ req[r].answer = "none"
  BY <1>0, OfRequest, FreeType DEF ReqOK
<1>2. /\ x \in ReqType /\ x.pc = "working" /\ x.pay = "none" /\ x.answer = "none"
      /\ x.decision = "ALLOW"
  <2>1. x \in ReqType
    BY FreeType DEF ReqType, ReqPcs
  <2> QED BY <2>1 DEF Free
<1> HIDE DEF x
<1>3. ReqOK(r, x, gate, policy, clicked')
  BY <1>0, <1>1, <1>2 DEF ReqOK
<1>4. /\ ApiTypes' /\ ReqInv' /\ AskedInv'
      /\ \A s \in Requests : req[s].pc = "answered" => req'[s] = req[s]
  BY <1>0, <1>1, <1>2, <1>3, OneRequest DEF Results
<1>5. HoldInv'
  BY <1>0, <1>2, HoldKept, ReplayAssumption DEF Claimed
<1>6. AuditInv' /\ GuardInv'
  BY <1>0, <1>1, <1>4, AuditKept DEF GuardInv, Distinct
<1> QED BY <1>4, <1>5, <1>6 DEF ApiInv

\* With the gate on the payload is claimed, if it was not used.
LEMMA ArrivePaid ==
  ASSUME ApiInv, NEW r \in Requests, NEW route \in Routes, NEW p \in Payments,
         NEW body \in Bodies, arrivePaid(r, route, p, body)
  PROVE  ApiInv'
<1> DEFINE left == evict(seen, now)
           x == [Free EXCEPT !.pc = "verifying", !.route = route, !.pay = p, !.body = body]
<1>0. /\ req[r].pc = "free" /\ gate = "enabled"
      /\ lapsed' = lapsed \cup (Claimed(seen) \ Claimed(left))
      /\ UNCHANGED <<gate, optional, policy, asked, clicked, recorded, crashed, now>>
      /\ UNCHANGED auditVars
  BY DEF arrivePaid, At, setup
<1>1. /\ ReqOK(r, req[r], gate, policy, clicked) /\ recorded \in Nat
      /\ AuditInv /\ GuardInv /\ req[r].answer = "none" /\ r \notin clicked
      /\ now \in Nat /\ MaxClaims \in Nat
  BY <1>0, OfRequest, FreeType, ReplayAssumption DEF ReqOK
<1>2. /\ left \in Seq(ClaimType) /\ Len(left) <= MaxClaims /\ Distinct(left)
      /\ Claimed(left) \subseteq Claimed(seen) /\ Len(left) \in Nat
  BY <1>1, EvictFacts, LenProperties DEF GuardInv
<1> HIDE DEF left
<1>3. CASE claimRefused(p) /\ Refuse(r, "402")
  <2>1. seen' = left /\ req' = [req EXCEPT ![r] = Refused("402")]
    BY <1>3 DEF claimRefused, Refuse, Refused, left
  <2>2. /\ Refused("402") \in ReqType /\ ~Held(Refused("402"))
        /\ ReqOK(r, Refused("402"), gate, policy, clicked')
    BY <1>0, <1>1, RefusedFacts
  <2>3. /\ ApiTypes' /\ ReqInv' /\ AskedInv'
        /\ \A s \in Requests : req[s].pc = "answered" => req'[s] = req[s]
    BY <1>0, <1>1, <2>1, <2>2, OneRequest DEF Results
  <2>4. HoldInv'
    BY <1>0, <2>1, <2>2, HoldKept
  <2>5. AuditInv'
    BY <1>0, <1>1, <2>3, AuditKept
  <2>6. GuardInv'
    BY <1>0, <1>1, <1>2, <2>1 DEF GuardInv, Distinct
  <2> QED BY <2>3, <2>4, <2>5, <2>6 DEF ApiInv
<1>4. CASE claim(p) /\ req' = [req EXCEPT ![r] = x]
  <2>1. seen' = Append(left, [key |-> p, at |-> now]) /\ p \notin Claimed(left)
    BY <1>4 DEF claim, left
  <2>2. /\ x \in ReqType /\ x.pc = "verifying" /\ x.pay = p /\ x.answer = "none"
        /\ x.decision = "ALLOW"
    <3>1. x \in ReqType
      BY FreeType DEF ReqType, ReqPcs
    <3> QED BY <3>1 DEF Free
  <2> HIDE DEF x
  <2>3. ReqOK(r, x, gate, policy, clicked')
    BY <1>0, <1>1, <2>2 DEF ReqOK
  <2>4. /\ ApiTypes' /\ ReqInv' /\ AskedInv'
        /\ \A s \in Requests : req[s].pc = "answered" => req'[s] = req[s]
    BY <1>0, <1>1, <1>4, <2>2, <2>3, OneRequest DEF Results
  <2>5. /\ seen' \in Seq(ClaimType) /\ Len(seen') = Len(left) + 1 /\ Distinct(seen')
        /\ Claimed(seen') = Claimed(left) \cup {p}
    BY <1>1, <1>2, <2>1, AppendClaim
  <2>6. AuditInv'
    BY <1>0, <1>1, <2>4, AuditKept
  <2>7. GuardInv'
    BY <1>0, <1>1, <1>2, <2>5 DEF GuardInv, Distinct
  <2>8. HoldInv'
    <3>0. /\ req \in [Requests -> ReqType]
          /\ \A s \in Requests : Held(req[s]) /\ req[s].pay \in Payments \ lapsed =>
               /\ req[s].pay \in Claimed(seen)
               /\ \A t \in Requests : Held(req[t]) /\ req[t].pay = req[s].pay => t = s
      BY DEF ApiInv, ApiTypes, HoldInv, Holding, Held, Active
    <3>1. req'[r] = x /\ \A s \in Requests \ {r} : req'[s] = req[s]
      BY <1>4, <3>0
    <3> SUFFICES ASSUME NEW s \in Requests, Held(req'[s]),
                        req'[s].pay \in Payments \ lapsed'
                 PROVE  /\ req'[s].pay \in Claimed(seen')
                        /\ \A t \in Requests :
                             Held(req'[t]) /\ req'[t].pay = req'[s].pay => t = s
      BY DEF HoldInv, Holding, Held, Active, Claimed
    <3>2. ASSUME NEW t \in Requests \ {r}, Held(req[t]), req[t].pay = p, p \notin lapsed'
          PROVE  FALSE
      BY <1>0, <2>1, <3>0, <3>2
    <3>3. CASE s = r
      BY <2>2, <2>5, <3>1, <3>2, <3>3
    <3>4. CASE s # r
      <4>1. req'[s] = req[s] /\ req[s].pay \in Claimed(seen) /\ req[s].pay # p
        BY <1>0, <3>0, <3>1, <3>2, <3>4
      <4>2. req[s].pay \in Claimed(seen')
        BY <1>0, <2>5, <4>1
      <4>3. ASSUME NEW t \in Requests, Held(req'[t]), req'[t].pay = req'[s].pay
            PROVE  t = s
        BY <1>0, <2>2, <3>0, <3>1, <3>4, <4>1, <4>3
      <4> QED BY <4>1, <4>2, <4>3
    <3> QED BY <3>3, <3>4
  <2> QED BY <2>4, <2>6, <2>7, <2>8 DEF ApiInv
<1> QED BY <1>3, <1>4 DEF arrivePaid

\* A request that is refused before its work returned gives its claim back.
LEMMA GivenBack ==
  ASSUME ApiInv, NEW r \in Requests, req[r].pc \in {"verifying", "working"},
         NEW a \in {"402", "error"}, Refuse(r, a),
         IF req[r].pay \in Payments THEN release(req[r].pay) ELSE UNCHANGED seen,
         UNCHANGED <<setup, policy, asked, clicked, recorded, lapsed, crashed, events, now,
                     auditVars>>
  PROVE  ApiInv'
<1> DEFINE x == Refused(a)
<1>0. /\ req' = [req EXCEPT ![r] = x]
      /\ UNCHANGED <<gate, optional, policy, asked, clicked, recorded, lapsed, crashed, now>>
      /\ UNCHANGED auditVars
  BY DEF Refuse, Refused, setup
<1>1. /\ ReqOK(r, req[r], gate, policy, clicked) /\ recorded \in Nat
      /\ AuditInv /\ GuardInv /\ req[r].answer = "none" /\ r \notin clicked
      /\ Held(req[r])
  BY OfRequest DEF ReqOK, Held, Active
<1>2. x \in ReqType /\ ~Held(x) /\ ReqOK(r, x, gate, policy, clicked')
  BY <1>0, <1>1, RefusedFacts
<1> HIDE DEF x
<1>3. /\ ApiTypes' /\ ReqInv' /\ AskedInv'
      /\ \A s \in Requests : req[s].pc = "answered" => req'[s] = req[s]
  BY <1>0, <1>1, <1>2, OneRequest DEF Results
<1>4. GuardInv' /\ Claimed(seen) \ {req[r].pay} \subseteq Claimed(seen')
  <2>1. CASE req[r].pay \in Payments
    <3>1. /\ seen' \in Seq(ClaimType) /\ Len(seen') <= MaxClaims + 1
          /\ Distinct(seen')
          /\ Claimed(seen) \ {req[r].pay} \subseteq Claimed(seen')
      BY <1>1, <2>1, ReleaseFacts DEF GuardInv
    <3> QED BY <1>0, <1>1, <3>1 DEF GuardInv, Distinct
  <2>2. CASE req[r].pay \notin Payments
    BY <1>0, <1>1, <2>2 DEF GuardInv, Distinct, Claimed
  <2> QED BY <2>1, <2>2
<1>5. HoldInv'
  BY <1>0, <1>1, <1>2, <1>4, HoldKept
<1>6. AuditInv'
  BY <1>0, <1>1, <1>3, AuditKept
<1> QED BY <1>3, <1>4, <1>5, <1>6 DEF ApiInv

\* The facilitator finds the payload good.
LEMMA Verified ==
  ASSUME ApiInv, NEW r \in Requests, verified(r)
  PROVE  ApiInv'
<1> DEFINE x == [req[r] EXCEPT !.pc = "working"]
<1>0. /\ req[r].pc = "verifying" /\ req' = [req EXCEPT ![r] = x]
      /\ UNCHANGED <<gate, optional, policy, asked, clicked, recorded, lapsed, crashed,
                     seen, now>>
      /\ UNCHANGED auditVars
  BY DEF verified, At, setup
<1>1. /\ ReqOK(r, req[r], gate, policy, clicked) /\ recorded \in Nat
      /\ AuditInv /\ GuardInv /\ req[r] \in ReqType
  BY <1>0, OfRequest
<1>2. /\ x \in ReqType /\ x.pc = "working" /\ x.pay = req[r].pay
      /\ x.answer = req[r].answer /\ x.decision = req[r].decision
  BY <1>1 DEF ReqType, ReqPcs
<1> HIDE DEF x
<1>3. ReqOK(r, x, gate, policy, clicked') /\ Held(req[r])
  BY <1>0, <1>1, <1>2 DEF ReqOK, Held, Active
<1>4. /\ ApiTypes' /\ ReqInv' /\ AskedInv'
      /\ \A s \in Requests : req[s].pc = "answered" => req'[s] = req[s]
  BY <1>0, <1>1, <1>2, <1>3, OneRequest
<1>5. HoldInv'
  BY <1>0, <1>2, <1>3, HoldKept DEF Claimed
<1>6. AuditInv' /\ GuardInv'
  BY <1>0, <1>1, <1>4, AuditKept DEF GuardInv, Distinct
<1> QED BY <1>4, <1>5, <1>6 DEF ApiInv

\* The work returned y: it is settled with the result in hand, or delivered.
LEMMA WorkReturns ==
  ASSUME ApiInv, NEW r \in Requests, req[r].pc \in {"working", "approval"},
         NEW y \in ReqType, workReturns(r, [req EXCEPT ![r] = y]),
         y.answer \in Results, y.pay = req[r].pay, y.route = req[r].route,
         y.route = "verify" /\ ~y.overtaken => y.under = policy,
         y.decision = "REQUIRE_APPROVAL" => (y.answer = "ALLOW" <=> r \in clicked'),
         clicked \subseteq clicked', clicked' \subseteq clicked \cup {r},
         UNCHANGED <<setup, policy, lapsed, crashed, seen, now>>
  PROVE  ApiInv'
<1>0. UNCHANGED <<gate, optional, policy, lapsed, crashed, seen, now>>
  BY DEF setup
<1>1. /\ ReqOK(r, req[r], gate, policy, clicked) /\ recorded \in Nat
      /\ AuditInv /\ GuardInv /\ ApiTypes /\ gate \in {"enabled", "disabled"}
      /\ req[r].answer = "none" /\ Held(req[r]) /\ req \in [Requests -> ReqType]
  BY OfRequest DEF ReqOK, Held, Active, ApiTypes
<1>2. CASE gate = "enabled"
  <2> DEFINE x == [y EXCEPT !.pc = "settling"]
  <2>1. /\ req' = [req EXCEPT ![r] = x] /\ asked' = asked \cup {y.pay}
        /\ UNCHANGED auditVars /\ UNCHANGED recorded
    <3>1. [[req EXCEPT ![r] = y] EXCEPT ![r].pc = "settling"] = [req EXCEPT ![r] = x]
      BY <1>1
    <3> QED BY <1>2, <3>1 DEF workReturns
  <2>2. /\ x \in ReqType /\ x.pc = "settling" /\ x.pay = req[r].pay /\ x.answer = y.answer
        /\ x.decision = y.decision /\ x.route = y.route /\ x.under = y.under
        /\ x.overtaken = y.overtaken
    BY DEF ReqType, ReqPcs
  <2> HIDE DEF x
  <2>3. x.pay \in Payments
    BY <1>1, <1>2, <2>2 DEF ReqOK, Active
  <2>4. ReqOK(r, x, gate, policy, clicked')
    BY <1>2, <2>2, <2>3 DEF ReqOK
  <2>5. /\ ApiTypes' /\ ReqInv' /\ AskedInv'
        /\ \A s \in Requests : req[s].pc = "answered" => req'[s] = req[s]
    BY <1>0, <1>1, <2>1, <2>2, <2>3, <2>4, OneRequest DEF Results
  <2>6. HoldInv'
    BY <1>0, <1>1, <2>1, <2>2, HoldKept DEF Claimed
  <2>7. AuditInv' /\ GuardInv'
    BY <1>0, <1>1, <2>1, <2>5, AuditKept DEF GuardInv, Distinct
  <2> QED BY <2>5, <2>6, <2>7 DEF ApiInv
<1>3. CASE gate = "disabled"
  <2> DEFINE x == [y EXCEPT !.pc = "answered"]
  <2>1. req' = [req EXCEPT ![r] = x] /\ asked' = asked /\ publishAudit(r)
    <3>1. [[req EXCEPT ![r] = y] EXCEPT ![r].pc = "answered"] = [req EXCEPT ![r] = x]
      BY <1>1
    <3> QED BY <1>3, <3>1 DEF workReturns
  <2>2. /\ x \in ReqType /\ x.pc = "answered" /\ x.pay = req[r].pay /\ x.answer = y.answer
        /\ x.decision = y.decision /\ x.route = y.route /\ x.under = y.under
        /\ x.overtaken = y.overtaken
    BY DEF ReqType, ReqPcs
  <2> HIDE DEF x
  <2>3. ReqOK(r, x, gate, policy, clicked')
    BY <1>1, <1>3, <2>2 DEF ReqOK, Active
  <2>4. /\ req' \in [Requests -> ReqType] /\ req'[r] = x
        /\ \A s \in Requests : req[s].pc = "answered" => req'[s] = req[s]
    BY <1>1, <2>1, <2>2
  <2>5. AuditInv' /\ recorded' \in Nat
    BY <1>1, <2>1, <2>2, <2>4, PublishAudit
  <2>6. ApiTypes' /\ ReqInv' /\ AskedInv'
    BY <1>0, <1>1, <2>1, <2>2, <2>3, <2>5, OneRequest DEF Results
  <2>7. HoldInv'
    BY <1>0, <1>1, <2>1, <2>2, HoldKept DEF Claimed
  <2>8. GuardInv'
    BY <1>0, <1>1 DEF GuardInv, Distinct
  <2> QED BY <2>5, <2>6, <2>7, <2>8 DEF ApiInv
<1> QED BY <1>1, <1>2, <1>3

\* decodeRoute answers with the intent.
LEMMA DecodeRoute ==
  ASSUME ApiInv, NEW r \in Requests, decodeRoute(r)
  PROVE  ApiInv'
<1> DEFINE y == [req[r] EXCEPT !.answer = "intent"]
<1>0. /\ req[r].pc = "working" /\ req[r].route = "decode"
      /\ workReturns(r, [req EXCEPT ![r].answer = "intent"])
      /\ UNCHANGED <<setup, policy, clicked, lapsed, crashed, seen, now>>
  BY DEF decodeRoute, At
<1>1. /\ req[r] \in ReqType /\ ReqOK(r, req[r], gate, policy, clicked)
      /\ req \in [Requests -> ReqType]
  BY OfRequest DEF ApiTypes
<1>2. [req EXCEPT ![r].answer = "intent"] = [req EXCEPT ![r] = y]
  BY <1>1
<1>3. /\ y \in ReqType /\ y.answer = "intent" /\ y.pay = req[r].pay
      /\ y.route = "decode" /\ y.decision = "ALLOW"
  <2>1. y \in ReqType /\ y.answer = "intent" /\ y.pay = req[r].pay
        /\ y.route = req[r].route /\ y.decision = req[r].decision
    BY <1>1 DEF ReqType, Answers, Results
  <2> QED BY <1>0, <1>1, <2>1 DEF ReqOK
<1> HIDE DEF y
<1>4. workReturns(r, [req EXCEPT ![r] = y])
  BY <1>0, <1>2
<1> QED BY <1>0, <1>3, <1>4, WorkReturns DEF Results

\* verifyRoute asks the engine, and a human if the engine says so.
LEMMA VerifyRoute ==
  ASSUME ApiInv, NEW r \in Requests, NEW reading, NEW pool, verifyRoute(r, reading, pool)
  PROVE  ApiInv'
<1> DEFINE d == verdict(engineNow, req[r].body, reading, pool)
           decided == [req EXCEPT ![r].decision = d, ![r].under = engineNow,
                                  ![r].body = BadBody]
           z == [req[r] EXCEPT !.decision = d, !.under = policy, !.body = BadBody]
<1>0. /\ req[r].pc = "working" /\ req[r].route = "verify"
      /\ IF d = "REQUIRE_APPROVAL"
           THEN /\ req' = [decided EXCEPT ![r].pc = "approval"]
                /\ UNCHANGED <<asked, auditVars, recorded>>
           ELSE workReturns(r, [decided EXCEPT ![r].answer = d])
      /\ UNCHANGED <<setup, policy, clicked, lapsed, crashed, seen, now>>
  BY DEF verifyRoute, At
<1>1. /\ req[r] \in ReqType /\ ReqOK(r, req[r], gate, policy, clicked)
      /\ req \in [Requests -> ReqType] /\ policy \in Documents /\ d \in Decisions
      /\ recorded \in Nat /\ AuditInv /\ GuardInv
  BY OfRequest, VerdictType DEF ApiTypes
<1>2. decided = [req EXCEPT ![r] = z]
  BY <1>1 DEF engineNow
<1> HIDE DEF d
<1>3. /\ z \in ReqType /\ z.pc = "working" /\ z.answer = "none" /\ z.pay = req[r].pay
      /\ z.route = "verify" /\ z.under = policy /\ z.decision = d
  <2>1. /\ z \in ReqType /\ z.pc = req[r].pc /\ z.answer = req[r].answer
        /\ z.pay = req[r].pay /\ z.route = req[r].route
        /\ z.under = policy /\ z.decision = d
    BY <1>1 DEF ReqType, Bodies
  <2> QED BY <1>0, <1>1, <2>1 DEF ReqOK
<1>4. CASE d = "REQUIRE_APPROVAL"
  <2> DEFINE x == [z EXCEPT !.pc = "approval"]
  <2>1. /\ req' = [req EXCEPT ![r] = x] /\ asked' = asked /\ UNCHANGED auditVars
        /\ UNCHANGED <<gate, optional, policy, clicked, lapsed, crashed, seen, now, recorded>>
    <3>1. [[req EXCEPT ![r] = z] EXCEPT ![r].pc = "approval"] = [req EXCEPT ![r] = x]
      BY <1>1
    <3> QED BY <1>0, <1>2, <1>4, <3>1 DEF setup
  <2>2. /\ x \in ReqType /\ x.pc = "approval" /\ x.answer = "none" /\ x.pay = req[r].pay
        /\ x.route = "verify" /\ x.under = policy /\ x.decision = d
    <3> HIDE DEF z
    <3> QED BY <1>3 DEF ReqType, ReqPcs
  <2> HIDE DEF x
  <2>3. ReqOK(r, x, gate, policy, clicked') /\ Held(req[r])
    BY <1>0, <1>1, <1>4, <2>1, <2>2 DEF ReqOK, Held, Active
  <2>4. /\ ApiTypes' /\ ReqInv' /\ AskedInv'
        /\ \A s \in Requests : req[s].pc = "answered" => req'[s] = req[s]
    <3>1. req[r].answer \notin Results
      BY <1>0, <1>1 DEF ReqOK, Results
    <3> QED BY <1>0, <1>1, <2>1, <2>2, <2>3, <3>1, OneRequest
  <2>5. HoldInv'
    BY <2>1, <2>2, <2>3, HoldKept DEF Claimed
  <2>6. AuditInv' /\ GuardInv'
    BY <1>1, <2>1, <2>4, AuditKept DEF GuardInv, Distinct
  <2> QED BY <2>4, <2>5, <2>6 DEF ApiInv
<1>5. CASE d # "REQUIRE_APPROVAL"
  <2> DEFINE y == [z EXCEPT !.answer = d]
  <2>0. d \in {"ALLOW", "BLOCK"}
    BY <1>1, <1>5 DEF Decisions
  <2>1. workReturns(r, [req EXCEPT ![r] = y])
    <3>1. [[req EXCEPT ![r] = z] EXCEPT ![r].answer = d] = [req EXCEPT ![r] = y]
      BY <1>1
    <3> QED BY <1>0, <1>2, <1>5, <3>1
  <2>2. /\ y \in ReqType /\ y.answer = d /\ y.pay = req[r].pay
        /\ y.route = "verify" /\ y.under = policy /\ y.decision = d
    <3> HIDE DEF z
    <3> QED BY <1>3, <2>0 DEF ReqType, Answers, Results
  <2> HIDE DEF y
  <2> QED BY <1>0, <2>0, <2>1, <2>2, WorkReturns DEF Results
<1> QED BY <1>4, <1>5

\* A held request resumes: allowed by a click, refused by one or by the timer.
LEMMA ApprovalOutcome ==
  ASSUME ApiInv, NEW r \in Requests, req[r].pc = "approval", NEW approved \in BOOLEAN,
         approvalOutcome(r, approved),
         clicked' = IF approved THEN clicked \cup {r} ELSE clicked
  PROVE  ApiInv'
<1> DEFINE a == IF approved THEN "ALLOW" ELSE "BLOCK"
           y == [req[r] EXCEPT !.answer = a]
<1>0. /\ workReturns(r, [req EXCEPT ![r].answer = a])
      /\ UNCHANGED <<setup, policy, lapsed, crashed, seen, now>>
  BY DEF approvalOutcome
<1>1. /\ req[r] \in ReqType /\ ReqOK(r, req[r], gate, policy, clicked)
      /\ req \in [Requests -> ReqType] /\ r \notin clicked
  BY OfRequest DEF ApiTypes, ReqOK
<1>2. [req EXCEPT ![r].answer = a] = [req EXCEPT ![r] = y]
  BY <1>1
<1>3. a \in {"ALLOW", "BLOCK"} /\ (a = "ALLOW" <=> r \in clicked')
  BY <1>1
<1> HIDE DEF a
<1>4. /\ y \in ReqType /\ y.answer = a /\ y.pay = req[r].pay
      /\ y.route = req[r].route /\ y.decision = req[r].decision
      /\ y.under = req[r].under /\ y.overtaken = req[r].overtaken
  BY <1>1, <1>3 DEF ReqType, Answers, Results
<1> HIDE DEF y
<1>5. workReturns(r, [req EXCEPT ![r] = y])
  BY <1>0, <1>2
<1>6. y.route = "verify" /\ ~y.overtaken => y.under = policy
  BY <1>1, <1>4 DEF ReqOK
<1>7. clicked \subseteq clicked' /\ clicked' \subseteq clicked \cup {r}
  OBVIOUS
<1>8. y.answer \in Results
  BY <1>3, <1>4 DEF Results
<1> QED BY <1>0, <1>3, <1>4, <1>5, <1>6, <1>7, <1>8, WorkReturns

\* The settlement's answer changes nothing but that the result is delivered.
LEMMA Settled ==
  ASSUME ApiInv, NEW r \in Requests, settled(r)
  PROVE  ApiInv'
<1> DEFINE x == [req[r] EXCEPT !.pc = "answered"]
<1>0. /\ req[r].pc = "settling" /\ req' = [req EXCEPT ![r] = x] /\ publishAudit(r)
      /\ UNCHANGED <<gate, optional, policy, asked, clicked, lapsed, crashed, seen, now>>
  BY DEF settled, At, setup
<1>1. /\ req[r] \in ReqType /\ ReqOK(r, req[r], gate, policy, clicked)
      /\ req \in [Requests -> ReqType] /\ ApiTypes /\ AuditInv /\ GuardInv
  BY OfRequest DEF ApiTypes
<1>2. /\ x \in ReqType /\ x.pc = "answered" /\ x.pay = req[r].pay
      /\ x.answer = req[r].answer /\ x.decision = req[r].decision
      /\ x.under = req[r].under /\ x.overtaken = req[r].overtaken
  BY <1>1 DEF ReqType, ReqPcs
<1> HIDE DEF x
<1>3. ReqOK(r, x, gate, policy, clicked') /\ Held(req[r]) /\ x.answer \in Results
  BY <1>0, <1>1, <1>2 DEF ReqOK, Held, Active
<1>4. /\ req' \in [Requests -> ReqType] /\ req'[r] = x
      /\ \A s \in Requests : req[s].pc = "answered" => req'[s] = req[s]
  BY <1>0, <1>1, <1>2
<1>5. req[r].route = "verify" /\ ~x.overtaken => x.under = policy
  BY <1>0, <1>1, <1>2 DEF ReqOK
<1>6. AuditInv' /\ recorded' \in Nat
  BY <1>0, <1>1, <1>2, <1>4, <1>5, PublishAudit
<1>7. ApiTypes' /\ ReqInv' /\ AskedInv'
  BY <1>0, <1>1, <1>2, <1>3, <1>6, OneRequest
<1>8. HoldInv'
  BY <1>0, <1>2, <1>3, HoldKept DEF Claimed
<1>9. GuardInv'
  BY <1>0, <1>1 DEF GuardInv, Distinct
<1> QED BY <1>6, <1>7, <1>8, <1>9 DEF ApiInv

\* Time passes, or a submission settles.
LEMMA ClockOrTopic ==
  ASSUME ApiInv, tick \/ hcsSubmitted \/ UNCHANGED apiVars
  PROVE  ApiInv'
<1>0. /\ ApiTypes /\ GuardInv /\ ReqInv /\ HoldInv /\ AskedInv /\ AuditInv /\ now \in Nat
  BY DEF ApiInv, GuardInv
<1>1. /\ UNCHANGED <<gate, optional, policy, req, asked, clicked, recorded, lapsed,
                     crashed, seen>>
      /\ now' \in Nat
  BY <1>0 DEF tick, hcsSubmitted, apiVars, gateVars, setup
<1>2. AuditInv'
  <2>1. CASE UNCHANGED auditVars
    BY <1>0, <1>1, <2>1, AuditKept DEF ApiTypes
  <2>2. CASE hcsSubmitted
    BY <1>0, <1>1, <2>2, AuditSubmitted DEF hcsSubmitted
  <2> QED BY <2>1, <2>2 DEF tick, apiVars
<1>3. ApiTypes' /\ GuardInv'
  BY <1>0, <1>1 DEF ApiTypes, GuardInv, Distinct
<1>4. ReqInv'
  BY <1>0, <1>1 DEF ReqInv, ReqOK
<1>5. HoldInv' /\ AskedInv'
  BY <1>0, <1>1 DEF HoldInv, Holding, Claimed, AskedInv
<1> QED BY <1>2, <1>3, <1>4, <1>5 DEF ApiInv

\* The policy is replaced under the requests already decided.
LEMMA SwapPolicy ==
  ASSUME ApiInv, NEW doc \in Documents, swapPolicy(doc)
  PROVE  ApiInv'
<1>0. /\ ApiTypes /\ GuardInv /\ ReqInv /\ HoldInv /\ AskedInv /\ AuditInv
      /\ req \in [Requests -> ReqType] /\ recorded \in Nat
  BY DEF ApiInv, ApiTypes
<1>1. /\ UNCHANGED <<gate, optional, asked, clicked, recorded, lapsed, crashed, seen, now>>
      /\ UNCHANGED auditVars /\ policy' = doc
      /\ req' = [r \in Requests |-> IF req[r].pc \in {"approval", "settling"}
                   THEN [req[r] EXCEPT !.overtaken = TRUE] ELSE req[r]]
  BY DEF swapPolicy, setup
<1>2. ASSUME NEW r \in Requests
      PROVE  /\ req'[r] \in ReqType
             /\ req'[r].pc = req[r].pc /\ req'[r].pay = req[r].pay
             /\ req'[r].answer = req[r].answer /\ req'[r].decision = req[r].decision
             /\ req'[r].route = req[r].route
             /\ \/ req'[r] = req[r] /\ req[r].pc \notin {"approval", "settling"}
                \/ req'[r].overtaken /\ req[r].pc \in {"approval", "settling"}
  BY <1>0, <1>1 DEF ReqType
<1>3. ApiTypes'
  <2>1. req' \in [Requests -> ReqType]
    BY <1>1, <1>2
  <2> QED BY <1>0, <1>1, <2>1 DEF ApiTypes
<1>4. ReqInv'
  <2> SUFFICES ASSUME NEW r \in Requests
               PROVE  ReqOK(r, req'[r], gate', policy', clicked')
    BY DEF ReqInv, ReqOK
  <2>1. ReqOK(r, req[r], gate, policy, clicked)
    BY <1>0 DEF ReqInv
  <2>2. CASE req'[r] = req[r] /\ req[r].pc \notin {"approval", "settling"}
    BY <1>1, <2>1, <2>2 DEF ReqOK
  <2>3. CASE req'[r].overtaken /\ req[r].pc \in {"approval", "settling"}
    BY <1>1, <1>2, <2>1, <2>3 DEF ReqOK
  <2> QED BY <1>2, <2>2, <2>3
<1>5. HoldInv'
  BY <1>0, <1>1, <1>2 DEF HoldInv, Holding, Claimed
<1>6. AskedInv'
  BY <1>0, <1>1, <1>2 DEF AskedInv
<1>7. AuditInv' /\ GuardInv'
  BY <1>0, <1>1, <1>2, AuditKept DEF GuardInv, Distinct
<1> QED BY <1>3, <1>4, <1>5, <1>6, <1>7 DEF ApiInv

\* The process dies: what was not delivered is lost, and so are the claims.
LEMMA Crash ==
  ASSUME ApiInv, crash
  PROVE  ApiInv'
<1> DEFINE gone == [Free EXCEPT !.pc = "lost"]
<1>0. /\ ApiTypes /\ GuardInv /\ ReqInv /\ HoldInv /\ AuditInv
      /\ req \in [Requests -> ReqType] /\ recorded \in Nat /\ MaxClaims \in Nat
  BY ReplayAssumption DEF ApiInv, ApiTypes
<1>1. /\ UNCHANGED <<gate, optional, policy, asked, clicked, recorded, topic, now>>
      /\ crashed' = TRUE /\ lapsed' = lapsed \cup Claimed(seen)
      /\ seen' = <<>> /\ queue' = <<>> /\ flushing' = FALSE /\ submitting' = <<>>
      /\ req' = [r \in Requests |->
           IF req[r].pc \in {"free", "answered"} THEN req[r] ELSE gone]
  BY DEF crash, setup
<1>2. /\ gone \in ReqType /\ gone.pc = "lost" /\ gone.answer = "none" /\ gone.pay = "none"
  <2>1. gone \in ReqType
    BY FreeType DEF ReqType, ReqPcs
  <2> QED BY <2>1 DEF Free
<1> HIDE DEF gone
<1>3. ASSUME NEW r \in Requests
      PROVE  \/ req'[r] = req[r] /\ req[r].pc \in {"free", "answered"}
             \/ req'[r] = gone /\ req[r].pc \notin {"free", "answered"}
  BY <1>1
<1>4. ApiTypes'
  <2>1. req' \in [Requests -> ReqType]
    BY <1>0, <1>1, <1>2
  <2> QED BY <1>0, <1>1, <2>1 DEF ApiTypes
<1>5. ReqInv'
  <2> SUFFICES ASSUME NEW r \in Requests
               PROVE  ReqOK(r, req'[r], gate', policy', clicked')
    BY DEF ReqInv, ReqOK
  <2>1. ReqOK(r, req[r], gate, policy, clicked)
    BY <1>0 DEF ReqInv
  <2>2. ReqOK(r, gone, gate, policy, clicked)
    BY <1>2 DEF ReqOK, Active
  <2> QED BY <1>1, <1>3, <2>1, <2>2
<1>6. HoldInv'
  <2> SUFFICES ASSUME NEW r \in Requests, Holding(r)', req'[r].pay \in Payments \ lapsed'
               PROVE  FALSE
    BY DEF HoldInv
  <2>1. req'[r] = req[r]
    BY <1>2, <1>3 DEF Holding, Results
  <2>2. req[r].pay \in Claimed(seen)
    BY <1>0, <1>1, <2>1 DEF HoldInv, Holding
  <2> QED BY <1>1, <2>1, <2>2
<1>7. AskedInv'
  BY <1>1 DEF AskedInv
<1>8. GuardInv'
  <2>1. <<>> \in Seq(ClaimType) /\ Len(<<>>) = 0 /\ Distinct(<<>>)
    BY EmptySeq DEF Distinct
  <2> QED BY <1>0, <1>1, <2>1 DEF GuardInv, Distinct
<1>9. AuditInv'
  BY <1>0, <1>1, <1>3, AuditLost
<1> QED BY <1>4, <1>5, <1>6, <1>7, <1>8, <1>9 DEF ApiInv

\* Every step of the API on its own.
LEMMA ApiStep ==
  ASSUME ApiInv, NextApi
  PROVE  ApiInv'
<1>1. ASSUME NEW r \in Requests, serve(r) PROVE ApiInv'
  <2>0. ReqOK(r, req[r], gate, policy, clicked) /\ gate \in {"enabled", "disabled"}
        /\ req[r] \in ReqType
    BY OfRequest
  <2>1. CASE verifyRefused(r)
    <3>1. PICK status \in {"402", "error"} : Refuse(r, status)
      BY <2>1 DEF verifyRefused
    <3>2. req[r].pc = "verifying" /\ release(req[r].pay)
      BY <2>1 DEF verifyRefused, At
    <3>3. IF req[r].pay \in Payments THEN release(req[r].pay) ELSE UNCHANGED seen
      <4>1. CASE req[r].pay \in Payments
        BY <3>2, <4>1
      <4>2. CASE req[r].pay \notin Payments
        <5>1. req[r].pay \notin Claimed(seen)
          <6>1. \A i \in DOMAIN seen : seen[i] \in ClaimType
            BY OfRequest, LenProperties, ElementOfSeq
          <6>2. \A i \in DOMAIN seen : seen[i].key \in Payments
            BY <6>1 DEF ClaimType
          <6> QED BY <4>2, <6>2 DEF Claimed
        <5> QED BY <3>2, <4>2, <5>1 DEF release
      <4> QED BY <4>1, <4>2
    <3>4. UNCHANGED <<setup, policy, asked, clicked, recorded, lapsed, crashed, events,
                      now, auditVars>>
      BY <2>1 DEF verifyRefused
    <3> QED BY <3>1, <3>2, <3>3, <3>4, GivenBack
  <2>2. CASE workThrows(r)
    BY <2>2, GivenBack DEF workThrows, At
  <2>3. CASE verified(r)
    BY <2>3, Verified
  <2>4. CASE decodeRoute(r)
    BY <2>4, DecodeRoute
  <2>5. CASE \E reading \in Readings, pool \in deepestPool : verifyRoute(r, reading, pool)
    BY <2>5, VerifyRoute
  <2>6. CASE approvalTimeout(r)
    <3>1. /\ req[r].pc = "approval" /\ approvalOutcome(r, FALSE)
          /\ clicked' = IF FALSE THEN clicked \cup {r} ELSE clicked
      BY <2>6 DEF approvalTimeout, At
    <3> QED BY <3>1, ApprovalOutcome
  <2>7. CASE settled(r)
    BY <2>7, Settled
  <2> QED BY <1>1, <2>1, <2>2, <2>3, <2>4, <2>5, <2>6, <2>7 DEF serve
<1>2. ASSUME NEW r \in Requests, NEW approved \in BOOLEAN, approve(r, approved)
      PROVE  ApiInv'
  BY <1>2, ApprovalOutcome DEF approve, At
<1> QED BY <1>1, <1>2, ClockOrTopic, SwapPolicy, Crash DEF NextApi

-----------------------------------------------------------------------------
(* The client *)

\* An arrival changes one free slot.
LEMMA ArrivalEffect ==
  ASSUME ApiInv, NEW r \in Requests, NEW route, NEW body, NEW p,
         arriveUnpaid(r, route, body) \/ arrivePaid(r, route, p, body)
  PROVE  /\ req[r].pc = "free" /\ crashed' = crashed
         /\ \A s \in Requests \ {r} : req'[s] = req[s]
         /\ req'[r].pc \in {"working", "verifying", "answered"}
         /\ req'[r].pay \in {"none", p}
         /\ arriveUnpaid(r, route, body) => req'[r].pay = "none"
<1>0. req \in [Requests -> ReqType]
  BY DEF ApiInv, ApiTypes
<1>1. CASE arriveUnpaid(r, route, body)
  <2> DEFINE x == [Free EXCEPT !.pc = "working", !.route = route, !.body = body]
  <2>1. req[r].pc = "free" /\ crashed' = crashed /\ req' = [req EXCEPT ![r] = x]
    BY <1>1 DEF arriveUnpaid, At
  <2>2. x.pc = "working" /\ x.pay = "none"
    BY DEF Free
  <2> HIDE DEF x
  <2> QED BY <1>0, <2>1, <2>2
<1>2. CASE arrivePaid(r, route, p, body)
  <2> DEFINE x == [Free EXCEPT !.pc = "verifying", !.route = route, !.pay = p, !.body = body]
             y == Refused("402")
  <2>1. /\ req[r].pc = "free" /\ crashed' = crashed /\ gate = "enabled"
        /\ req' = [req EXCEPT ![r] = x] \/ req' = [req EXCEPT ![r] = y]
    BY <1>2 DEF arrivePaid, At, Refuse, Refused
  <2>2. x.pc = "verifying" /\ x.pay = p /\ y.pc = "answered" /\ y.pay = "none"
    BY DEF Free, Refused
  <2>3. ~arriveUnpaid(r, route, body)
    BY <2>1 DEF arriveUnpaid
  <2> HIDE DEF x, y
  <2> QED BY <1>0, <2>1, <2>2, <2>3
<1> QED BY <1>1, <1>2

\* The API leaves free slots and delivered answers alone, gives no request a
\* payload, and loses one only by dying.
LEMMA ApiLeaves ==
  ASSUME ApiInv, NextApi, NEW s \in Requests
  PROVE  /\ req[s].pc \in {"free", "answered"} => req'[s] = req[s]
         /\ req'[s].pay \in {req[s].pay, "none"}
         /\ req'[s].pc = "lost" => req[s].pc = "lost" \/ crashed'
         /\ crashed => crashed'
<1> DEFINE Kept == /\ req[s].pc \in {"free", "answered"} => req'[s] = req[s]
                   /\ req'[s].pay \in {req[s].pay, "none"}
                   /\ req'[s].pc = "lost" => req[s].pc = "lost" \/ crashed'
                   /\ crashed => crashed'
<1>0. req \in [Requests -> ReqType]
  BY DEF ApiInv, ApiTypes
<1>1. ASSUME NEW r \in Requests, NEW x, req' = [req EXCEPT ![r] = x],
             req[r].pc \notin {"free", "answered"}, x.pay \in {req[r].pay, "none"},
             x.pc # "lost", UNCHANGED crashed
      PROVE  Kept
  BY <1>0, <1>1
<1>2. ASSUME NEW r \in Requests, NEW a \in {"402", "error"}, Refuse(r, a),
             req[r].pc \notin {"free", "answered"}, UNCHANGED crashed
      PROVE  Kept
  <2>1. Refused(a).pay = "none" /\ Refused(a).pc = "answered"
    BY DEF Refused, Free
  <2>2. req' = [req EXCEPT ![r] = Refused(a)]
    BY <1>2 DEF Refuse, Refused
  <2> QED BY <1>1, <1>2, <2>1, <2>2
<1>3. ASSUME NEW r \in Requests, NEW pc, pc # "lost", NEW y, y.pay = req[r].pay,
             y \in ReqType, NEW result, result = [req EXCEPT ![r] = y],
             req' = [result EXCEPT ![r].pc = pc],
             req[r].pc \notin {"free", "answered"}, UNCHANGED crashed
      PROVE  Kept
  <2> DEFINE x == [y EXCEPT !.pc = pc]
  <2>1. req' = [req EXCEPT ![r] = x]
    BY <1>0, <1>3
  <2>2. x.pay = req[r].pay /\ x.pc = pc
    BY <1>3 DEF ReqType
  <2> HIDE DEF x
  <2> QED BY <1>1, <1>3, <2>1, <2>2
<1>4. ASSUME NEW r \in Requests, At(r, "approval"), NEW approved, approvalOutcome(r, approved)
      PROVE  Kept
  <2> DEFINE a == IF approved THEN "ALLOW" ELSE "BLOCK"
             y == [req[r] EXCEPT !.answer = a]
  <2>1. /\ req[r].pc = "approval" /\ UNCHANGED crashed
        /\ workReturns(r, [req EXCEPT ![r].answer = a])
    BY <1>4 DEF approvalOutcome, At
  <2>2. y \in ReqType /\ y.pay = req[r].pay
    BY <1>0 DEF ReqType, Answers, Results
  <2>3. [req EXCEPT ![r].answer = a] = [req EXCEPT ![r] = y]
    BY <1>0
  <2> HIDE DEF y, a
  <2>4. \E pc \in {"settling", "answered"} :
          req' = [[req EXCEPT ![r] = y] EXCEPT ![r].pc = pc]
    BY <2>1, <2>3 DEF workReturns
  <2> QED BY <1>3, <2>1, <2>2, <2>4
<1>5. ASSUME NEW r \in Requests, serve(r)
      PROVE  Kept
  <2>0. req[r] \in ReqType /\ req = [req EXCEPT ![r] = req[r]]
    BY <1>0
  <2>1. CASE verifyRefused(r) \/ workThrows(r)
    <3>1. /\ req[r].pc \notin {"free", "answered"} /\ UNCHANGED crashed
          /\ \E a \in {"402", "error"} : Refuse(r, a)
      BY <2>1 DEF verifyRefused, workThrows, At
    <3> QED BY <1>2, <3>1
  <2>2. CASE verified(r) \/ settled(r)
    <3>1. /\ req[r].pc \notin {"free", "answered"} /\ UNCHANGED crashed
          /\ \E pc \in {"working", "answered"} : req' = [req EXCEPT ![r].pc = pc]
      BY <2>2 DEF verified, settled, At
    <3> QED BY <1>3, <2>0, <3>1
  <2>3. CASE decodeRoute(r)
    <3> DEFINE y == [req[r] EXCEPT !.answer = "intent"]
    <3>1. /\ req[r].pc = "working" /\ UNCHANGED crashed
          /\ workReturns(r, [req EXCEPT ![r].answer = "intent"])
      BY <2>3 DEF decodeRoute, At
    <3>2. y \in ReqType /\ y.pay = req[r].pay
      BY <2>0 DEF ReqType, Answers, Results
    <3>3. [req EXCEPT ![r].answer = "intent"] = [req EXCEPT ![r] = y]
      BY <1>0
    <3> HIDE DEF y
    <3>4. \E pc \in {"settling", "answered"} :
            req' = [[req EXCEPT ![r] = y] EXCEPT ![r].pc = pc]
      BY <3>1, <3>3 DEF workReturns
    <3> QED BY <1>3, <3>1, <3>2, <3>4
  <2>4. ASSUME NEW reading, NEW pool, verifyRoute(r, reading, pool)
        PROVE  Kept
    <3> DEFINE d == verdict(engineNow, req[r].body, reading, pool)
               decided == [req EXCEPT ![r].decision = d, ![r].under = engineNow,
                                      ![r].body = BadBody]
               z == [req[r] EXCEPT !.decision = d, !.under = engineNow, !.body = BadBody]
               y == [z EXCEPT !.answer = d]
    <3>1. /\ req[r].pc = "working" /\ UNCHANGED crashed
          /\ IF d = "REQUIRE_APPROVAL"
               THEN req' = [decided EXCEPT ![r].pc = "approval"]
               ELSE workReturns(r, [decided EXCEPT ![r].answer = d])
      BY <2>4 DEF verifyRoute, At
    <3>2. d \in Decisions /\ engineNow \in Documents
      BY VerdictType DEF engineNow, ApiInv, ApiTypes
    <3>3. decided = [req EXCEPT ![r] = z]
      BY <1>0
    <3> HIDE DEF d
    <3>4. z \in ReqType /\ z.pay = req[r].pay
      BY <2>0, <3>2 DEF ReqType, Bodies
    <3>5. CASE d = "REQUIRE_APPROVAL"
      <4>1. req' = [[req EXCEPT ![r] = z] EXCEPT ![r].pc = "approval"]
        BY <3>1, <3>3, <3>5
      <4> HIDE DEF z
      <4> QED BY <1>3, <3>1, <3>4, <4>1
    <3>6. CASE d # "REQUIRE_APPROVAL"
      <4>1. [decided EXCEPT ![r].answer = d] = [req EXCEPT ![r] = y]
        BY <1>0, <3>3
      <4>2. y \in ReqType /\ y.pay = req[r].pay
        <5> HIDE DEF z
        <5> QED BY <3>2, <3>4, <3>6 DEF ReqType, Answers, Results, Decisions
      <4> HIDE DEF y, decided
      <4>3. \E pc \in {"settling", "answered"} :
              req' = [[req EXCEPT ![r] = y] EXCEPT ![r].pc = pc]
        BY <3>1, <3>6, <4>1 DEF workReturns
      <4> QED BY <1>3, <3>1, <4>2, <4>3
    <3> QED BY <3>5, <3>6
  <2>5. CASE approvalTimeout(r)
    BY <1>4, <2>5 DEF approvalTimeout
  <2> QED BY <1>5, <2>1, <2>2, <2>3, <2>4, <2>5 DEF serve
<1>6. ASSUME NEW r \in Requests, NEW approved \in BOOLEAN, approve(r, approved)
      PROVE  Kept
  BY <1>4, <1>6 DEF approve
<1>7. CASE hcsSubmitted \/ tick
  BY <1>7 DEF hcsSubmitted, tick, gateVars
<1>8. ASSUME NEW doc \in Documents, swapPolicy(doc) PROVE Kept
  <2>1. req'[s] = IF req[s].pc \in {"approval", "settling"}
                    THEN [req[s] EXCEPT !.overtaken = TRUE] ELSE req[s]
    BY <1>8 DEF swapPolicy
  <2>2. /\ [req[s] EXCEPT !.overtaken = TRUE].pay = req[s].pay
        /\ [req[s] EXCEPT !.overtaken = TRUE].pc = req[s].pc
    BY <1>0 DEF ReqType
  <2> QED BY <1>8, <2>1, <2>2 DEF swapPolicy
<1>9. CASE crash
  <2>1. /\ crashed' = TRUE
        /\ req'[s] = IF req[s].pc \in {"free", "answered"} THEN req[s]
                     ELSE [Free EXCEPT !.pc = "lost"]
    BY <1>9 DEF crash
  <2>2. [Free EXCEPT !.pc = "lost"].pay = "none"
    BY DEF Free
  <2> QED BY <2>1, <2>2
<1> QED BY <1>5, <1>6, <1>7, <1>8, <1>9 DEF NextApi

\* The researcher compares a scaled amount, which is the larger one.
LEMMA ScaledIsLarger ==
  ASSUME NEW q \in Nat, NEW k \in Nat \ {0}, NEW limit \in Nat, q * k < limit
  PROVE  q < limit
<1>1. q * k = q + q * (k - 1) /\ q * (k - 1) \in Nat
  <2>1. k - 1 \in Nat
    OBVIOUS
  <2> QED BY <2>1
<1> QED BY <1>1

\* What an API step leaves of the client's call.
LEMMA CallKept ==
  ASSUME IInv, NextApi, UNCHANGED clientVars
  PROVE  CallInv'
<1>1. /\ Own \in Requests /\ Fallback \in Requests /\ OwnPayment # "none" /\ ApiInv
      /\ CallOK(req[Own], req[Fallback], client, quote, call, crashed)
  BY ClientAssumption, ReplayAssumption DEF IInv, CallInv
<1>2. UNCHANGED <<client, quote, call>>
  BY DEF clientVars
<1>3. /\ req[Own].pc \in {"free", "answered"} => req'[Own] = req[Own]
      /\ req'[Own].pay \in {req[Own].pay, "none"}
      /\ req'[Own].pc = "lost" => req[Own].pc = "lost" \/ crashed'
      /\ req[Fallback].pc \in {"free", "answered"} => req'[Fallback] = req[Fallback]
      /\ crashed => crashed'
  BY <1>1, ApiLeaves
<1>4. CallOK(req'[Own], req'[Fallback], client', quote', call', crashed')
  BY <1>1, <1>2, <1>3 DEF CallOK, WithinLimits
<1> QED BY <1>4 DEF CallInv, CallOK, WithinLimits

\* Another caller's request is not the client's.
LEMMA OtherArrives ==
  ASSUME IInv, NEW r \in Others, otherArrives(r)
  PROVE  IInv'
<1>0. /\ r \in Requests /\ r # Own /\ r # Fallback /\ ApiInv
      /\ Own \in Requests /\ Fallback \in Requests
      /\ CallOK(req[Own], req[Fallback], client, quote, call, crashed)
  BY ClientAssumption DEF Others, IInv, CallInv
<1>1. PICK o \in Offers : arriveUnpaid(r, o.route, o.body)
                          \/ arrivePaid(r, o.route, o.pay, o.body)
  BY DEF otherArrives
<1>2. o.route \in Routes /\ o.pay \in Payments /\ o.body \in Bodies
  BY ClientAssumption DEF Routes, Bodies
<1>3. ApiInv'
  BY <1>0, <1>1, <1>2, ArriveUnpaid, ArrivePaid
<1>4. crashed' = crashed /\ \A s \in Requests \ {r} : req'[s] = req[s]
  BY <1>0, <1>1, ArrivalEffect
<1>5. UNCHANGED <<client, quote, call>>
  BY DEF otherArrives, clientVars
<1>6. CallOK(req'[Own], req'[Fallback], client', quote', call', crashed')
  BY <1>0, <1>4, <1>5
<1>7. CallInv'
  BY <1>6 DEF CallInv, CallOK, WithinLimits
<1> QED BY <1>3, <1>7 DEF IInv

\* A step of the client's call, and what it sends.
LEMMA ClientStep ==
  ASSUME IInv, clientStep
  PROVE  IInv'
<1>0. /\ ApiInv /\ Own \in Requests /\ Fallback \in Requests /\ Own # Fallback
      /\ OwnPayment \in Payments /\ OwnPayment # "none" /\ OwnBody \in Bodies
      /\ "verify" \in Routes /\ "decode" \in Routes
      /\ Quotes \subseteq Nat /\ Ceiling \in Nat /\ Scale \in Nat \ {0}
      /\ Document.approvalThreshold \in Nat
  BY ClientAssumption, ReplayAssumption, ApiAssumption DEF IInv, Bodies, Routes
<1>1. CallOK(req[Own], req[Fallback], client, quote, call, crashed)
  BY DEF IInv, CallInv
<1>2. /\ call \in [pc: CallPcs, outcome: Outcomes] /\ quote \in Nat
      /\ call = [pc |-> call.pc, outcome |-> call.outcome]
  BY <1>1 DEF CallOK
<1>3. /\ req[Own] \in ReqType /\ req[Fallback] \in ReqType
      /\ req[Own].pc = "free" => req[Own].pay = "none" /\ req[Own].answer = "none"
  <2>1. Free.pay = "none" /\ Free.answer = "none"
    BY DEF Free
  <2> QED BY <1>0, <2>1, OfRequest DEF ReqOK
<1> DEFINE Next1 == CallOK(req'[Own], req'[Fallback], client', quote', call', crashed')
           Went(pc) == call' = [pc |-> pc, outcome |-> call.outcome]
           Ended(o) == call' = [pc |-> "done", outcome |-> o]
<1>4. ASSUME ApiInv', Next1 PROVE IInv'
  <2>1. CallInv'
    BY <1>4 DEF CallInv, CallOK, WithinLimits
  <2> QED BY <1>4, <2>1 DEF IInv
<1>5. ASSUME NEW pc, Step(pc) PROVE Went(pc)
  BY <1>2, <1>5 DEF Step
<1>6. ASSUME NEW o, Told(o) PROVE Ended(o)
  BY <1>2, <1>6 DEF Told
<1>7. giveUp => IF client = "proxy" THEN Went("forwarding") ELSE Ended("abandoned")
  BY <1>5, <1>6 DEF giveUp
<1>8. ASSUME Unmoved \/ UNCHANGED apiVars
      PROVE  ApiInv' /\ UNCHANGED <<req, crashed>>
  BY <1>0, <1>8, ClockOrTopic DEF Unmoved, apiVars, gateVars
<1>9. ASSUME NEW r \in Requests, NEW route \in Routes,
             \/ arriveUnpaid(r, route, OwnBody)
             \/ arrivePaid(r, route, OwnPayment, OwnBody)
      PROVE  /\ ApiInv' /\ req[r].pc = "free" /\ crashed' = crashed
             /\ \A s \in Requests \ {r} : req'[s] = req[s]
             /\ req'[r].pc \in {"working", "verifying", "answered"}
             /\ req'[r].pay \in {"none", OwnPayment}
             /\ arriveUnpaid(r, route, OwnBody) => req'[r].pay = "none"
  BY <1>0, <1>9, ArriveUnpaid, ArrivePaid, ArrivalEffect
<1>10. \A a \in Answers : a \in Outcomes /\ a # "executed"
  BY DEF Answers, Results, Outcomes
<1>11. {"abandoned", "402", "502", "stopped", "executed"} \subseteq Outcomes
  BY DEF Outcomes, Answers
<1>12. CASE begin
  <2>1. /\ call.pc = "idle" /\ client # "recipe" /\ ApiInv' /\ UNCHANGED <<req, crashed>>
        /\ UNCHANGED <<client, quote>>
        /\ Went("attempting") \/ Went("forwarding")
    BY <1>5, <1>8, <1>12 DEF begin, CallAt, Unmoved
  <2>2. Next1
    BY <1>1, <1>2, <2>1 DEF CallOK, CallPcs
  <2> QED BY <1>4, <2>1, <2>2
<1>13. CASE firstAttempt
  <2>0. call.pc = "attempting"
    BY <1>13 DEF firstAttempt, CallAt
  <2>1. CASE Sent(Own) /\ Step("first")
    <3>1. /\ ApiInv' /\ crashed' = crashed /\ req'[Fallback] = req[Fallback]
          /\ req'[Own].pc \in {"working", "verifying", "answered"} /\ req'[Own].pay = "none"
          /\ UNCHANGED <<client, quote>> /\ Went("first")
      BY <1>0, <1>5, <1>9, <2>1 DEF Sent
    <3>2. Next1
      BY <1>0, <1>1, <1>2, <2>0, <3>1 DEF CallOK, CallPcs
    <3> QED BY <1>4, <3>1, <3>2
  <2>2. CASE quote' \in Quotes /\ Step("challenged") /\ UNCHANGED <<apiVars, client>>
    <3>1. /\ ApiInv' /\ UNCHANGED <<req, crashed>> /\ Went("challenged")
          /\ UNCHANGED client /\ quote' \in Nat
      BY <1>0, <1>5, <1>8, <2>2
    <3>2. client # "recipe" /\ req[Own].pay = "none"
      BY <1>1, <1>3, <2>0 DEF CallOK
    <3>3. Next1
      BY <1>0, <1>1, <1>2, <2>0, <3>1, <3>2 DEF CallOK, CallPcs
    <3> QED BY <1>4, <3>1, <3>3
  <2>3. CASE Unmoved /\ giveUp
    <3>1. /\ ApiInv' /\ UNCHANGED <<req, crashed>> /\ UNCHANGED <<client, quote>>
          /\ IF client = "proxy" THEN Went("forwarding") ELSE Ended("abandoned")
      BY <1>7, <1>8, <2>3 DEF Unmoved
    <3>2. Next1
      BY <1>1, <1>2, <1>11, <2>0, <3>1 DEF CallOK, CallPcs
    <3> QED BY <1>4, <3>1, <3>2
  <2> QED BY <1>13, <2>1, <2>2, <2>3 DEF firstAttempt
<1>14. CASE firstAnswer
  <2>1. /\ call.pc = "first" /\ ApiInv' /\ UNCHANGED <<req, crashed>>
        /\ UNCHANGED <<client, quote>>
        /\ \/ req[Own].pc = "answered" /\ Ended(req[Own].answer)
           \/ /\ req[Own].pc = "lost"
              /\ IF client = "proxy" THEN Went("forwarding") ELSE Ended("abandoned")
    BY <1>6, <1>7, <1>8, <1>14 DEF firstAnswer, CallAt, At, Unmoved
  <2>2. req[Own].answer \in Outcomes /\ req[Own].answer # "executed"
    BY <1>3, <1>10 DEF ReqType
  <2>3. Next1
    BY <1>1, <1>2, <1>11, <2>1, <2>2 DEF CallOK, CallPcs
  <2> QED BY <1>4, <2>1, <2>3
<1>15. CASE answerChallenge
  <2>1. /\ call.pc = "challenged" /\ ApiInv' /\ UNCHANGED <<req, crashed>>
        /\ UNCHANGED <<client, quote>>
    BY <1>8, <1>15 DEF answerChallenge, CallAt
  <2>2. CASE checkPrice(quote) /\ checkPolicy(quote) /\ Step("signed")
    <3>1. Went("signed")
      BY <1>5, <2>2
    <3>2. WithinLimits(quote, client)
      BY <1>0, <1>2, <2>2, ScaledIsLarger DEF checkPrice, checkPolicy, WithinLimits
    <3>3. Next1
      BY <1>1, <1>2, <2>1, <3>1, <3>2 DEF CallOK, CallPcs
    <3> QED BY <1>4, <2>1, <3>3
  <2>3. CASE giveUp
    <3>1. IF client = "proxy" THEN Went("forwarding") ELSE Ended("abandoned")
      BY <1>7, <2>3
    <3>2. Next1
      BY <1>1, <1>2, <1>11, <2>1, <3>1 DEF CallOK, CallPcs
    <3> QED BY <1>4, <2>1, <3>2
  <2> QED BY <1>15, <2>2, <2>3 DEF answerChallenge
<1>16. CASE secondAttempt
  <2>0. call.pc = "signed"
    BY <1>16 DEF secondAttempt, CallAt
  <2>1. CASE /\ arrivePaid(Own, "verify", OwnPayment, OwnBody)
             /\ Step("second") /\ UNCHANGED <<client, quote>>
    <3>1. /\ ApiInv' /\ crashed' = crashed /\ req'[Fallback] = req[Fallback]
          /\ req'[Own].pc \in {"working", "verifying", "answered"}
          /\ UNCHANGED <<client, quote>> /\ Went("second")
      BY <1>0, <1>5, <1>9, <2>1
    <3>2. Next1
      BY <1>0, <1>1, <1>2, <2>0, <3>1 DEF CallOK, CallPcs
    <3> QED BY <1>4, <3>1, <3>2
  <2>2. CASE Unmoved /\ giveUp
    <3>1. /\ ApiInv' /\ UNCHANGED <<req, crashed>> /\ UNCHANGED <<client, quote>>
          /\ IF client = "proxy" THEN Went("forwarding") ELSE Ended("abandoned")
      BY <1>7, <1>8, <2>2 DEF Unmoved
    <3>2. Next1
      BY <1>1, <1>2, <1>11, <2>0, <3>1 DEF CallOK, CallPcs
    <3> QED BY <1>4, <3>1, <3>2
  <2> QED BY <1>16, <2>1, <2>2 DEF secondAttempt
<1>17. CASE secondAnswer
  <2>1. /\ call.pc = "second" /\ ApiInv' /\ UNCHANGED <<req, crashed>>
        /\ UNCHANGED <<client, quote>>
        /\ \/ req[Own].pc = "answered" /\ Ended(req[Own].answer)
           \/ /\ \/ req[Own].pc = "answered" /\ req[Own].answer \notin Results
                 \/ req[Own].pc = "lost"
              /\ IF client = "proxy" THEN Went("forwarding") ELSE Ended("abandoned")
    BY <1>6, <1>7, <1>8, <1>17 DEF secondAnswer, CallAt, At, Unmoved
  <2>2. req[Own].answer \in Outcomes /\ req[Own].answer # "executed"
    BY <1>3, <1>10 DEF ReqType
  <2>3. Next1
    BY <1>1, <1>2, <1>11, <2>1, <2>2 DEF CallOK, CallPcs
  <2> QED BY <1>4, <2>1, <2>3
<1>18. CASE forward
  <2>0. call.pc = "forwarding"
    BY <1>18 DEF forward, CallAt
  <2>1. CASE Sent(Fallback) /\ Step("forwarded")
    <3>1. /\ ApiInv' /\ crashed' = crashed /\ req'[Own] = req[Own]
          /\ req[Fallback].pc = "free"
          /\ UNCHANGED <<client, quote>> /\ Went("forwarded")
      BY <1>0, <1>5, <1>9, <2>1 DEF Sent
    <3>2. Next1
      BY <1>0, <1>1, <1>2, <2>0, <3>1 DEF CallOK, CallPcs
    <3> QED BY <1>4, <3>1, <3>2
  <2>2. CASE Unmoved /\ (Told("402") \/ Told("502"))
    <3>1. /\ ApiInv' /\ UNCHANGED <<req, crashed>> /\ UNCHANGED <<client, quote>>
          /\ Ended("402") \/ Ended("502")
      BY <1>6, <1>8, <2>2 DEF Unmoved
    <3>2. Next1
      BY <1>1, <1>2, <1>11, <2>0, <3>1 DEF CallOK, CallPcs
    <3> QED BY <1>4, <3>1, <3>2
  <2> QED BY <1>18, <2>1, <2>2 DEF forward
<1>19. CASE forwardAnswer
  <2>1. /\ call.pc = "forwarded" /\ ApiInv' /\ UNCHANGED <<req, crashed>>
        /\ UNCHANGED <<client, quote>>
        /\ Ended(req[Fallback].answer) \/ Ended("502")
    BY <1>6, <1>8, <1>19 DEF forwardAnswer, CallAt, At, Unmoved
  <2>2. req[Fallback].answer \in Outcomes /\ req[Fallback].answer # "executed"
    BY <1>3, <1>10 DEF ReqType
  <2>3. Next1
    BY <1>1, <1>2, <1>11, <2>1, <2>2 DEF CallOK, CallPcs
  <2> QED BY <1>4, <2>1, <2>3
<1>20. ASSUME recipeStops, client = "recipe" PROVE IInv'
  <2>1. /\ ApiInv' /\ UNCHANGED <<req, crashed>> /\ UNCHANGED <<client, quote>>
        /\ Ended("stopped")
    BY <1>6, <1>8, <1>20 DEF recipeStops, Unmoved
  <2>2. Next1
    BY <1>1, <1>2, <1>11, <1>20, <2>1 DEF CallOK, CallPcs
  <2> QED BY <1>4, <2>1, <2>2
<1>21. CASE recipeDecodes
  <2>0. call.pc = "idle" /\ client = "recipe"
    BY <1>21 DEF recipeDecodes, CallAt
  <2>1. CASE recipeAsks(Own, "decode") /\ Step("decoding")
    <3>1. /\ ApiInv' /\ crashed' = crashed /\ req'[Fallback] = req[Fallback]
          /\ req'[Own].pc \in {"working", "verifying", "answered"}
          /\ UNCHANGED <<client, quote>> /\ Went("decoding")
      BY <1>0, <1>5, <1>9, <2>1 DEF recipeAsks
    <3>2. WithinLimits(quote, client)
      BY <1>0, <1>1, <2>0 DEF CallOK, WithinLimits
    <3>3. Next1
      BY <1>0, <1>1, <1>2, <2>0, <3>1, <3>2 DEF CallOK, CallPcs
    <3> QED BY <1>4, <3>1, <3>3
  <2> QED BY <1>20, <1>21, <2>0, <2>1 DEF recipeDecodes
<1>22. CASE recipeVerifies
  <2>0. call.pc = "decoding" /\ client = "recipe"
    BY <1>1, <1>22 DEF recipeVerifies, CallAt, CallOK
  <2>1. CASE recipeAsks(Fallback, "verify") /\ Step("judging")
    <3>1. /\ ApiInv' /\ crashed' = crashed /\ req'[Own] = req[Own]
          /\ req[Fallback].pc = "free"
          /\ UNCHANGED <<client, quote>> /\ Went("judging")
      BY <1>0, <1>5, <1>9, <2>1 DEF recipeAsks
    <3>2. Next1
      BY <1>0, <1>1, <1>2, <2>0, <3>1 DEF CallOK, CallPcs
    <3> QED BY <1>4, <3>1, <3>2
  <2> QED BY <1>20, <1>22, <2>0, <2>1 DEF recipeVerifies
<1>23. CASE recipeActs
  <2>0. call.pc = "judging" /\ client = "recipe"
    BY <1>1, <1>23 DEF recipeActs, CallAt, CallOK
  <2>1. CASE /\ At(Fallback, "answered") /\ recipeAccepts(req[Fallback].answer) /\ Unmoved
             /\ Told("executed")
    <3>1. /\ ApiInv' /\ UNCHANGED <<req, crashed>> /\ UNCHANGED <<client, quote>>
          /\ req[Fallback].pc = "answered" /\ req[Fallback].answer = "ALLOW"
          /\ Ended("executed")
      BY <1>6, <1>8, <2>1 DEF Unmoved, At, recipeAccepts
    <3>2. Next1
      BY <1>1, <1>2, <1>11, <2>0, <3>1 DEF CallOK, CallPcs
    <3> QED BY <1>4, <3>1, <3>2
  <2> QED BY <1>20, <1>23, <2>0, <2>1 DEF recipeActs
<1> QED
  BY <1>12, <1>13, <1>14, <1>15, <1>16, <1>17, <1>18, <1>19, <1>21, <1>22, <1>23
  DEF clientStep

-----------------------------------------------------------------------------
(* The theorems *)

\* The process boots with nothing claimed, held or queued.
LEMMA PaidInit == Init => IInv
<1> SUFFICES ASSUME Init PROVE IInv
  OBVIOUS
<1>0. /\ seen = <<>> /\ now = 0
      /\ queue = <<>> /\ flushing = FALSE /\ submitting = <<>> /\ topic = <<>>
      /\ gate \in Gates /\ optional \in Engines
      /\ req = [r \in Requests |-> Free]
      /\ policy = Document
      /\ asked = {} /\ clicked = {} /\ recorded = 0 /\ lapsed = {} /\ crashed = FALSE
      /\ quote = 0 /\ call = [pc |-> "idle", outcome |-> "none"]
  BY DEF Init, InitApi, InitAudit
<1>1. \A r \in Requests : req[r] = Free
  BY <1>0
<1>2. /\ Free \in ReqType /\ Free.pc = "free" /\ Free.answer = "none" /\ Free.pay = "none"
  BY FreeType DEF Free
<1>3. ApiTypes
  BY <1>0, <1>2, ApiAssumption DEF ApiTypes
<1>4. GuardInv
  <2>1. seen \in Seq(ClaimType) /\ Len(seen) = 0 /\ DOMAIN seen = {}
    BY <1>0
  <2> QED BY <1>0, <2>1, ReplayAssumption DEF GuardInv, Distinct
<1>5. ReqInv
  <2>1. \A r \in Requests : ReqOK(r, Free, gate, policy, clicked)
    BY <1>0, <1>2 DEF ReqOK, Active
  <2> QED BY <1>1, <2>1 DEF ReqInv
<1>6. HoldInv /\ AskedInv
  BY <1>0, <1>1, <1>2 DEF HoldInv, AskedInv, Holding, Results
<1>7. AuditInv
  <2>1. /\ queue \in Seq(RecType) /\ submitting \in Seq(RecType) /\ topic \in Seq(RecType)
        /\ DOMAIN queue = {} /\ DOMAIN submitting = {} /\ DOMAIN topic = {}
    BY <1>0
  <2> QED BY <1>0, <2>1 DEF AuditInv, AuditShape, AllOK, Increasing, Before
<1>8. CallInv
  <2>1. req[Own] = Free /\ req[Fallback] = Free /\ OwnPayment # "none"
    BY <1>1, ClientAssumption, ReplayAssumption
  <2> QED BY <1>0, <1>2, <2>1 DEF CallInv, CallOK, CallPcs, Outcomes, Answers
<1> QED BY <1>3, <1>4, <1>5, <1>6, <1>7, <1>8 DEF IInv, ApiInv

\* The invariant is inductive: what the guard remembers, what each request may
\* hold, what the facilitator was asked for, the audit trail and the client's
\* call, each kept by every step of any of them.
THEOREM PaidInductive == Spec => []IInv
<1>1. IInv /\ [Next]_vars => IInv'
  <2> SUFFICES ASSUME IInv, [Next]_vars PROVE IInv'
    OBVIOUS
  <2>1. CASE NextApi /\ UNCHANGED clientVars
    BY <2>1, ApiStep, CallKept DEF IInv
  <2>2. CASE UNCHANGED vars
    <3>1. UNCHANGED apiVars /\ UNCHANGED <<client, quote, call>>
      BY <2>2 DEF vars, clientVars
    <3>2. UNCHANGED <<req, crashed>>
      BY <3>1 DEF apiVars, gateVars
    <3>3. ApiInv'
      BY <3>1, ClockOrTopic DEF IInv
    <3>4. CallInv'
      BY <3>1, <3>2 DEF IInv, CallInv, CallOK, WithinLimits
    <3> QED BY <3>3, <3>4 DEF IInv
  <2> QED BY <2>1, <2>2, ClientStep, OtherArrives DEF Next
<1> QED BY <1>1, PaidInit, PTL DEF Spec

\* Every variable stays in its range, and the replay guard never holds more than
\* one claim beyond its capacity (replay.ts, evict before insert).
THEOREM PaidTypeCorrect == Spec => []TypeOK
<1>1. IInv => TypeOK
  <2> SUFFICES ASSUME IInv PROVE TypeOK
    OBVIOUS
  <2>1. ReplayTypeOK
    BY DEF IInv, ApiInv, GuardInv, ReplayTypeOK, ClaimType
  <2>2. call.pc \in CallPcs /\ call.outcome \in Outcomes
    BY DEF IInv, CallInv, CallOK
  <2> QED BY <2>1, <2>2
          DEF IInv, ApiInv, ApiTypes, ReqType, ReqPcs, Routes, Bodies, CallPcs, Outcomes,
              TypeOK
<1> QED BY <1>1, PaidInductive, PTL

\* A payload whose claim the guard still remembers is held by at most one
\* request, however it was released, refused and retried (replay.ts,
\* middleware.ts), for any time to live and any capacity.
THEOREM OneCallPerPaymentHolds == Spec => []OneCallPerPayment
<1>1. IInv => OneCallPerPayment
  <2> SUFFICES ASSUME IInv, NEW p \in Payments \ lapsed
               PROVE  Cardinality({r \in Requests : req[r].pay = p /\ Holding(r)}) <= 1
    BY DEF OneCallPerPayment
  <2> DEFINE holders == {r \in Requests : req[r].pay = p /\ Holding(r)}
  <2>1. \A r, s \in holders : s = r
    BY DEF IInv, ApiInv, HoldInv
  <2>2. holders = {} \/ \E r \in holders : holders = {r}
    BY <2>1
  <2>3. Cardinality(holders) \in {0, 1}
    <3> HIDE DEF holders
    <3> QED BY <2>2, FS_EmptySet, FS_Singleton
  <2> QED BY <2>3
<1> QED BY <1>1, PaidInductive, PTL

\* While the process lives, a payment it asked to settle has bought a result,
\* and the caller of fetchPaid is given the one its request got
\* (middleware.ts, x402-client/src/index.ts).
THEOREM PaidIsAnsweredHolds == Spec => []PaidIsAnswered
<1>1. IInv => PaidIsAnswered
  <2> SUFFICES ASSUME IInv, ~crashed PROVE PaidIsAnswered
    BY DEF PaidIsAnswered
  <2>1. \A p \in asked : \E r \in Requests : req[r].pay = p /\ req[r].answer \in Results
    BY DEF IInv, ApiInv, AskedInv
  <2>2. ASSUME call.pc = "done", req[Own].answer \in Results, client # "recipe"
        PROVE  call.outcome = req[Own].answer
    <3>1. req[Own].pc = "free" => req[Own].answer = "none"
      BY ClientAssumption, FreeType DEF IInv, ApiInv, ReqInv, ReqOK
    <3>2. req[Own].pc # "free"
      BY <2>2, <3>1 DEF Results
    <3> QED BY <2>2, <3>2 DEF IInv, CallInv, CallOK
  <2> QED BY <2>1, <2>2 DEF PaidIsAnswered, CallAt
<1> QED BY <1>1, PaidInductive, PTL

\* The client is charged no more than its ceiling and, if it is the researcher,
\* less than what its policy escalates (checkPrice, checkPolicy), for any quote
\* and any scale.
THEOREM ChargedWithinLimitsHolds == Spec => []ChargedWithinLimits
<1>1. IInv => ChargedWithinLimits
  BY DEF IInv, CallInv, CallOK, WithinLimits, ChargedWithinLimits
<1> QED BY <1>1, PaidInductive, PTL

\* An escalated action is answered ALLOW exactly when a human approved that
\* request, and the recipe executes only what was answered ALLOW (server.ts,
\* DashboardApprover, recipes/verify-before-you-swap.ts).
THEOREM EscalatedNeedsClickHolds == Spec => []EscalatedNeedsClick
<1>1. IInv => EscalatedNeedsClick
  <2> SUFFICES ASSUME IInv PROVE EscalatedNeedsClick
    OBVIOUS
  <2>1. ASSUME NEW r \in Requests,
               req[r].decision = "REQUIRE_APPROVAL", req[r].answer # "none"
        PROVE  req[r].answer = "ALLOW" <=> r \in clicked
    <3>1. req[r] \in ReqType /\ ReqOK(r, req[r], gate, policy, clicked)
      BY OfRequest DEF IInv
    <3>2. req[r].pc \in {"settling", "answered"}
      BY <2>1, <3>1, FreeType DEF ReqOK, ReqType, ReqPcs
    <3> QED BY <2>1, <3>1, <3>2 DEF ReqOK
  <2>2. call.outcome = "executed" => req[Fallback].answer = "ALLOW"
    BY DEF IInv, CallInv, CallOK
  <2> QED BY <2>1, <2>2 DEF EscalatedNeedsClick
<1> QED BY <1>1, PaidInductive, PTL

\* The trail is in order, and what holds of its parts' records holds of its own.
LEMMA TrailRecords ==
  ASSUME IInv
  PROVE  /\ Increasing(AuditTrail)
         /\ \A i \in DOMAIN AuditTrail : RecOK(AuditTrail[i], req, recorded)
<1> DEFINE older == topic \o submitting
<1>0. /\ AuditShape
      /\ AllOK(queue, req, recorded) /\ AllOK(submitting, req, recorded)
      /\ AllOK(topic, req, recorded)
  BY DEF IInv, ApiInv, AuditInv
<1>1. /\ older \in Seq(RecType) /\ Increasing(older)
      /\ \A i \in DOMAIN older : \/ \E j \in DOMAIN topic : older[i] = topic[j]
                                 \/ \E j \in DOMAIN submitting : older[i] = submitting[j]
  BY <1>0, ConcatRecords DEF AuditShape
<1> HIDE DEF older
<1>2. Before(older, queue)
  BY <1>0, <1>1 DEF AuditShape, Before
<1>3. /\ Increasing(older \o queue)
      /\ \A i \in DOMAIN (older \o queue) :
           \/ \E j \in DOMAIN older : (older \o queue)[i] = older[j]
           \/ \E j \in DOMAIN queue : (older \o queue)[i] = queue[j]
  BY <1>0, <1>1, <1>2, ConcatRecords DEF AuditShape
<1>4. \A i \in DOMAIN older : RecOK(older[i], req, recorded)
  BY <1>0, <1>1, Zenon DEF AllOK
<1>5. \A i \in DOMAIN (older \o queue) : RecOK((older \o queue)[i], req, recorded)
  BY <1>0, <1>3, <1>4, Zenon DEF AllOK
<1>6. AuditTrail = older \o queue
  BY DEF AuditTrail, older
<1> QED BY <1>3, <1>5, <1>6

\* Each audit record carries its request's verdict and, unless the policy was
\* replaced while the request waited, the hash of the policy that gave it
\* (publishAudit in routes/index.ts).
THEOREM AuditNamesPolicyHolds == Spec => []AuditNamesPolicy
<1>1. IInv => AuditNamesPolicy
  BY TrailRecords DEF AuditNamesPolicy, RecOK
<1> QED BY <1>1, PaidInductive, PTL

\* Records reach the topic once each and in the order they were written, and no
\* record waits without a flush that will take it (hcsAudit.ts).
THEOREM AuditInOrderHolds == Spec => []AuditInOrder
<1>1. IInv => AuditInOrder
  <2> SUFFICES ASSUME IInv PROVE AuditInOrder
    OBVIOUS
  <2>1. queue # <<>> => flushing /\ submitting # <<>>
    BY DEF IInv, ApiInv, AuditInv, AuditShape
  <2> QED BY <2>1, TrailRecords DEF AuditInOrder, Increasing
<1> QED BY <1>1, PaidInductive, PTL
=============================================================================
