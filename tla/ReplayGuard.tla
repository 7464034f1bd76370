----------------------------- MODULE ReplayGuard -----------------------------
(***************************************************************************)
(* packages/api/src/x402/replay.ts: which payment payloads were used.      *)
(* The Map is a sequence, oldest claim first; a digest is the payload      *)
(* itself.                                                                 *)
(***************************************************************************)
EXTENDS Integers, SequencesExt

CONSTANTS
  Payments,   \* payment payloads
  TtlMs,      \* how long a claim is remembered
  MaxClaims   \* how many claims are kept when a new one arrives

\* "none" marks a request without a payload.
ASSUME ReplayAssumption == TtlMs \in Nat /\ MaxClaims \in Nat /\ "none" \notin Payments

VARIABLES
  seen,   \* claims, in order of insertion
  now     \* Date.now()

Claimed(claims) == {claims[i].key : i \in DOMAIN claims}

\* The prefix of claims past their time, up to the first that is not.
expired(claims, t) ==
  {i \in DOMAIN claims : \A j \in 1..i : t - claims[j].at > TtlMs}

evict(claims, t) ==
  LET fresh == {i \in DOMAIN claims : i \notin expired(claims, t)}
      drop == {i \in DOMAIN claims : Len(claims) - i >= MaxClaims}
      kept == fresh \ drop
      first == CHOOSE i \in kept : \A j \in kept : i <= j
  IN  IF kept = {} THEN <<>> ELSE SubSeq(claims, first, Len(claims))

\* mutant: a claim of a payload already seen succeeds, and is renewed.
ClaimAlways(p) ==
  /\ seen' = Append(SelectSeq(evict(seen, now), LAMBDA c : c.key # p),
                    [key |-> p, at |-> now])

\* claim() returned true.
claim(p) ==
  /\ p \notin Claimed(evict(seen, now))
  /\ seen' = Append(evict(seen, now), [key |-> p, at |-> now])

\* claim() returned false; what was too old is gone all the same.
claimRefused(p) ==
  /\ p \in Claimed(evict(seen, now))
  /\ seen' = evict(seen, now)

\* Map.delete: the entry of that key, if it has one still.
release(p) ==
  IF p \in Claimed(seen)
    THEN \E i \in DOMAIN seen : seen[i].key = p /\ seen' = RemoveAt(seen, i)
    ELSE UNCHANGED seen

ReplayTypeOK ==
  /\ now \in Nat
  /\ seen \in Seq([key: Payments, at: Nat])
  /\ Len(seen) <= MaxClaims + 1
=============================================================================
