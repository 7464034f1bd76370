----------------------------- MODULE SpendBudget -----------------------------
(***************************************************************************)
(* What the policy hook promises its owner, with nothing of how it keeps   *)
(* the promise: while a policy is in force, an operation takes at most     *)
(* maxTransaction out of the account, and the operations of one UTC day    *)
(* take at most dailyLimit together.  Adopting a policy starts a new       *)
(* budget, and so does the next day.                                       *)
(***************************************************************************)
EXTENDS Integers

CONSTANT Policies    \* records with at least maxTransaction and dailyLimit

VARIABLES
  policy,   \* the set holding the policy in force, or the empty set
  today,    \* the UTC day
  out       \* what operations took out of the account today

vars == <<policy, today, out>>

Init == /\ policy = {}
        /\ today \in Nat
        /\ out = 0

Adopt == /\ policy = {}
         /\ \E p \in Policies : policy' = {p}
         /\ out' = 0
         /\ UNCHANGED today

Drop == /\ policy' = {}
        /\ out' = 0
        /\ UNCHANGED today

\* One operation, however many calls it makes, takes n out of the account.
Spend ==
  /\ \E p \in policy :
       /\ 0 <= out' - out /\ out' - out <= p.maxTransaction
       /\ out' <= p.dailyLimit
  /\ UNCHANGED <<policy, today>>

Tomorrow == /\ today' = today + 1
            /\ out' = 0
            /\ UNCHANGED policy

Next == Adopt \/ Drop \/ Spend \/ Tomorrow

Spec == Init /\ [][Next]_vars
=============================================================================
