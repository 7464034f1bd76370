-------------------------- MODULE MCSimulatedAccount --------------------------
EXTENDS Trader

CONSTANTS router, stranger

MCAddr == {Asset, Account, router, stranger}

\* A loose policy, one with a floor, and one whose operation ceiling is below
\* the daily limit, with and without the account itself on the allowlist.
MCConfigs ==
  {[maxTransaction |-> m, dailyLimit |-> d, minBalance |-> f, allowedTargets |-> t] :
     m \in {1, 2}, d \in {2, 3}, f \in {0, 2}, t \in {{router}, {router, Account}}}

\* A proportionate proposal and one above every ceiling.
MCTranscript == <<1, 3>>
=============================================================================
