------------------------------- MODULE HcsAudit -------------------------------
(***************************************************************************)
(* packages/api/src/x402/hcsAudit.ts: records wait in a queue and one      *)
(* flush at a time takes them to the Hedera topic, which is external.      *)
(* flush() runs without an await from one submission to the next.          *)
(***************************************************************************)
EXTENDS Integers, Sequences

VARIABLES
  queue,       \* records not yet handed to the submitter
  flushing,    \* a flush is running
  submitting,  \* the record that flush is waiting for, in a sequence
  topic        \* the last record the topic took, in a sequence

auditVars == <<queue, flushing, submitting, topic>>

\* The loop shifts the next record, or ends and lowers the flag.
flushOn(waiting) ==
  IF waiting = <<>>
    THEN queue' = <<>> /\ submitting' = <<>> /\ flushing' = FALSE
    ELSE queue' = Tail(waiting) /\ submitting' = <<Head(waiting)>> /\ flushing' = TRUE

\* record(): queue it, and flush unless a flush is running.
record(rec) ==
  /\ IF flushing
       THEN queue' = Append(queue, rec) /\ UNCHANGED <<flushing, submitting>>
       ELSE flushOn(Append(queue, rec))
  /\ UNCHANGED topic

\* mutant: the flag comes down after each submission and the loop is not resumed.
SubmitOnce(ok) ==
  /\ submitting # <<>>
  /\ topic' = IF ok THEN submitting ELSE topic
  /\ flushing' = FALSE /\ submitting' = <<>> /\ UNCHANGED queue

\* The submission settles.  A failed one drops its record.
submitted(ok) ==
  /\ submitting # <<>>
  /\ topic' = IF ok THEN submitting ELSE topic
  /\ flushOn(queue)

InitAudit == queue = <<>> /\ flushing = FALSE /\ submitting = <<>> /\ topic = <<>>
=============================================================================
