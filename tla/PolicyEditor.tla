----------------------------- MODULE PolicyEditor -----------------------------
(***************************************************************************)
(* The limits as an operator edits them: the console's settings drawer     *)
(* (components/PolicySettings.tsx, lib/usdc.ts), PUT /v1/policy            *)
(* (packages/api/src/server.ts, applyPolicyPatch in routes/index.ts) and   *)
(* the file the process boots from (src/index.ts).                         *)
(*                                                                         *)
(* writeFile is three asynchronous steps: open, which truncates, write,    *)
(* close.  A document is its policies block; its hash is the document.     *)
(***************************************************************************)
EXTENDS PolicyEngine, FiniteSets

CONSTANTS
  Document,     \* the document the process first boots with
  Unit,         \* base units in one unit of the asset (10^6)
  Edits,        \* what is typed in the form: a key and a displayed amount
  Editors,      \* consoles with the drawer open, one PUT at a time each
  MaxEdits,     \* bound: edits accepted
  Torn          \* a file that is no document: truncated, or two writes mixed

AmountKeys == {"maxTransaction", "dailySpend", "approvalThreshold", "minBalance"}

VARIABLES
  policy,      \* the policy served: policy, engine and context of server.ts
  file,        \* agent.policy.json
  edit,        \* each PUT: where it is, the document it validated, what was typed
  edits,       \* edits accepted so far
  form,        \* each drawer: where it is, its fields, and what it was told
  intended,    \* history: the last amount the operators typed for each limit
  overlapped,  \* history: a PUT was accepted before another was answered
  staleForm,   \* history: a form was submitted over a policy it had not shown
  tornWrite,   \* history: a write failed, or the process died in one
  up           \* the API process runs

editVars == <<policy, file, edit, edits, overlapped, tornWrite, intended, up>>
editorVars == <<editVars, form, staleForm>>

NoEdit == [pc |-> "idle", doc |-> Document, key |-> "dailySpend",
           amount |-> [whole |-> 0, fraction |-> 0]]

Editing(e) == edit[e].pc # "idle"
Quiet == \A e \in Editors : ~Editing(e)
EditStep(e, pc) == edit' = [edit EXCEPT ![e].pc = pc]

-----------------------------------------------------------------------------
(* Amounts: base units on the wire and in the file, units in the form *)

toDisplay(n) == [whole |-> n \div Unit, fraction |-> n % Unit]

\* mutant: the fraction is dropped.
WholeUnits(d) == d.whole * Unit

toBaseUnits(d) == d.whole * Unit + d.fraction

\* mutant: any amount is taken.
AnyAmount(n) == TRUE

\* An amount of less than one unit is taken for a display-unit mistake.
parseBaseUnitPolicyAmount(n) == n = 0 \/ n >= Unit

\* resolvePolicy, with the parser in front of it.
resolvePolicy(doc) ==
  resolvable(doc) /\ \A k \in AmountKeys : parseBaseUnitPolicyAmount(doc[k])

\* A document is a record whose amounts were accepted; what is typed has no more
\* decimals than the asset; a torn file is no such record.
ASSUME EditorAssumption ==
  /\ Unit \in Nat \ {0} /\ MaxEdits \in Nat /\ Editors # {}
  /\ Document = [k \in DOMAIN Document |-> Document[k]]
  /\ AmountKeys \cup {"allowedContracts"} \subseteq DOMAIN Document
  /\ \A k \in AmountKeys : Document[k] \in Nat
  /\ resolvePolicy(Document)
  /\ \A change \in Edits :
       change.key \in AmountKeys /\ change.amount \in [whole: Nat, fraction: 0..(Unit - 1)]
  /\ Torn \notin [DOMAIN Document -> Nat \cup {Document[k] : k \in DOMAIN Document}]

-----------------------------------------------------------------------------
(* The drawer *)

\* fromLimits: the amounts as text.
fromLimits(doc) == [k \in AmountKeys |-> toDisplay(doc[k])]

NoForm == [pc |-> "closed", fields |-> fromLimits(Document), hash |-> Document,
           agrees |-> FALSE]

\* Opened, once per console: the form is filled from GET /v1/policy.
openDrawer(e) ==
  /\ up /\ form[e].pc = "closed"
  /\ form' = [form EXCEPT ![e] = [NoForm EXCEPT !.pc = "open", !.fields = fromLimits(policy)]]
  /\ UNCHANGED <<editVars, staleForm>>

\* Every field is sent, changed or not.
patchOf(fields) == [k \in AmountKeys |-> toBaseUnits(fields[k])]

\* applyPolicyPatch: the patched keys over the rest of the policy in memory.
applyPolicyPatch(doc, patch) ==
  [k \in DOMAIN doc |-> IF k \in DOMAIN patch THEN patch[k] ELSE doc[k]]

\* Submit, and the PUT up to its first await.  What resolvePolicy refuses is a
\* 400 and changes nothing.
submit(e, key, amount) ==
  LET doc == applyPolicyPatch(policy, patchOf([form[e].fields EXCEPT ![key] = amount]))
  IN
  /\ up /\ form[e].pc \in {"open", "saved"} /\ ~Editing(e) /\ edits < MaxEdits
  /\ resolvePolicy(doc)
  /\ edits' = edits + 1
  /\ overlapped' = (overlapped \/ ~Quiet)
  /\ staleForm' = (staleForm \/ form[e].fields # fromLimits(policy))
  /\ edit' = [edit EXCEPT ![e] = [pc |-> "opening", doc |-> doc, key |-> key, amount |-> amount]]
  /\ form' = [form EXCEPT ![e].pc = "saving"]
  /\ UNCHANGED <<policy, file, tornWrite, intended, up>>

\* The console gives up after 10 s; the PUT goes on.
submitTimesOut(e) ==
  /\ form[e].pc = "saving"
  /\ form' = [form EXCEPT ![e].pc = "open"]
  /\ UNCHANGED <<editVars, staleForm>>

-----------------------------------------------------------------------------
(* PUT /v1/policy *)

openFile(e) ==
  /\ edit[e].pc = "opening"
  /\ EditStep(e, "writing")
  /\ file' = Torn
  /\ UNCHANGED <<policy, edits, overlapped, tornWrite, intended, form, staleForm, up>>

\* mutant: what is written is the policy still in memory.
WriteServed(e) ==
  /\ edit[e].pc = "writing"
  /\ EditStep(e, "closing")
  /\ file' = policy
  /\ UNCHANGED <<policy, edits, overlapped, tornWrite, intended, form, staleForm, up>>

\* With another write to the same file under way the two may mix.
writeFile(e) ==
  /\ edit[e].pc = "writing"
  /\ EditStep(e, "closing")
  /\ \/ file' = edit[e].doc
     \/ file' = Torn /\ \E f \in Editors \ {e} : edit[f].pc \in {"writing", "closing"}
  /\ UNCHANGED <<policy, edits, overlapped, tornWrite, intended, form, staleForm, up>>

\* The await ends: policy, engine and context are swapped together, and the
\* name is asked what it publishes.
swapPolicy(e) ==
  /\ edit[e].pc = "closing"
  /\ policy' = edit[e].doc
  /\ intended' = [intended EXCEPT ![edit[e].key] = edit[e].amount]
  /\ EditStep(e, "checking")
  /\ UNCHANGED <<file, edits, overlapped, tornWrite, form, staleForm, up>>

\* open or write rejects: the route answers 500 and serves what it served.
writeFails(e) ==
  /\ edit[e].pc \in {"opening", "writing"}
  /\ edit' = [edit EXCEPT ![e] = NoEdit]
  /\ form' = [form EXCEPT ![e].pc = IF @ = "saving" THEN "open" ELSE @]
  /\ tornWrite' = (tornWrite \/ edit[e].pc = "writing")
  /\ UNCHANGED <<policy, file, edits, overlapped, intended, staleForm, up>>

\* The answer shows the document of this PUT and the hash served by now,
\* and whether the name agrees with that hash.
answerPut(e, agrees) ==
  /\ edit[e].pc = "checking"
  /\ edit' = [edit EXCEPT ![e] = NoEdit]
  /\ form' = [form EXCEPT ![e] =
       IF @.pc = "saving" THEN [pc |-> "saved", fields |-> fromLimits(edit[e].doc),
                                hash |-> policy, agrees |-> agrees]
       ELSE @]
  /\ UNCHANGED <<policy, file, edits, overlapped, tornWrite, intended, staleForm, up>>

editStep(e) ==
  \/ openDrawer(e) \/ submitTimesOut(e)
  \/ \E change \in Edits : submit(e, change.key, change.amount)
  \/ openFile(e) \/ writeFile(e) \/ swapPolicy(e) \/ writeFails(e)

\* The process dies, and boots again if its file is a document.
restart ==
  /\ up
  /\ up' = (file # Torn)
  /\ edit' = [e \in Editors |-> NoEdit]
  /\ form' = [e \in Editors |-> [form[e] EXCEPT !.pc = IF @ = "saving" THEN "open" ELSE @]]
  /\ tornWrite' = (tornWrite \/ \E e \in Editors : edit[e].pc = "writing")
  /\ policy' = IF file = Torn THEN policy ELSE file
  /\ intended' = fromLimits(policy')
  /\ UNCHANGED <<file, edits, overlapped, staleForm>>

InitEditor ==
  /\ policy = Document /\ file = Document
  /\ edit = [e \in Editors |-> NoEdit] /\ edits = 0
  /\ form = [e \in Editors |-> NoForm]
  /\ intended = fromLimits(Document)
  /\ overlapped = FALSE /\ staleForm = FALSE /\ tornWrite = FALSE
  /\ up = TRUE

-----------------------------------------------------------------------------
\* "writes back to the same file this process booted from" (index.ts): once no
\* PUT is under way the file holds the policy that is served, through failed
\* writes and restarts, and a restart always finds a policy to serve, unless two
\* PUTs overlapped or a write was cut short.
SavedIsServed == ~overlapped /\ ~tornWrite => up /\ (Quiet => file = policy)

\* No limit an operator set is lost: whatever was saved, timed out, failed or
\* restarted, each limit served has the last value it was given, and a console
\* that says "saved" shows the limits of the hash it reports; unless two PUTs
\* overlapped, or a form was submitted over a policy it had not shown, which
\* sends the old values of every other field back (PolicySettings.submit).
EditsKept ==
  ~overlapped /\ ~staleForm =>
    /\ fromLimits(policy) = intended
    /\ \A e \in Editors :
         form[e].pc = "saved" => form[e].fields = fromLimits(form[e].hash)
=============================================================================
