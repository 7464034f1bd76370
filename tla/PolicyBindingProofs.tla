-------------------------- MODULE PolicyBindingProofs --------------------------
(***************************************************************************)
(* The file, the form, the name and the hook, for every policy, every      *)
(* unit, any number of consoles, edits, owners and restarts.               *)
(***************************************************************************)
EXTENDS PolicyBinding, TLAPS

\* Documents differ from the first one in their values only.
Docs == [DOMAIN Document -> Nat \cup {Document[k] : k \in DOMAIN Document}]

Good(doc) == /\ resolvable(doc)
             /\ \A k \in AmountKeys : doc[k] \in Nat /\ doc[k] \notin 1..(Unit - 1)

Accepted(doc) == doc \in Docs /\ Good(doc)

\* An amount as it is typed and shown, and a form full of them.
Display == [whole: Nat, fraction: 0..(Unit - 1)]
Fields == [AmountKeys -> Display]

EditPcs == {"idle", "opening", "writing", "closing", "checking"}
FormPcs == {"closed", "open", "saving", "saved"}
AgentPcs == {"stopped", "asking", "named", "active", "running"}

EditType == [pc: EditPcs, doc: {doc \in Docs : Good(doc)}, key: AmountKeys,
             amount: Display]
FormType == [pc: FormPcs, fields: Fields, hash: Docs, agrees: BOOLEAN]

EditorTypes ==
  /\ Accepted(policy)
  /\ file = Torn \/ Accepted(file)
  /\ edit \in [Editors -> EditType]
  /\ form \in [Editors -> FormType]
  /\ intended \in Fields

\* Without an overlap one PUT at most is under way.
OneEdit ==
  ~overlapped => \A e, f \in Editors : Editing(e) /\ Editing(f) => e = f

\* Where the file stands at each step of a PUT that nothing disturbed.
FileFollows ==
  ~overlapped /\ ~tornWrite =>
    /\ up
    /\ Quiet => file = policy
    /\ \A e \in Editors :
         /\ edit[e].pc \in {"opening", "checking"} => file = policy
         /\ edit[e].pc = "closing" => file = edit[e].doc

\* Where the limits stand at each step of a PUT.
LimitsFollow ==
  ~overlapped /\ ~staleForm =>
    /\ fromLimits(policy) = intended
    /\ \A e \in Editors :
         /\ edit[e].pc \in {"opening", "writing", "closing"} =>
              fromLimits(edit[e].doc)
                = [intended EXCEPT ![edit[e].key] = edit[e].amount]
         /\ edit[e].pc = "checking" => policy = edit[e].doc
         /\ form[e].pc = "saved" => form[e].fields = fromLimits(form[e].hash)

EditorInv == EditorTypes /\ OneEdit /\ FileFollows /\ LimitsFollow

-----------------------------------------------------------------------------
(* Amounts *)

\* Division with remainder is unique.
LEMMA DivisionUnique ==
  ASSUME NEW u \in Nat \ {0}, NEW w \in Nat, NEW f \in 0..(u - 1)
  PROVE  (w * u + f) \div u = w /\ (w * u + f) % u = f
OBVIOUS

\* A natural number has a display.
LEMMA DisplayType ==
  ASSUME NEW n \in Nat
  PROVE  toDisplay(n) \in Display
BY EditorAssumption DEF toDisplay, Display

\* What is typed survives the way to base units and back.
LEMMA RoundTrip ==
  ASSUME NEW d \in Display
  PROVE  toBaseUnits(d) \in Nat /\ toDisplay(toBaseUnits(d)) = d
<1>1. Unit \in Nat \ {0} /\ d.whole \in Nat /\ d.fraction \in 0..(Unit - 1)
      /\ d = [whole |-> d.whole, fraction |-> d.fraction]
  BY EditorAssumption DEF Display
<1>2. d.whole * Unit \in Nat
  BY <1>1
<1>3. toBaseUnits(d) \in Nat /\ toBaseUnits(d) = d.whole * Unit + d.fraction
  BY <1>1, <1>2 DEF toBaseUnits
<1>4. /\ toBaseUnits(d) \div Unit = d.whole
      /\ toBaseUnits(d) % Unit = d.fraction
  BY <1>1, <1>3, DivisionUnique
<1> QED BY <1>1, <1>3, <1>4 DEF toDisplay

-----------------------------------------------------------------------------
(* Documents *)

\* The first document is accepted, and neither mark is a document.
LEMMA DocumentFacts == Accepted(Document) /\ Torn \notin Docs /\ Unset \notin Docs
<1>1. Document \in Docs
  BY EditorAssumption DEF Docs
<1>2. Good(Document)
  BY EditorAssumption DEF Good, resolvePolicy, parseBaseUnitPolicyAmount
<1> QED BY <1>1, <1>2, EditorAssumption, BindingAssumption DEF Accepted, Docs

\* The amounts of an accepted document can be shown.
LEMMA LimitsType ==
  ASSUME NEW doc, Accepted(doc)
  PROVE  fromLimits(doc) \in Fields
BY DisplayType DEF Accepted, Good, fromLimits, Fields

\* A patch made of a form's fields gives a document that shows those fields,
\* and is accepted if resolvePolicy accepts it.
LEMMA PatchFacts ==
  ASSUME NEW doc, Accepted(doc), NEW fields \in Fields
  PROVE  LET new == applyPolicyPatch(doc, patchOf(fields))
         IN  /\ fromLimits(new) = fields
             /\ resolvePolicy(new) => Accepted(new)
<1> DEFINE new == applyPolicyPatch(doc, patchOf(fields))
<1>1. /\ DOMAIN doc = DOMAIN Document /\ AmountKeys \subseteq DOMAIN doc
      /\ \A k \in DOMAIN doc : doc[k] \in Nat \cup {Document[j] : j \in DOMAIN Document}
  BY EditorAssumption DEF Accepted, Docs
<1>2. \A k \in AmountKeys : /\ patchOf(fields)[k] = toBaseUnits(fields[k])
                             /\ fields[k] \in Display
  BY DEF patchOf, Fields
<1>3. DOMAIN patchOf(fields) = AmountKeys
  BY DEF patchOf
<1>4. /\ new \in Docs
      /\ \A k \in AmountKeys : new[k] = toBaseUnits(fields[k]) /\ new[k] \in Nat
  <2>1. new = [k \in DOMAIN Document |->
                 IF k \in AmountKeys THEN toBaseUnits(fields[k]) ELSE doc[k]]
    BY <1>1, <1>2, <1>3 DEF applyPolicyPatch
  <2>2. \A k \in AmountKeys : toBaseUnits(fields[k]) \in Nat
    BY <1>2, RoundTrip
  <2> HIDE DEF new
  <2> QED BY <1>1, <2>1, <2>2 DEF Docs
<1> HIDE DEF new
<1>5. fromLimits(new) = fields
  <2>1. \A k \in AmountKeys : toDisplay(new[k]) = fields[k]
    BY <1>2, <1>4, RoundTrip
  <2>2. fields = [k \in AmountKeys |-> fields[k]]
    BY DEF Fields
  <2>3. fromLimits(new) = [k \in AmountKeys |-> fields[k]]
    BY <2>1 DEF fromLimits
  <2> QED BY <2>2, <2>3
<1>6. ASSUME resolvePolicy(new) PROVE Accepted(new)
  BY <1>4, <1>6, EditorAssumption DEF resolvePolicy, parseBaseUnitPolicyAmount, Accepted, Good
<1> QED BY <1>5, <1>6 DEF new

-----------------------------------------------------------------------------
(* The editor *)

\* The process boots with its first document and every drawer closed.
LEMMA EditorInit == InitEditor => EditorInv
<1> SUFFICES ASSUME InitEditor PROVE EditorInv
  OBVIOUS
<1>1. Accepted(Document) /\ fromLimits(Document) \in Fields
  BY DocumentFacts, LimitsType
<1>2. NoEdit \in EditType
  BY <1>1, EditorAssumption DEF NoEdit, EditType, EditPcs, Display, AmountKeys, Accepted
<1>3. NoForm \in FormType
  BY <1>1 DEF NoForm, FormType, FormPcs, Accepted
<1>4. EditorTypes
  BY <1>1, <1>2, <1>3 DEF InitEditor, EditorTypes
<1>5. \A e \in Editors : edit[e].pc = "idle" /\ form[e].pc = "closed"
  BY DEF InitEditor, NoEdit, NoForm
<1> QED
  BY <1>4, <1>5
  DEF InitEditor, EditorInv, OneEdit, FileFollows, LimitsFollow, Editing

\* Every step keeps the types of the editor's variables.
LEMMA EditorTypesStep ==
  ASSUME EditorInv, NEW e \in Editors,
         editStep(e) \/ (\E agrees \in BOOLEAN : answerPut(e, agrees)) \/ restart
  PROVE  EditorTypes'
<1>0. /\ Accepted(policy) /\ (file = Torn \/ Accepted(file))
      /\ edit \in [Editors -> EditType] /\ form \in [Editors -> FormType]
      /\ intended \in Fields
  BY DEF EditorInv, EditorTypes
<1>1. Accepted(Document) /\ fromLimits(Document) \in Fields
      /\ fromLimits(policy) \in Fields /\ policy \in Docs
  BY <1>0, DocumentFacts, LimitsType DEF Accepted
<1>2. NoEdit \in EditType
  BY <1>1, EditorAssumption DEF NoEdit, EditType, EditPcs, Display, AmountKeys, Accepted
<1>3. \A x \in EditType, pc \in EditPcs : [x EXCEPT !.pc = pc] \in EditType
  BY DEF EditType
<1>4. \A x \in FormType, pc \in FormPcs : [x EXCEPT !.pc = pc] \in FormType
  BY DEF FormType
<1>5. Accepted(edit[e].doc) /\ edit[e].key \in AmountKeys /\ edit[e].amount \in Display
  BY <1>0 DEF EditType, Accepted
<1>6. CASE openDrawer(e)
  <2>1. [NoForm EXCEPT !.pc = "open", !.fields = fromLimits(policy)] \in FormType
    BY <1>1 DEF NoForm, FormType, FormPcs, Accepted
  <2> QED BY <1>0, <1>6, <2>1 DEF openDrawer, editVars, EditorTypes
<1>7. CASE submitTimesOut(e)
  BY <1>0, <1>4, <1>7 DEF submitTimesOut, editVars, EditorTypes, FormPcs
<1>8. ASSUME NEW change \in Edits, submit(e, change.key, change.amount)
      PROVE  EditorTypes'
  <2> DEFINE fields == [form[e].fields EXCEPT ![change.key] = change.amount]
             doc == applyPolicyPatch(policy, patchOf(fields))
  <2>1. change.key \in AmountKeys /\ change.amount \in Display
    BY EditorAssumption DEF Display
  <2>2. fields \in Fields
    <3>1. form[e].fields \in Fields
      BY <1>0 DEF FormType
    <3> QED BY <2>1, <3>1 DEF Fields
  <2>3. Accepted(doc)
    BY <1>0, <1>8, <2>2, PatchFacts DEF submit
  <2>4. /\ edit' = [edit EXCEPT ![e] = [pc |-> "opening", doc |-> doc,
                      key |-> change.key, amount |-> change.amount]]
        /\ form' = [form EXCEPT ![e].pc = "saving"]
        /\ UNCHANGED <<policy, file, intended>>
    BY <1>8 DEF submit
  <2> HIDE DEF doc
  <2>5. [pc |-> "opening", doc |-> doc, key |-> change.key, amount |-> change.amount]
          \in EditType
    BY <2>1, <2>3 DEF EditType, EditPcs, Accepted
  <2>6. form' \in [Editors -> FormType]
    BY <1>0, <1>4, <2>4 DEF FormPcs
  <2>7. edit' \in [Editors -> EditType]
    BY <1>0, <2>4, <2>5
  <2> QED BY <1>0, <2>4, <2>6, <2>7 DEF EditorTypes
<1>9. CASE openFile(e)
  BY <1>0, <1>3, <1>9 DEF openFile, EditStep, EditorTypes, EditPcs
<1>10. CASE writeFile(e)
  BY <1>0, <1>3, <1>5, <1>10 DEF writeFile, EditStep, EditorTypes, EditPcs
<1>11. CASE swapPolicy(e)
  <2>1. [intended EXCEPT ![edit[e].key] = edit[e].amount] \in Fields
    BY <1>0, <1>5 DEF Fields
  <2> QED
    BY <1>0, <1>3, <1>5, <1>11, <2>1 DEF swapPolicy, EditStep, EditorTypes, EditPcs
<1>12. CASE writeFails(e)
  <2>1. form[e] \in FormType /\ form[e].pc \in FormPcs
    BY <1>0 DEF FormType
  <2>2. form' \in [Editors -> FormType]
    BY <1>0, <1>4, <1>12, <2>1 DEF writeFails, FormPcs
  <2> QED BY <1>0, <1>2, <1>12, <2>2 DEF writeFails, EditorTypes
<1>13. ASSUME NEW agrees \in BOOLEAN, answerPut(e, agrees)
       PROVE  EditorTypes'
  <2>1. [pc |-> "saved", fields |-> fromLimits(edit[e].doc), hash |-> policy,
         agrees |-> agrees] \in FormType
    BY <1>1, <1>5, LimitsType DEF FormType, FormPcs
  <2>2. form' \in [Editors -> FormType] /\ edit' \in [Editors -> EditType]
    BY <1>0, <1>2, <1>13, <2>1 DEF answerPut
  <2> QED BY <1>0, <1>13, <2>2 DEF answerPut, EditorTypes
<1>14. CASE restart
  <2>1. edit' \in [Editors -> EditType]
    BY <1>2, <1>14 DEF restart
  <2>2. form' \in [Editors -> FormType]
    <3>1. \A f \in Editors : form[f] \in FormType /\ form[f].pc \in FormPcs
      BY <1>0 DEF FormType
    <3>2. \A f \in Editors :
            [form[f] EXCEPT !.pc = IF @ = "saving" THEN "open" ELSE @] \in FormType
      BY <1>4, <3>1 DEF FormPcs
    <3> QED BY <1>14, <3>2 DEF restart
  <2>3. Accepted(policy')
    BY <1>0, <1>14 DEF restart
  <2>4. intended' \in Fields
    BY <1>14, <2>3, LimitsType DEF restart
  <2> QED BY <1>0, <1>14, <2>1, <2>2, <2>3, <2>4 DEF restart, EditorTypes
<1> QED
  BY <1>6, <1>7, <1>8, <1>9, <1>10, <1>11, <1>12, <1>13, <1>14 DEF editStep

\* A PUT is accepted while another is under way only as an overlap.
LEMMA OneEditStep ==
  ASSUME EditorInv, NEW e \in Editors,
         editStep(e) \/ (\E agrees \in BOOLEAN : answerPut(e, agrees)) \/ restart
  PROVE  OneEdit'
<1>0. edit \in [Editors -> EditType] /\ OneEdit
  BY DEF EditorInv, EditorTypes
<1>1. /\ \A f \in Editors : Editing(f)' => Editing(f)
      /\ overlapped' = overlapped
      => OneEdit'
  BY <1>0 DEF OneEdit
<1>2. ASSUME NEW change \in Edits, submit(e, change.key, change.amount)
      PROVE  OneEdit'
  <2>1. /\ \A f \in Editors \ {e} : edit'[f] = edit[f]
        /\ overlapped' = (overlapped \/ ~Quiet)
    BY <1>0, <1>2 DEF submit
  <2> QED BY <2>1 DEF OneEdit, Quiet, Editing
<1>3. ASSUME edit[e].pc # "idle", \A f \in Editors \ {e} : edit'[f] = edit[f],
             overlapped' = overlapped
      PROVE  OneEdit'
  BY <1>1, <1>3 DEF Editing
<1>4. CASE openDrawer(e) \/ submitTimesOut(e)
  BY <1>1, <1>4 DEF openDrawer, submitTimesOut, editVars, Editing
<1>5. CASE openFile(e) \/ writeFile(e) \/ swapPolicy(e)
  BY <1>0, <1>3, <1>5 DEF openFile, writeFile, swapPolicy, EditStep
<1>6. CASE writeFails(e) \/ \E agrees \in BOOLEAN : answerPut(e, agrees)
  BY <1>0, <1>3, <1>6 DEF writeFails, answerPut
<1>7. CASE restart
  BY <1>1, <1>7 DEF restart, Editing, NoEdit
<1> QED BY <1>2, <1>4, <1>5, <1>6, <1>7 DEF editStep

\* Undisturbed, the file is what the policy is, or about to be: the step that
\* leaves it torn belongs to a PUT that will write it, or sets tornWrite.
LEMMA FileFollowsStep ==
  ASSUME EditorInv, NEW e \in Editors,
         editStep(e) \/ (\E agrees \in BOOLEAN : answerPut(e, agrees)) \/ restart
  PROVE  FileFollows'
<1>0. /\ edit \in [Editors -> EditType] /\ OneEdit /\ FileFollows
      /\ Accepted(policy) /\ (file = Torn \/ Accepted(file))
      /\ \A f \in Editors : Accepted(edit[f].doc) /\ edit[f].pc \in EditPcs
  BY DEF EditorInv, EditorTypes, EditType, Accepted
<1> SUFFICES ASSUME ~overlapped', ~tornWrite'
             PROVE  /\ up'
                    /\ Quiet' => file' = policy'
                    /\ \A f \in Editors :
                         /\ edit'[f].pc \in {"opening", "checking"} => file' = policy'
                         /\ edit'[f].pc = "closing" => file' = edit'[f].doc
  BY DEF FileFollows
<1>1. CASE openDrawer(e) \/ submitTimesOut(e)
  BY <1>0, <1>1 DEF openDrawer, submitTimesOut, editVars, FileFollows, Quiet, Editing
<1>2. ASSUME NEW change \in Edits, submit(e, change.key, change.amount)
      PROVE  /\ up'
             /\ Quiet' => file' = policy'
             /\ \A f \in Editors :
                  /\ edit'[f].pc \in {"opening", "checking"} => file' = policy'
                  /\ edit'[f].pc = "closing" => file' = edit'[f].doc
  <2>1. /\ Quiet /\ ~overlapped /\ ~tornWrite
        /\ UNCHANGED <<file, policy, up>>
        /\ edit'[e].pc = "opening" /\ \A f \in Editors \ {e} : edit'[f] = edit[f]
    BY <1>0, <1>2 DEF submit
  <2> QED BY <1>0, <2>1 DEF FileFollows, Quiet, Editing
<1>3. ASSUME edit[e].pc # "idle", ~overlapped
      PROVE  \A f \in Editors \ {e} : edit[f].pc = "idle"
  BY <1>0, <1>3 DEF OneEdit, Editing
<1>4. CASE openFile(e)
  <2>1. /\ \A f \in Editors \ {e} : edit'[f] = edit[f] /\ edit[f].pc = "idle"
        /\ edit'[e].pc = "writing" /\ up' = up
        /\ ~overlapped /\ ~tornWrite
    BY <1>0, <1>3, <1>4 DEF openFile, EditStep, EditType
  <2> QED BY <1>0, <2>1 DEF FileFollows, Quiet, Editing
<1>5. CASE writeFile(e)
  <2>1. /\ \A f \in Editors \ {e} : edit'[f] = edit[f] /\ edit[f].pc = "idle"
        /\ edit'[e].pc = "closing" /\ up' = up
        /\ edit'[e].doc = edit[e].doc
        /\ ~overlapped /\ ~tornWrite
    BY <1>0, <1>3, <1>5 DEF writeFile, EditStep, EditType
  <2>2. file' = edit[e].doc
    BY <1>5, <2>1 DEF writeFile
  <2> QED BY <1>0, <2>1, <2>2 DEF FileFollows, Quiet, Editing
<1>6. CASE swapPolicy(e)
  <2>1. /\ \A f \in Editors \ {e} : edit'[f] = edit[f] /\ edit[f].pc = "idle"
        /\ edit'[e].pc = "checking" /\ up' = up
        /\ policy' = edit[e].doc /\ file' = file
        /\ edit[e].pc = "closing" /\ ~overlapped /\ ~tornWrite
    BY <1>0, <1>3, <1>6 DEF swapPolicy, EditStep, EditType
  <2> QED BY <1>0, <2>1 DEF FileFollows, Quiet, Editing
<1>7. ASSUME edit[e].pc \in {"opening", "checking"}, edit' = [edit EXCEPT ![e] = NoEdit],
             UNCHANGED <<up, policy, file>>, ~overlapped, ~tornWrite
      PROVE  /\ up'
             /\ Quiet' => file' = policy'
             /\ \A f \in Editors :
                  /\ edit'[f].pc \in {"opening", "checking"} => file' = policy'
                  /\ edit'[f].pc = "closing" => file' = edit'[f].doc
  <2>1. /\ \A f \in Editors \ {e} : edit'[f] = edit[f] /\ edit[f].pc = "idle"
        /\ edit'[e].pc = "idle"
    BY <1>0, <1>3, <1>7 DEF NoEdit
  <2> QED BY <1>0, <1>7, <2>1 DEF FileFollows
<1>8. CASE writeFails(e)
  BY <1>7, <1>8 DEF writeFails
<1>9. CASE \E agrees \in BOOLEAN : answerPut(e, agrees)
  BY <1>7, <1>9 DEF answerPut
<1>10. CASE restart
  <2>1. /\ ~overlapped /\ ~tornWrite /\ file' = file
        /\ \A f \in Editors : edit[f].pc # "writing" /\ edit'[f].pc = "idle"
        /\ up' = (file # Torn) /\ policy' = IF file = Torn THEN policy ELSE file
    BY <1>10 DEF restart, NoEdit
  <2>2. file # Torn
    <3>1. CASE Quiet
      BY <1>0, <2>1, <3>1, DocumentFacts DEF FileFollows, Accepted
    <3>2. CASE ~Quiet
      BY <1>0, <2>1, <3>2, DocumentFacts
      DEF FileFollows, Accepted, Quiet, Editing, EditPcs
    <3> QED BY <3>1, <3>2
  <2> QED BY <2>1, <2>2
<1> QED
  BY <1>1, <1>2, <1>4, <1>5, <1>6, <1>8, <1>9, <1>10 DEF editStep

\* Undisturbed, a PUT carries the limits in force with the one that was typed.
LEMMA LimitsFollowStep ==
  ASSUME EditorInv, NEW e \in Editors,
         editStep(e) \/ (\E agrees \in BOOLEAN : answerPut(e, agrees)) \/ restart
  PROVE  LimitsFollow'
<1>0. /\ edit \in [Editors -> EditType] /\ form \in [Editors -> FormType]
      /\ OneEdit /\ LimitsFollow
      /\ Accepted(policy) /\ intended \in Fields
      /\ \A f \in Editors : Accepted(edit[f].doc) /\ edit[f].pc \in EditPcs
  BY DEF EditorInv, EditorTypes, EditType, Accepted
<1> DEFINE Follows(x, y, served, typed) ==
      /\ x.pc \in {"opening", "writing", "closing"} =>
           fromLimits(x.doc) = [typed EXCEPT ![x.key] = x.amount]
      /\ x.pc = "checking" => served = x.doc
      /\ y.pc = "saved" => y.fields = fromLimits(y.hash)
    FollowsNow(f) == Follows(edit[f], form[f], policy, intended)
    FollowsNext(f) == Follows(edit'[f], form'[f], policy', intended')
<1> SUFFICES ASSUME ~overlapped', ~staleForm'
             PROVE  fromLimits(policy') = intended' /\ \A f \in Editors : FollowsNext(f)
  BY DEF LimitsFollow, fromLimits
<1>1. ~overlapped /\ ~staleForm =>
        fromLimits(policy) = intended /\ \A f \in Editors : FollowsNow(f)
  BY <1>0 DEF LimitsFollow
<1>2. ASSUME edit[e].pc # "idle", ~overlapped
      PROVE  \A f \in Editors \ {e} : edit[f].pc = "idle"
  BY <1>0, <1>2 DEF OneEdit, Editing
<1>3. CASE openDrawer(e) \/ submitTimesOut(e)
  <2>1. /\ UNCHANGED <<edit, policy, intended, overlapped, staleForm>>
        /\ \A f \in Editors : form'[f] = form[f] \/ form'[f].pc = "open"
    BY <1>0, <1>3 DEF openDrawer, submitTimesOut, editVars, NoForm, FormType
  <2> QED BY <1>1, <2>1
<1>4. ASSUME NEW change \in Edits, submit(e, change.key, change.amount)
      PROVE  fromLimits(policy') = intended' /\ \A f \in Editors : FollowsNext(f)
  <2> DEFINE fields == [form[e].fields EXCEPT ![change.key] = change.amount]
             doc == applyPolicyPatch(policy, patchOf(fields))
  <2>1. /\ ~overlapped /\ ~staleForm /\ Quiet /\ form[e].fields = fromLimits(policy)
        /\ UNCHANGED <<policy, intended>>
        /\ edit' = [edit EXCEPT ![e] = [pc |-> "opening", doc |-> doc,
                     key |-> change.key, amount |-> change.amount]]
        /\ form' = [form EXCEPT ![e].pc = "saving"]
    BY <1>4 DEF submit
  <2>2. fields \in Fields
    <3>1. form[e].fields \in Fields
      BY <1>0 DEF FormType
    <3>2. change.key \in AmountKeys /\ change.amount \in Display
      BY EditorAssumption DEF Display
    <3> QED BY <3>1, <3>2 DEF Fields
  <2>3. fromLimits(doc) = fields
    BY <1>0, <2>2, PatchFacts
  <2>4. fields = [intended EXCEPT ![change.key] = change.amount]
    BY <1>1, <2>1
  <2> HIDE DEF doc, fields
  <2>5. /\ edit'[e].pc = "opening" /\ edit'[e].doc = doc
        /\ edit'[e].key = change.key /\ edit'[e].amount = change.amount
        /\ form'[e].pc = "saving"
        /\ \A f \in Editors \ {e} : edit'[f] = edit[f] /\ form'[f] = form[f]
    BY <1>0, <2>1 DEF FormType
  <2>6. FollowsNext(e)
    BY <2>1, <2>3, <2>4, <2>5
  <2>7. ASSUME NEW f \in Editors \ {e} PROVE FollowsNext(f)
    BY <1>1, <2>1, <2>5
  <2> QED BY <1>1, <2>1, <2>6, <2>7
<1>5. CASE openFile(e) \/ writeFile(e)
  <2>1. /\ UNCHANGED <<policy, intended, form, overlapped, staleForm>>
        /\ edit[e].pc \in {"opening", "writing"} /\ edit'[e].pc \in {"writing", "closing"}
        /\ edit'[e].doc = edit[e].doc /\ edit'[e].key = edit[e].key
        /\ edit'[e].amount = edit[e].amount
        /\ \A f \in Editors \ {e} : edit'[f] = edit[f]
    BY <1>0, <1>5 DEF openFile, writeFile, EditStep, EditType
  <2> QED BY <1>1, <2>1
<1>6. CASE swapPolicy(e)
  <2>1. /\ UNCHANGED <<form, overlapped, staleForm>>
        /\ policy' = edit[e].doc
        /\ intended' = [intended EXCEPT ![edit[e].key] = edit[e].amount]
        /\ edit[e].pc = "closing" /\ edit'[e].pc = "checking"
        /\ edit'[e].doc = edit[e].doc
        /\ \A f \in Editors \ {e} : edit'[f] = edit[f] /\ edit[f].pc = "idle"
    BY <1>0, <1>2, <1>6 DEF swapPolicy, EditStep, EditType
  <2> QED BY <1>1, <2>1
<1>7. CASE writeFails(e)
  <2>1. /\ UNCHANGED <<policy, intended, overlapped, staleForm>>
        /\ edit'[e].pc = "idle"
        /\ \A f \in Editors \ {e} : edit'[f] = edit[f]
        /\ \A f \in Editors : form'[f] = form[f] \/ form'[f].pc = "open"
    BY <1>0, <1>7 DEF writeFails, NoEdit, FormType
  <2> QED BY <1>1, <2>1
<1>8. ASSUME NEW agrees \in BOOLEAN, answerPut(e, agrees)
      PROVE  fromLimits(policy') = intended' /\ \A f \in Editors : FollowsNext(f)
  <2>1. /\ UNCHANGED <<policy, intended, overlapped, staleForm>>
        /\ edit[e].pc = "checking" /\ edit'[e].pc = "idle"
        /\ \A f \in Editors \ {e} : edit'[f] = edit[f] /\ form'[f] = form[f]
        /\ \/ form'[e] = form[e]
           \/ form'[e].fields = fromLimits(edit[e].doc) /\ form'[e].hash = policy
    BY <1>0, <1>8 DEF answerPut, NoEdit
  <2>2. policy = edit[e].doc
    BY <1>1, <2>1
  <2>3. FollowsNext(e)
    BY <1>1, <2>1, <2>2
  <2>4. ASSUME NEW f \in Editors \ {e} PROVE FollowsNext(f)
    BY <1>1, <2>1
  <2> QED BY <1>1, <2>1, <2>3, <2>4
<1>9. CASE restart
  <2>1. /\ UNCHANGED <<overlapped, staleForm>> /\ intended' = fromLimits(policy')
        /\ \A f \in Editors : edit'[f].pc = "idle"
        /\ \A f \in Editors : form'[f] = form[f] \/ form'[f].pc = "open"
    <3>1. ASSUME NEW f \in Editors PROVE form'[f] = form[f] \/ form'[f].pc = "open"
      BY <1>0, <1>9 DEF restart, FormType
    <3> QED BY <1>9, <3>1 DEF restart, NoEdit
  <2> QED BY <1>1, <2>1
<1> QED
  BY <1>3, <1>4, <1>5, <1>6, <1>7, <1>8, <1>9 DEF editStep

-----------------------------------------------------------------------------
(* The name, the hook and the agent *)

\* What is registered, published, installed or cached.
BindingTypes ==
  /\ \A doc \in {booked, text.policy, installed, cached} : doc = Unset \/ Accepted(doc)
  /\ text \in [policy: Docs \cup {Unset}, status: {"none", "active", "suspended"}]
  /\ agent \in [pc: AgentPcs, doc: Docs, halted: BOOLEAN]
  /\ owner \in everOwner /\ everOwner \subseteq People

\* Whoever may write the policy record has owned the registrar, and only such
\* people did.
NameInv ==
  /\ roles \in [policy: SUBSET everOwner, status: SUBSET {Session}]
  /\ repointed \subseteq everOwner
  /\ booked = Unset => text.status = "none"

\* The name, the API's copy of it and the consoles' answers speak of policies
\* that were published.
PublishedInv ==
  /\ \A doc \in {text.policy, cached} : doc = Unset \/ doc \in published
  /\ AgreementIsReal

\* What each check of createAgentProof has established, and what a change to the
\* name or the hook cannot take back.
StartupInv ==
  /\ agent.pc \in {"named", "active", "running"} => agent.doc \in published
  /\ agent.pc = "running" => agent.doc = installed
  /\ agent.pc \in {"asking", "named"} /\ agent.halted => text.status = "suspended"
  /\ agent.pc \in {"active", "running"} => ~agent.halted

BindingInv == BindingTypes /\ NameInv /\ PublishedInv /\ StartupInv

IInv == EditorInv /\ BindingInv

\* A name starts out unregistered, or as it was registered with the first
\* document.
LEMMA BindingInit == Init => BindingInv
<1> SUFFICES ASSUME Init PROVE BindingInv
  OBVIOUS
<1>1. Accepted(Document) /\ Document \in Docs /\ Unset \notin Docs
  BY DocumentFacts DEF Accepted
<1>2. BindingTypes
  BY <1>1 DEF Init, BindingTypes, Stopped, AgentPcs
<1>3. NameInv
  BY <1>1 DEF Init, NameInv, rolesFor
<1>4. PublishedInv
  BY DEF Init, InitEditor, PublishedInv, AgreementIsReal, NoForm
<1>5. StartupInv
  BY DEF Init, StartupInv, Stopped
<1> QED BY <1>2, <1>3, <1>4, <1>5 DEF BindingInv

\* What a console was told stays true: published policies stay published.
LEMMA AgreementKept ==
  ASSUME AgreementIsReal, published \subseteq published',
         \A e \in Editors : \/ form'[e].pc = "saved" => form'[e] = form[e]
                            \/ ~form'[e].agrees
  PROVE  AgreementIsReal'
BY DEF AgreementIsReal

\* A transaction of the owner, of the session key or of whoever holds a role.
LEMMA ChainStep ==
  ASSUME IInv, chainStep
  PROVE  BindingInv'
<1>0. /\ BindingTypes /\ NameInv /\ PublishedInv /\ StartupInv /\ AgreementIsReal
      /\ Accepted(policy) /\ policy \in Docs /\ Unset \notin Docs
      /\ file = Torn \/ Accepted(file)
  BY DocumentFacts DEF IInv, BindingInv, EditorInv, EditorTypes, Accepted, PublishedInv
<1>1. /\ text = [policy |-> text.policy, status |-> text.status]
      /\ agent = [pc |-> agent.pc, doc |-> agent.doc, halted |-> agent.halted]
      /\ agent.doc \in Docs /\ agent.pc \in AgentPcs /\ agent.halted \in BOOLEAN
      /\ roles = [policy |-> roles.policy, status |-> roles.status]
      /\ roles.policy \in SUBSET everOwner /\ roles.status \in SUBSET {Session}
  BY <1>0 DEF BindingTypes, NameInv
<1>2. ASSUME UNCHANGED form, published \subseteq published'
      PROVE  AgreementIsReal'
  BY <1>0, <1>2, AgreementKept
<1>3. ASSUME NEW who \in People \cup {Session}, registerAgent(who, policy)
      PROVE  BindingInv'
  <2>1. /\ booked' = policy /\ text' = [policy |-> policy, status |-> "active"]
        /\ roles' = [policy |-> {who}, status |-> {Session}] /\ who = owner
        /\ published' = published \cup {policy} /\ booked = Unset
        /\ UNCHANGED <<form, owner, everOwner, repointed, installed, cached, agent>>
    BY <1>3 DEF registerAgent, rolesFor, Registered, editorVars
  <2>2. BindingTypes'
    BY <1>0, <1>1, <2>1 DEF BindingTypes, Accepted, Docs, Good
  <2>3. NameInv'
    BY <1>0, <1>1, <2>1 DEF NameInv, BindingTypes
  <2>4. PublishedInv'
    BY <1>0, <1>2, <2>1 DEF PublishedInv
  <2>5. StartupInv'
    BY <1>0, <2>1 DEF StartupInv, NameInv
  <2> QED BY <2>2, <2>3, <2>4, <2>5 DEF BindingInv
<1>4. ASSUME NEW who \in People \cup {Session},
             setPolicyHash(who, policy) \/ setPolicyText(who, policy)
      PROVE  BindingInv'
  <2>1. /\ booked' \in {booked, policy} /\ booked # Unset
        /\ text' = [policy |-> policy, status |-> text.status]
        /\ published' = published \cup {policy} /\ who \in everOwner
        /\ repointed' = repointed \cup {who}
        /\ UNCHANGED <<form, owner, everOwner, roles, installed, cached, agent>>
    BY <1>0, <1>1, <1>4
    DEF setPolicyHash, setPolicyText, Repoint, Registered, editorVars, BindingTypes, NameInv
  <2>2. BindingTypes'
    BY <1>0, <1>1, <2>1 DEF BindingTypes, Accepted, Docs, Good
  <2>3. NameInv'
    BY <1>0, <1>1, <2>1 DEF NameInv
  <2>4. PublishedInv'
    BY <1>0, <1>2, <2>1 DEF PublishedInv
  <2>5. StartupInv'
    BY <1>0, <2>1 DEF StartupInv
  <2> QED BY <2>2, <2>3, <2>4, <2>5 DEF BindingInv
<1>5. ASSUME NEW who \in People \cup {Session},
             suspend(who) \/ \E status \in {"active", "suspended"} : setStatusText(who, status)
      PROVE  BindingInv'
  <2>1. /\ booked # Unset
        /\ \/ text' = [policy |-> text.policy, status |-> "suspended"] /\ agent' = agent
           \/ /\ text' = [policy |-> text.policy, status |-> "active"]
              /\ agent' = [pc |-> agent.pc, doc |-> agent.doc, halted |-> FALSE]
        /\ UNCHANGED <<form, owner, everOwner, roles, installed, cached, booked,
                       repointed, published>>
    BY <1>1, <1>5 DEF suspend, setStatusText, Registered, editorVars
  <2>2. BindingTypes'
    <3>1. /\ text'.policy = text.policy
          /\ text' \in [policy: Docs \cup {Unset}, status: {"none", "active", "suspended"}]
      BY <1>0, <2>1 DEF BindingTypes
    <3>2. agent' \in [pc: AgentPcs, doc: Docs, halted: BOOLEAN]
      <4>1. [pc |-> agent.pc, doc |-> agent.doc, halted |-> FALSE]
              \in [pc: AgentPcs, doc: Docs, halted: BOOLEAN]
        BY <1>1
      <4>2. agent \in [pc: AgentPcs, doc: Docs, halted: BOOLEAN]
        BY <1>0 DEF BindingTypes
      <4> QED BY <2>1, <4>1, <4>2
    <3> QED BY <1>0, <2>1, <3>1, <3>2 DEF BindingTypes, Accepted, Docs, Good
  <2>3. NameInv'
    BY <1>0, <1>1, <2>1 DEF NameInv
  <2>4. PublishedInv'
    BY <1>0, <1>2, <2>1 DEF PublishedInv
  <2>5. StartupInv'
    BY <1>0, <1>1, <2>1 DEF StartupInv
  <2> QED BY <2>2, <2>3, <2>4, <2>5 DEF BindingInv
<1>6. ASSUME NEW who \in People \cup {Session}, NEW next \in People,
             transferOwnership(who, next)
      PROVE  BindingInv'
  <2>1. /\ owner' = next /\ everOwner' = everOwner \cup {next}
        /\ UNCHANGED <<form, booked, roles, text, repointed, published, installed,
                       cached, agent>>
    BY <1>6 DEF transferOwnership, editorVars
  <2>2. BindingTypes'
    BY <1>0, <1>1, <2>1 DEF BindingTypes, Accepted, Docs, Good
  <2>3. NameInv'
    BY <1>0, <1>1, <2>1 DEF NameInv
  <2>4. PublishedInv'
    BY <1>0, <1>2, <2>1 DEF PublishedInv
  <2>5. StartupInv'
    BY <1>0, <2>1 DEF StartupInv
  <2> QED BY <2>2, <2>3, <2>4, <2>5 DEF BindingInv
<1>7. CASE installHook
  <2>1. /\ installed = Unset /\ installed' = file /\ Accepted(file)
        /\ UNCHANGED <<form, owner, everOwner, booked, roles, text, repointed, published,
                       cached, agent>>
    BY <1>0, <1>7 DEF installHook, editorVars, nameVars
  <2>2. BindingTypes'
    BY <1>0, <1>1, <2>1 DEF BindingTypes, Accepted, Docs, Good
  <2>3. NameInv'
    BY <1>0, <1>1, <2>1 DEF NameInv
  <2>4. PublishedInv'
    BY <1>0, <1>2, <2>1 DEF PublishedInv
  <2>5. StartupInv'
    BY <1>0, <1>1, <2>1 DEF StartupInv
  <2> QED BY <2>2, <2>3, <2>4, <2>5 DEF BindingInv
<1> QED BY <1>3, <1>4, <1>5, <1>6, <1>7 DEF chainStep

\* A step of createAgentProof: each check adds what it established.
LEMMA AgentStarts ==
  ASSUME IInv, agentStep
  PROVE  BindingInv'
<1>0. /\ BindingTypes /\ NameInv /\ PublishedInv /\ StartupInv /\ AgreementIsReal
      /\ file = Torn \/ file \in Docs
      /\ Document \in Docs /\ Unset \notin Docs
  BY DocumentFacts DEF IInv, BindingInv, EditorInv, EditorTypes, Accepted, PublishedInv
<1>1. /\ agent = [pc |-> agent.pc, doc |-> agent.doc, halted |-> agent.halted]
      /\ agent.doc \in Docs /\ agent.pc \in AgentPcs /\ agent.halted \in BOOLEAN
  BY <1>0 DEF BindingTypes
<1>2. UNCHANGED <<form, owner, booked, roles, text, everOwner, repointed, published,
                  installed, cached>>
  BY DEF agentStep, startAgent, bindName, bindStatus, bindHook, agentEnds, AgentOnly,
         editorVars, nameVars
<1>3. ASSUME agent' \in [pc: AgentPcs, doc: Docs, halted: BOOLEAN], StartupInv'
      PROVE  BindingInv'
  <2>1. BindingTypes'
    BY <1>0, <1>2, <1>3 DEF BindingTypes, Accepted, Docs, Good
  <2>2. NameInv'
    BY <1>0, <1>2 DEF NameInv
  <2>3. PublishedInv'
    BY <1>0, <1>2, AgreementKept DEF PublishedInv
  <2> QED BY <1>3, <2>1, <2>2, <2>3 DEF BindingInv
<1>4. CASE startAgent
  <2>1. /\ agent' = [pc |-> "asking", doc |-> file, halted |-> text.status = "suspended"]
        /\ file \in Docs
    BY <1>0, <1>4 DEF startAgent
  <2>2. agent' \in [pc: AgentPcs, doc: Docs, halted: BOOLEAN]
    BY <2>1 DEF AgentPcs
  <2>3. StartupInv'
    BY <1>2, <2>1 DEF StartupInv
  <2> QED BY <1>3, <2>2, <2>3
<1>5. CASE bindName
  <2>1. /\ agent.pc = "asking" /\ text.policy = agent.doc
        /\ agent' = [pc |-> "named", doc |-> agent.doc, halted |-> agent.halted]
    BY <1>1, <1>5 DEF bindName, AgentStep
  <2>2. agent' \in [pc: AgentPcs, doc: Docs, halted: BOOLEAN]
    BY <1>1, <2>1 DEF AgentPcs
  <2>3. agent.doc \in published
    BY <1>0, <1>1, <2>1 DEF PublishedInv
  <2>4. StartupInv'
    BY <1>0, <1>2, <2>1, <2>3 DEF StartupInv
  <2> QED BY <1>3, <2>2, <2>4
<1>6. CASE bindStatus
  <2>1. /\ agent.pc = "named" /\ text.status # "suspended"
        /\ agent' = [pc |-> "active", doc |-> agent.doc, halted |-> agent.halted]
    BY <1>1, <1>6 DEF bindStatus, AgentStep
  <2>2. agent' \in [pc: AgentPcs, doc: Docs, halted: BOOLEAN]
    BY <1>1, <2>1 DEF AgentPcs
  <2>3. StartupInv'
    BY <1>0, <1>1, <1>2, <2>1 DEF StartupInv
  <2> QED BY <1>3, <2>2, <2>3
<1>7. CASE bindHook
  <2>1. /\ agent.pc = "active" /\ installed = agent.doc
        /\ agent' = [pc |-> "running", doc |-> agent.doc, halted |-> agent.halted]
    BY <1>1, <1>7 DEF bindHook, AgentStep
  <2>2. agent' \in [pc: AgentPcs, doc: Docs, halted: BOOLEAN]
    BY <1>1, <2>1 DEF AgentPcs
  <2>3. StartupInv'
    BY <1>0, <1>1, <1>2, <2>1 DEF StartupInv
  <2> QED BY <1>3, <2>2, <2>3
<1>8. CASE agentEnds
  <2>1. agent' = [pc |-> "stopped", doc |-> Document, halted |-> FALSE]
    BY <1>8 DEF agentEnds, Stopped
  <2>2. agent' \in [pc: AgentPcs, doc: Docs, halted: BOOLEAN]
    BY <1>0, <2>1 DEF AgentPcs
  <2>3. StartupInv'
    BY <1>2, <2>1 DEF StartupInv
  <2> QED BY <1>3, <2>2, <2>3
<1> QED BY <1>4, <1>5, <1>6, <1>7, <1>8 DEF agentStep

\* A step of the API or of a console: it reads the name and leaves it alone.
LEMMA ServerStep ==
  ASSUME IInv,
         edited \/ (\E e \in Editors : putAnswered(e)) \/ expire \/ apiRestarts
           \/ UNCHANGED vars
  PROVE  BindingInv'
<1>0. /\ BindingTypes /\ NameInv /\ PublishedInv /\ StartupInv /\ AgreementIsReal
      /\ form \in [Editors -> FormType]
  BY DEF IInv, BindingInv, EditorInv, EditorTypes, PublishedInv
<1>1. UNCHANGED <<owner, booked, roles, text, everOwner, repointed, published,
                  installed, agent>>
  BY DEF edited, putAnswered, expire, apiRestarts, vars, bindVars, nameVars
<1>2. cached' \in {cached, Unset, text.policy}
  BY DEF edited, putAnswered, resolved, expire, apiRestarts, vars, bindVars
<1>3. AgreementIsReal'
  <2>1. ASSUME \A f \in Editors : form'[f].pc = "saved" => form'[f] = form[f]
        PROVE  AgreementIsReal'
    BY <1>0, <1>1, <2>1, AgreementKept
  <2>2. CASE edited
    <3>1. PICK e \in Editors : editStep(e)
      BY <2>2 DEF edited
    <3>2. \A f \in Editors : form'[f].pc = "saved" => form'[f] = form[f]
      BY <1>0, <3>1
      DEF editStep, openDrawer, submitTimesOut, submit, openFile, writeFile, swapPolicy,
          writeFails, FormType, NoForm
    <3> QED BY <2>1, <3>2
  <2>3. ASSUME NEW e \in Editors, putAnswered(e)
        PROVE  AgreementIsReal'
    <3>1. \A f \in Editors \ {e} : form'[f] = form[f]
      BY <1>0, <2>3 DEF putAnswered, answerPut
    <3>2. CASE answerPut(e, FALSE)
      <4>1. form'[e] = form[e] \/ ~form'[e].agrees
        BY <1>0, <3>2 DEF answerPut
      <4> QED BY <1>0, <1>1, <3>1, <4>1, AgreementKept
    <3>3. CASE resolved # Unset /\ answerPut(e, matchesLocal(policy))
      <4>1. \/ form'[e] = form[e]
            \/ form'[e].hash = policy /\ form'[e].agrees = (resolved = policy)
        BY <1>0, <3>3 DEF answerPut, matchesLocal
      <4>2. resolved \in published
        BY <1>0, <3>3 DEF PublishedInv, resolved
      <4> QED BY <1>0, <1>1, <3>1, <4>1, <4>2 DEF AgreementIsReal
    <3> QED BY <2>3, <3>2, <3>3 DEF putAnswered
  <2>4. CASE expire \/ UNCHANGED vars
    BY <2>1, <2>4 DEF expire, vars, editorVars
  <2>5. CASE apiRestarts
    <3>1. \A f \in Editors : form'[f] = [form[f] EXCEPT !.pc = IF @ = "saving" THEN "open" ELSE @]
      BY <2>5 DEF apiRestarts, restart
    <3>2. \A f \in Editors : form'[f].pc = "saved" => form'[f] = form[f]
      BY <1>0, <3>1 DEF FormType
    <3> QED BY <2>1, <3>2
  <2> QED BY <2>2, <2>3, <2>4, <2>5
<1>4. BindingTypes'
  BY <1>0, <1>1, <1>2 DEF BindingTypes, Accepted, Docs, Good
<1>5. NameInv'
  BY <1>0, <1>1 DEF NameInv
<1>6. PublishedInv'
  BY <1>0, <1>1, <1>2, <1>3 DEF PublishedInv
<1>7. StartupInv'
  BY <1>0, <1>1 DEF StartupInv
<1> QED BY <1>4, <1>5, <1>6, <1>7 DEF BindingInv

\* The editor's invariant holds after every step of anybody.
LEMMA EditorStep ==
  ASSUME IInv, [Next]_vars
  PROVE  EditorInv'
<1>0. EditorInv
  BY DEF IInv
<1>1. ASSUME NEW e \in Editors,
             editStep(e) \/ (\E agrees \in BOOLEAN : answerPut(e, agrees)) \/ restart
      PROVE  EditorInv'
  BY <1>0, <1>1, EditorTypesStep, OneEditStep, FileFollowsStep, LimitsFollowStep
  DEF EditorInv
<1>2. CASE UNCHANGED editorVars
  <2>1. UNCHANGED <<policy, file, edit, overlapped, tornWrite, intended, up, form, staleForm>>
    BY <1>2 DEF editorVars, editVars
  <2>2. EditorTypes'
    BY <1>0, <2>1 DEF EditorInv, EditorTypes, Accepted, Good, Docs
  <2>3. OneEdit' /\ FileFollows'
    BY <1>0, <2>1 DEF EditorInv, OneEdit, FileFollows, Editing, Quiet
  <2>4. LimitsFollow'
    BY <1>0, <2>1 DEF EditorInv, LimitsFollow, fromLimits
  <2> QED BY <2>2, <2>3, <2>4 DEF EditorInv
<1>3. CASE edited
  BY <1>1, <1>3 DEF edited
<1>4. CASE \E e \in Editors : putAnswered(e)
  <2>1. PICK e \in Editors : putAnswered(e)
    BY <1>4
  <2>2. matchesLocal(policy) \in BOOLEAN
    BY DEF matchesLocal
  <2>3. \E agrees \in BOOLEAN : answerPut(e, agrees)
    BY <2>1, <2>2 DEF putAnswered
  <2> QED BY <1>1, <2>1, <2>3
<1>5. CASE chainStep
  BY <1>2, <1>5
  DEF chainStep, registerAgent, setPolicyHash, setPolicyText, suspend, transferOwnership,
      setStatusText, installHook
<1>6. CASE agentStep
  BY <1>2, <1>6
  DEF agentStep, startAgent, bindName, bindStatus, bindHook, agentEnds, AgentOnly
<1>7. CASE expire \/ UNCHANGED vars
  BY <1>2, <1>7 DEF expire, vars
<1>8. CASE apiRestarts
  BY <1>1, <1>8, EditorAssumption DEF apiRestarts
<1> QED BY <1>3, <1>4, <1>5, <1>6, <1>7, <1>8 DEF Next

-----------------------------------------------------------------------------
(* The theorems *)

\* The invariant is inductive: the editor's part and the name's part each need
\* the other's types.
THEOREM BindingInductive == Spec => []IInv
<1>1. Init => IInv
  BY EditorInit, BindingInit DEF Init, IInv
<1>2. IInv /\ [Next]_vars => IInv'
  <2> SUFFICES ASSUME IInv, [Next]_vars PROVE IInv'
    OBVIOUS
  <2>1. BindingInv'
    BY ChainStep, AgentStarts, ServerStep DEF Next
  <2> QED BY <2>1, EditorStep DEF IInv
<1> QED BY <1>1, <1>2, PTL DEF Spec

\* Every policy served, kept, published, installed or cached is one that
\* resolvePolicy accepts, for any unit and any first document (server.ts,
\* AgentSubnameRegistrar.sol, install-hook.ts).
THEOREM BindingTypeCorrect == Spec => []TypeOK
<1>1. IInv => TypeOK
  <2> SUFFICES ASSUME IInv PROVE TypeOK
    OBVIOUS
  <2>1. Good(policy) /\ (file = Torn \/ Good(file))
    BY DEF IInv, EditorInv, EditorTypes, Accepted
  <2>2. \A e \in Editors : /\ Good(edit[e].doc) /\ edit[e].pc \in EditPcs
                           /\ form[e].pc \in FormPcs
    BY DEF IInv, EditorInv, EditorTypes, EditType, FormType
  <2>3. /\ \A doc \in {booked, text.policy, installed, cached} : doc = Unset \/ Good(doc)
        /\ owner \in everOwner /\ everOwner \subseteq People
        /\ text.status \in {"none", "active", "suspended"}
        /\ agent.pc \in AgentPcs
    BY DEF IInv, BindingInv, BindingTypes, Accepted
  <2> QED BY <2>1, <2>2, <2>3 DEF TypeOK, Good, EditPcs, FormPcs, AgentPcs
<1> QED BY <1>1, BindingInductive, PTL

\* The file and the policy served agree whenever no PUT is under way, if no two
\* PUTs overlapped and no write was cut short (PUT /v1/policy, index.ts).
THEOREM SavedIsServedHolds == Spec => []SavedIsServed
<1>1. IInv => SavedIsServed
  BY DEF IInv, EditorInv, FileFollows, SavedIsServed
<1> QED BY <1>1, BindingInductive, PTL

\* No limit an operator typed is lost on the way through the form's text, the
\* patch, the file and the answer (PolicySettings.tsx, usdc.ts,
\* applyPolicyPatch), for any unit and any number of consoles.
THEOREM EditsKeptHolds == Spec => []EditsKept
<1>1. IInv => EditsKept
  BY DEF IInv, EditorInv, LimitsFollow, EditsKept
<1> QED BY <1>1, BindingInductive, PTL

\* An agent that got past createAgentProof's checks runs under the policy its
\* hook enforces and its name published.
THEOREM RunningIsBoundHolds == Spec => []RunningIsBound
<1>1. IInv => RunningIsBound
  BY DEF IInv, BindingInv, StartupInv, RunningIsBound
<1> QED BY <1>1, BindingInductive, PTL

\* A process begun under a suspended name never runs (resolveStatus).
THEOREM SuspendedStaysDownHolds == Spec => []SuspendedStaysDown
<1>1. IInv => SuspendedStaysDown
  BY DEF IInv, BindingInv, StartupInv, SuspendedStaysDown
<1> QED BY <1>1, BindingInductive, PTL

\* Only those who have owned the registrar change what its name publishes.
THEOREM OwnersRepointHolds == Spec => []OwnersRepoint
<1>1. IInv => OwnersRepoint
  BY DEF IInv, BindingInv, NameInv, OwnersRepoint
<1> QED BY <1>1, BindingInductive, PTL

\* A console is told that the name agrees only of a policy the name published
\* (PUT's answer, ENSIdentity's cache).
THEOREM AgreementIsRealHolds == Spec => []AgreementIsReal
<1>1. IInv => AgreementIsReal
  BY DEF IInv, BindingInv, PublishedInv
<1> QED BY <1>1, BindingInductive, PTL
=============================================================================
