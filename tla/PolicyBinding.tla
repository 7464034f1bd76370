----------------------------- MODULE PolicyBinding -----------------------------
(***************************************************************************)
(* The three publishers of a policy and those who trust them: the file     *)
(* (PolicyEditor), the agent's ENS name (contracts/src/                    *)
(* AgentSubnameRegistrar.sol, read by identity/ENSIdentity.ts) and the     *)
(* hook (scripts/install-hook.ts), compared when an agent starts           *)
(* (createAgentProof in core/AgentProof.ts, HookEnforcer.ts).              *)
(*                                                                         *)
(* The ENS resolver is external: it lets an address write a text record it *)
(* was given the role for.  The registrar itself holds every role.         *)
(***************************************************************************)
EXTENDS PolicyEditor

CONSTANTS
  People,       \* addresses that can own the registrar
  Session,      \* the agent's session key
  Unset,        \* no hash: not registered, not installed, not cached
  MaxEvents     \* bound: transactions and restarts of the API

\* No hash is no document either.
ASSUME BindingAssumption ==
  /\ Session \notin People /\ MaxEvents \in Nat
  /\ Unset \notin [DOMAIN Document -> Nat \cup {Document[k] : k \in DOMAIN Document}]

VARIABLES
  owner,       \* AgentSubnameRegistrar.owner
  booked,      \* agents[label].policyHash, or Unset
  roles,       \* who may write each text record at the resolver
  text,        \* the text records of the name
  installed,   \* the hash in the hook's config, or Unset
  cached,      \* the API's cached policy record, or Unset
  agent,       \* the agent process: where its startup is, and its policy
  everOwner,   \* history: who has owned the registrar
  repointed,   \* history: who changed the published policy once registered
  published,   \* history: the policies the name has published
  events       \* transactions and restarts so far

nameVars == <<owner, booked, roles, text, everOwner, repointed, published>>
bindVars == <<nameVars, installed, cached, agent, events>>
vars == <<editorVars, bindVars>>

Registered == booked # Unset

event == events < MaxEvents /\ events' = events + 1

\* A write of the policy record.
Repoint(who, doc) ==
  /\ text' = [text EXCEPT !.policy = doc]
  /\ published' = published \cup {doc}
  /\ repointed' = IF Registered THEN repointed \cup {who} ELSE repointed

-----------------------------------------------------------------------------
(* AgentSubnameRegistrar *)

\* mutant: the session key is given the policy record too.
SessionHoldsAll(who) == [policy |-> {who, Session}, status |-> {Session}]

\* The roles registerAgent authorises at the resolver.
rolesFor(who) == [policy |-> {who}, status |-> {Session}]

registerAgent(who, doc) ==
  /\ event
  /\ who = owner /\ ~Registered
  /\ booked' = doc
  /\ roles' = rolesFor(who)
  /\ text' = [policy |-> doc, status |-> "active"]
  /\ published' = published \cup {doc}
  /\ UNCHANGED <<editorVars, owner, everOwner, repointed, installed, cached, agent>>

setPolicyHash(who, doc) ==
  /\ event
  /\ Registered /\ who = owner
  /\ Repoint(who, doc)
  /\ booked' = doc
  /\ UNCHANGED <<editorVars, owner, roles, everOwner, installed, cached, agent>>

\* A startup under way learns nothing; one begun later is to be refused.
suspend(who) ==
  /\ event
  /\ Registered /\ (who = Session \/ who = owner)
  /\ text' = [text EXCEPT !.status = "suspended"]
  /\ UNCHANGED <<editorVars, owner, booked, roles, everOwner, repointed, published,
                 installed, cached, agent>>

transferOwnership(who, next) ==
  /\ event
  /\ who = owner
  /\ owner' = next /\ everOwner' = everOwner \cup {next}
  /\ UNCHANGED <<editorVars, booked, roles, text, repointed, published,
                 installed, cached, agent>>

-----------------------------------------------------------------------------
(* The resolver (external): setText by whoever holds the role *)

setPolicyText(who, doc) ==
  /\ event
  /\ Registered /\ who \in roles.policy
  /\ Repoint(who, doc)
  /\ UNCHANGED <<editorVars, owner, booked, roles, everOwner, installed, cached, agent>>

\* The role for the status record allows both values.
setStatusText(who, status) ==
  /\ event
  /\ Registered /\ who \in roles.status
  /\ text' = [text EXCEPT !.status = status]
  /\ agent' = IF status = "active" THEN [agent EXCEPT !.halted = FALSE] ELSE agent
  /\ UNCHANGED <<editorVars, owner, booked, roles, everOwner, repointed, published,
                 installed, cached>>

-----------------------------------------------------------------------------
(* The hook *)

\* install-hook.ts on the file as it is.  An installed hook is not replaced:
\* the account is not among its own allowed targets, so the script stops.
installHook ==
  /\ event
  /\ installed = Unset /\ file # Torn
  /\ installed' = file
  /\ UNCHANGED <<editorVars, nameVars, cached, agent>>

-----------------------------------------------------------------------------
(* createAgentProof *)

Stopped == [pc |-> "stopped", doc |-> Document, halted |-> FALSE]

AgentStep(from, pc) == agent.pc = from /\ agent' = [agent EXCEPT !.pc = pc]
AgentOnly == UNCHANGED <<editorVars, nameVars, installed, cached, events>>

\* The policy is loaded and resolved; a file that is no document throws.
startAgent ==
  /\ AgentOnly
  /\ agent.pc = "stopped" /\ file # Torn
  /\ agent' = [pc |-> "asking", doc |-> file, halted |-> text.status = "suspended"]

\* resolvePolicyHash: an empty record is no hash, and throws.
bindName == AgentOnly /\ text.policy = agent.doc /\ AgentStep("asking", "named")

\* mutant: the status is read and not looked at.
AnyStatus == AgentOnly /\ AgentStep("named", "active")

\* resolveStatus: no record counts as active.
bindStatus == AgentOnly /\ text.status # "suspended" /\ AgentStep("named", "active")

\* mutant: an account without a hook is accepted.
HookOptional ==
  AgentOnly /\ installed \in {agent.doc, Unset} /\ AgentStep("active", "running")

\* assertInstalledPolicyHash.
bindHook == AgentOnly /\ installed = agent.doc /\ AgentStep("active", "running")

\* Any mismatch or failed read throws; a running agent is stopped by its host.
agentEnds == AgentOnly /\ agent.pc # "stopped" /\ agent' = Stopped

-----------------------------------------------------------------------------
(* The API's own view of the name *)

\* ENSIdentity.text: the cached record while it is fresh.
resolved == IF cached = Unset THEN text.policy ELSE cached

\* mutant: the name is taken to agree with whatever is served.
AlwaysMatches(hash) == TRUE

matchesLocal(hash) == resolved = hash

\* PUT's last step resolves the name; a failure, or a name without the record,
\* leaves the answer without a comparison.
putAnswered(e) ==
  /\ \/ resolved # Unset /\ cached' = resolved /\ answerPut(e, matchesLocal(policy))
     \/ UNCHANGED cached /\ answerPut(e, FALSE)
  /\ UNCHANGED <<nameVars, installed, agent, events>>

\* The record is older than its time to live.
expire ==
  /\ cached # Unset /\ cached' = Unset
  /\ UNCHANGED <<editorVars, nameVars, installed, agent, events>>

apiRestarts ==
  /\ event /\ restart /\ cached' = Unset
  /\ UNCHANGED <<nameVars, installed, agent>>

edited ==
  /\ \E e \in Editors : editStep(e)
  /\ UNCHANGED bindVars

-----------------------------------------------------------------------------
\* Before registration, or with Document registered and installed.
Init ==
  /\ InitEditor
  /\ owner \in People /\ everOwner = {owner}
  /\ \/ /\ booked = Unset /\ installed = Unset /\ published = {}
        /\ roles = [policy |-> {}, status |-> {}]
        /\ text = [policy |-> Unset, status |-> "none"]
     \/ /\ booked = Document /\ installed = Document /\ published = {Document}
        /\ roles = rolesFor(owner)
        /\ text = [policy |-> Document, status |-> "active"]
  /\ cached = Unset /\ agent = Stopped
  /\ repointed = {}
  /\ events = 0

\* What is published is the policy served at that time.
chainStep ==
  \/ \E who \in People \cup {Session} :
       \/ registerAgent(who, policy) \/ setPolicyHash(who, policy)
       \/ setPolicyText(who, policy)
       \/ suspend(who)
       \/ \E next \in People : transferOwnership(who, next)
       \/ \E status \in {"active", "suspended"} : setStatusText(who, status)
  \/ installHook

agentStep == startAgent \/ bindName \/ bindStatus \/ bindHook \/ agentEnds

Next ==
  \/ edited \/ (\E e \in Editors : putAnswered(e))
  \/ chainStep \/ agentStep \/ expire \/ apiRestarts

Spec == Init /\ [][Next]_vars

-----------------------------------------------------------------------------
(* Properties *)

\* Every variable stays in its range; in particular what is served, validated,
\* published or installed is a policy resolvePolicy accepts, without an amount
\* that could be a display unit.
TypeOK ==
  LET Good(doc) == /\ resolvable(doc)
                   /\ \A k \in AmountKeys : doc[k] \in Nat /\ doc[k] \notin 1..(Unit - 1)
  IN
  /\ Good(policy) /\ (file = Torn \/ Good(file))
  /\ \A e \in Editors : Good(edit[e].doc) /\ edit[e].pc \in
       {"idle", "opening", "writing", "closing", "checking"}
  /\ \A e \in Editors : form[e].pc \in {"closed", "open", "saving", "saved"}
  /\ \A doc \in {booked, text.policy, installed, cached} : doc = Unset \/ Good(doc)
  /\ owner \in everOwner /\ everOwner \subseteq People
  /\ text.status \in {"none", "active", "suspended"}
  /\ agent.pc \in {"stopped", "asking", "named", "active", "running"}

\* "It does not run" (createAgentProof): a running agent's policy is the one the
\* hook enforces, still, and one its name has published; whatever was edited,
\* repointed, restarted or transferred in the meantime.
RunningIsBound ==
  agent.pc = "running" => agent.doc = installed /\ agent.doc \in published

\* "Suspension is a kill switch" (AgentProof.ts): a process started while the
\* name says suspended never comes to run, unless the holder of the status
\* record, the session key, has set it back to active in between.
SuspendedStaysDown == agent.pc = "running" => ~agent.halted

\* "only a human can repoint the policy" (AgentSubnameRegistrar): whoever changed
\* what the name publishes has owned the registrar.  A former owner is among
\* them: transferOwnership leaves the resolver's roles where they were.
OwnersRepoint == repointed \subseteq everOwner

\* "That is reported, not hidden" (PolicySettings): a console is told that ENS
\* agrees only if the name published that very hash, now or, the record being
\* cached, before.
AgreementIsReal ==
  \A e \in Editors : form[e].pc = "saved" /\ form[e].agrees => form[e].hash \in published
=============================================================================
