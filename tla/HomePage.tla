-------------------------------- MODULE HomePage --------------------------------
(***************************************************************************)
(* The landing page's self-playing demonstration:                          *)
(* components/LiveDemo.tsx.  Every pass of its effect asks the API about   *)
(* the scene on screen; the fetch has no timeout and is not cancelled.     *)
(***************************************************************************)
EXTENDS DashboardApi

CONSTANTS
  HomeAsks,   \* the verify calls this page can make
  Scenes      \* the number of scenes

ASSUME HomeAssumption == HomeAsks \subseteq Asks /\ Scenes \in Nat \ {0, 1}

VARIABLES
  scene,      \* sceneIndex
  paused,
  asked,      \* the scene each call under way was made for
  shown,      \* the answer on screen: the call it answers, or "none"
  shownFor,   \* the scene that call was made for
  overtaken   \* history: calls still open, or on screen under the pointer, when
              \* the scene changed

homeVars == <<scene, paused, asked, shown, shownFor, overtaken>>

NoScene == Scenes

InFlight == {id \in HomeAsks : asked[id] # NoScene}

\* mutant: the last verdict is left on screen.
VerdictKept == UNCHANGED <<shown, shownFor>>

clearVerdict == shown' = "none" /\ shownFor' = NoScene

\* The effect: timers cleared, lights off, no verdict, and a call for scene s.
play(s, id) ==
  /\ Fresh(HomeAsks, id)
  /\ scene' = s /\ clearVerdict
  /\ asked' = [asked EXCEPT ![id] = s]
  /\ overtaken' = overtaken \cup InFlight
  /\ verify(id) \/ verifyLost(id)

\* The first pass and the addresses arriving run the effect for the scene on
\* screen; the last timer of a pass and a click on another scene change it.
replays(id) == ~paused /\ play(scene, id) /\ UNCHANGED paused

changes(s, id) == ~paused /\ s # scene /\ play(s, id) /\ UNCHANGED paused

resumes(id) == paused /\ paused' = FALSE /\ play(scene, id)

\* Under the pointer nothing plays: the timers are cleared, the scene, its
\* verdict and the calls under way stay; another scene may still be chosen.
pauses ==
  /\ ~paused /\ paused' = TRUE
  /\ UNCHANGED <<apiVars, scene, asked, shown, shownFor, overtaken>>

changesPaused(s) ==
  /\ paused /\ s # scene /\ scene' = s
  /\ overtaken' = overtaken \cup InFlight \cup {shown}
  /\ UNCHANGED <<apiVars, paused, asked, shown, shownFor>>

\* An answer arrives and is shown, whichever scene is on screen by then.  An error
\* status takes the verdict away; a call that failed outright changes nothing.
answers(id) ==
  /\ id \in InFlight /\ ask[id] \in Final
  /\ asked' = [asked EXCEPT ![id] = NoScene]
  /\ IF ask[id] # "lost" THEN shown' = id /\ shownFor' = asked[id]
     ELSE clearVerdict \/ UNCHANGED <<shown, shownFor>>
  /\ UNCHANGED <<apiVars, scene, paused, overtaken>>

InitHome ==
  /\ scene = 0 /\ paused = FALSE
  /\ asked = [id \in HomeAsks |-> NoScene]
  /\ shown = "none" /\ shownFor = NoScene /\ overtaken = {}

homeStep ==
  \/ \E id \in HomeAsks : replays(id) \/ resumes(id) \/ answers(id)
  \/ \E s \in 0..(Scenes - 1) : changesPaused(s) \/ \E id \in HomeAsks : changes(s, id)
  \/ pauses
=============================================================================
