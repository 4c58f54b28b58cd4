--------------------------- MODULE SimulationRun ---------------------------
(***************************************************************************)
(* What becomes of one scenario: the play inside the simulation container, *)
(* scene by scene, the file it leaves behind, the transcript the runner    *)
(* makes of that file, and the checks that decide whether the play counts. *)
(*                                                                         *)
(* Texts are reduced to what the checks tell apart: nothing was said, the  *)
(* stock phrase was said, or something nobody else says.  The runner's     *)
(* pool and Docker are in SimulationRunner, the gatekeeper, which is asked *)
(* between coherence and the judge, in SubmissionPipeline.                 *)
(***************************************************************************)
EXTENDS Integers, Sequences, FiniteSets

CONSTANTS
  Agents,       \* the agents of the scenarios
  Scenarios,    \* the configs that have passed the schema
  BlankSteps,   \* how many steps of a chain of thought may be blank
  MinEvents,    \* min_events of validate_coherence
  MaxEvents,    \* MAX_TRANSCRIPT_EVENTS
  FaultModels,  \* the sets of faults a behaviour may be subject to
  None          \* no agent

Modes == {"decision", "reflection"}

\* The chain of thought: what an agent is made to reason about before it acts.
COT_STEPS ==
  <<"situation_perception", "self_perception", "theory_of_mind", "self_interest",
    "other_interest", "neutral_observer">>

CotSteps == Len(COT_STEPS)

\* What ScenarioConfig and the schema require.
Legal(s) ==
  /\ Len(s.order) = 2 /\ s.order[1] # s.order[2]
  /\ Len(s.scenes) \in 1 .. 10
  /\ \A n \in DOMAIN s.scenes :
       /\ s.scenes[n].steps \in 1 .. 5
       /\ s.scenes[n].chooser \in {s.order[1], s.order[2], None}

ASSUME SimulationAssumption ==
  /\ None \notin Agents /\ IsFiniteSet(Agents)
  /\ BlankSteps \subseteq 0 .. CotSteps
  /\ MinEvents \in Nat /\ MaxEvents \in Nat
  /\ Scenarios \subseteq
       [order : Seq(Agents), philosophical : SUBSET Agents,
        scenes : Seq([steps : Nat, mode : Modes, chooser : Agents \union {None}])]
  /\ \A s \in Scenarios : Legal(s) /\ Agents = {s.order[1], s.order[2]}
  /\ FaultModels \subseteq
       SUBSET {"silence", "repetition", "blank", "error", "death", "timeout", "size", "judge"}

\* The defaults of the code, 5 and 10000, suit the plays of the schema: the
\* shortest has five events, the longest ten scenes of fourteen.
ASSUME LimitsAssumption == MinEvents <= 5 /\ MaxEvents >= 140

VARIABLES
  scenario,    \* the config; never changes
  judging,     \* semantic coherence is enabled and there is an LLM; never changes
  faults,      \* the faults this behaviour is subject to; never changes
  at,          \* where the container's program is
  embedder,    \* what embeds the agents' memories
  scene,       \* scene_idx + 1
  step,        \* step
  turn,        \* whose turn it is, in the order of the agents
  events,      \* the events so far
  completed,   \* whether the play came to its end
  heard,       \* heard[a]: what a observed: the Premise, and indices into events
  output,      \* output.json
  stage,       \* the pipeline's stage
  transcript,  \* the transcript made of the output
  opinions     \* what the judge said

setupVars == <<scenario, judging, faults>>
placeVars == <<scene, step, turn>>
playVars == <<embedder, placeVars, events, completed, heard>>
verdictVars == <<stage, transcript, opinions>>
vars == <<setupVars, at, playVars, output, verdictVars>>

\* The texts: two stock ones, and one of its own for every event.
Silent == 0
Stock == 1
Fresh == Len(events) + 2

Events ==
  [type : {"scene_start", "narration", "action", "reflection", "forced_choice", "scene_end"},
   agent : Agents \union {None}, text : Nat, blanks : 0 .. CotSteps, scene : Nat, step : Nat]

Answers == {"yes", "no", "error"}

NoOpinion == [relevant |-> {}, meaningful |-> {}, aligned |-> {}]

TypeOK ==
  /\ scenario \in Scenarios /\ judging \in BOOLEAN /\ faults \in FaultModels
  /\ at \in {"build", "open", "act", "choose", "close", "write", "flush", "exited", "dead"}
  /\ embedder \in {"api", "hash"}
  /\ scene \in DOMAIN scenario.scenes
  /\ step \in 0 .. scenario.scenes[scene].steps
  /\ turn \in DOMAIN scenario.order
  /\ at = "act" => step < scenario.scenes[scene].steps
  /\ events \in Seq(Events)
  /\ completed \in BOOLEAN
  /\ heard \in [Agents -> Seq(Nat)]
  /\ output \in [state : {"missing", "torn", "whole"}, events : Seq(Events), completed : BOOLEAN]
  /\ stage \in {"simulate", "judge", "passed", "rejected"}
  /\ transcript \in Seq(Events)
  /\ opinions \in [relevant : SUBSET Answers, meaningful : SUBSET (Nat \X Answers),
                   aligned : SUBSET (Agents \X Answers)]

Init ==
  /\ scenario \in Scenarios /\ judging \in BOOLEAN /\ faults \in FaultModels
  /\ at = "build" /\ embedder = "hash"
  /\ scene = 1 /\ step = 0 /\ turn = 1
  /\ events = <<>> /\ completed = FALSE /\ heard = [a \in Agents |-> <<>>]
  /\ output = [state |-> "missing", events |-> <<>>, completed |-> FALSE]
  /\ stage = "simulate" /\ transcript = <<>> /\ opinions = NoOpinion

-----------------------------------------------------------------------------
(***************************************************************************)
(* The play, in one thread.  An exception ends it, so that it makes no     *)
(* difference which of an event and its observations came first.           *)
(***************************************************************************)

Scene == scenario.scenes[scene]

Event(type, agent, text, blanks) ==
  [type |-> type, agent |-> agent, text |-> text, blanks |-> blanks, scene |-> scene, step |-> step]

Observe(listeners, e) ==
  heard' = [a \in Agents |-> IF a \in listeners THEN Append(heard[a], e) ELSE heard[a]]

\* What the LLM may make an agent say.
Texts ==
  {Fresh} \union (IF "silence" \in faults THEN {Silent} ELSE {})
          \union (IF "repetition" \in faults THEN {Stock} ELSE {})

\* _extract_cot: single components may have answered nothing; if the log
\* cannot be read, all of them count as blank.
Blanks == {0} \union IF "blank" \in faults THEN BlankSteps \union {CotSteps} ELSE {}

\* Shared context and tension, which come before all events.
Premise == 0

\* _create_embedder falls back to hashes if the API has no embeddings.
Embedders == {"api", "hash"}

\* The agents, each with its chain of components and its memory.
Build ==
  /\ at = "build"
  /\ embedder' \in Embedders
  /\ Observe(Agents, Premise)
  /\ at' = "open"
  /\ UNCHANGED <<setupVars, placeVars, events, completed, output, verdictVars>>

OpenScene ==
  /\ at = "open"
  /\ events' = events \o <<Event("scene_start", None, Fresh, 0), Event("narration", None, Fresh, 0)>>
  /\ Observe(Agents, Len(events) + 2)
  /\ at' = "act"
  /\ UNCHANGED <<setupVars, embedder, placeVars, completed, output, verdictVars>>

\* Variant: the turn is not reset for the next step.
PassTurnOn ==
  IF turn < Len(scenario.order) THEN turn' = turn + 1 /\ UNCHANGED <<step, at>>
  ELSE /\ turn' = turn + 1 /\ step' = step + 1
       /\ at' = IF step + 1 < Scene.steps THEN "act" ELSE "choose"

\* The next agent, the next step, or the end of the steps.
PassTurn ==
  IF turn < Len(scenario.order) THEN turn' = turn + 1 /\ UNCHANGED <<step, at>>
  ELSE /\ turn' = 1 /\ step' = step + 1
       /\ at' = IF step + 1 < Scene.steps THEN "act" ELSE "choose"

Act ==
  /\ at = "act"
  /\ \E text \in Texts, blanks \in Blanks :
       LET actor == scenario.order[turn] IN
         /\ events' = Append(events,
              Event(IF Scene.mode = "reflection" THEN "reflection" ELSE "action", actor, text, blanks))
         /\ Observe(Agents \ {actor}, Len(events) + 1)
  /\ PassTurn
  /\ UNCHANGED <<setupVars, embedder, scene, completed, output, verdictVars>>

\* Variant: as with actions, only the others observe the choice.
ChooseUnheard ==
  /\ at = "choose" /\ Scene.chooser # None
  /\ \E text \in Texts, blanks \in Blanks :
       events' = Append(events, Event("forced_choice", Scene.chooser, text, blanks))
  /\ Observe(Agents \ {Scene.chooser}, Len(events) + 1)
  /\ at' = "close"
  /\ UNCHANGED <<setupVars, embedder, placeVars, completed, output, verdictVars>>

\* A forced choice, observed by the one who made it as well.
Choose ==
  /\ at = "choose" /\ Scene.chooser # None
  /\ \E text \in Texts, blanks \in Blanks :
       events' = Append(events, Event("forced_choice", Scene.chooser, text, blanks))
  /\ Observe(Agents, Len(events) + 1)
  /\ at' = "close"
  /\ UNCHANGED <<setupVars, embedder, placeVars, completed, output, verdictVars>>

CloseScene ==
  /\ at = "close" \/ (at = "choose" /\ Scene.chooser = None)
  /\ events' = Append(events, Event("scene_end", None, Fresh, 0))
  /\ IF scene < Len(scenario.scenes)
     THEN scene' = scene + 1 /\ step' = 0 /\ at' = "open" /\ UNCHANGED completed
     ELSE completed' = TRUE /\ at' = "write" /\ UNCHANGED <<scene, step>>
  /\ UNCHANGED <<setupVars, embedder, turn, heard, output, verdictVars>>

\* Where the LLM or, to embed a memory, the API is called.
CallsOut ==
  \/ at \in {"build", "act"}
  \/ at = "choose" /\ Scene.chooser # None
  \/ at = "open" /\ embedder = "api"

\* Any exception: the output is one event that tells of it.
Raise ==
  /\ "error" \in faults /\ CallsOut
  /\ events' = <<[Event("narration", None, Stock, 0) EXCEPT !.scene = 1, !.step = 0]>>
  /\ at' = "write"
  /\ UNCHANGED <<setupVars, embedder, placeVars, completed, heard, output, verdictVars>>

\* The file is opened, and then it is written: not atomically.
OpenOutput ==
  /\ at = "write"
  /\ output' = [output EXCEPT !.state = "torn"]
  /\ at' = "flush"
  /\ UNCHANGED <<setupVars, playVars, verdictVars>>

WriteOutput ==
  /\ at = "flush"
  /\ output' = [state |-> "whole", events |-> events, completed |-> completed]
  /\ at' = "exited"
  /\ UNCHANGED <<setupVars, playVars, verdictVars>>

\* Out of memory, a full disk, a setup that cannot be read, a killed daemon.
Die ==
  /\ "death" \in faults /\ at \notin {"exited", "dead"}
  /\ at' = "dead"
  /\ UNCHANGED <<setupVars, playVars, output, verdictVars>>

-----------------------------------------------------------------------------
(***************************************************************************)
(* The structural checks of a transcript.                                  *)
(***************************************************************************)

\* extract_transcript cuts off a list that is too long; the entrypoint only
\* writes types of events it knows.
Extracted(es) == SubSeq(es, 1, IF Len(es) < MaxEvents THEN Len(es) ELSE MaxEvents)

Of(t, types) == {i \in DOMAIN t : t[i].type \in types}

ContentEvents(t) == Of(t, {"action", "reflection"})

Choices(t) == Of(t, {"forced_choice"})

Participants(t) == {t[i].agent : i \in DOMAIN t} \ {None}

Saying(t) == {i \in ContentEvents(t) : t[i].text # Silent}

EnoughSaid(t) ==
  /\ \A i \in Choices(t) : t[i].text # Silent
  /\ 10 * Cardinality(ContentEvents(t) \ Saying(t)) <= 3 * Cardinality(ContentEvents(t))

Varied(t) == 2 * Cardinality({t[i].text : i \in Saying(t)}) >= Cardinality(Saying(t))

Reasoned(t) == \A i \in ContentEvents(t) : 2 * t[i].blanks <= CotSteps

\* Variant: more than the minimum is asked for.
CoherentAbove(t, done) ==
  /\ done /\ Len(t) > MinEvents
  /\ Participants(t) = Agents
  /\ EnoughSaid(t) /\ Varied(t) /\ Reasoned(t)

\* validate_coherence: no reason is found against the transcript.
Coherent(t, done) ==
  /\ done /\ Len(t) >= MinEvents
  /\ Participants(t) = Agents
  /\ EnoughSaid(t) /\ Varied(t) /\ Reasoned(t)

-----------------------------------------------------------------------------
(***************************************************************************)
(* The runner and the pipeline.                                            *)
(***************************************************************************)

\* wait raises, after the timeout or because the connection to Docker broke;
\* the container is killed, if that succeeds, and whatever it wrote is lost.
TimesOut ==
  /\ stage = "simulate" /\ "timeout" \in faults
  /\ stage' = "rejected"
  /\ at' \in {at, "dead"}
  /\ UNCHANGED <<setupVars, playVars, output, transcript, opinions>>

Ended == stage = "simulate" /\ at \in {"exited", "dead"}

\* No file, no JSON, or more than 10 MB of it.
NoResult ==
  /\ Ended
  /\ output.state # "whole" \/ "size" \in faults
  /\ stage' = "rejected"
  /\ UNCHANGED <<setupVars, at, playVars, output, transcript, opinions>>

ReadResult ==
  /\ Ended /\ output.state = "whole"
  /\ transcript' = Extracted(output.events)
  /\ stage' = IF Coherent(transcript', output.completed) THEN "judge" ELSE "rejected"
  /\ UNCHANGED <<setupVars, at, playVars, output, opinions>>

Unjudged ==
  /\ stage = "judge" /\ ~ judging
  /\ stage' = "passed"
  /\ UNCHANGED <<setupVars, at, playVars, output, transcript, opinions>>

MayAnswer == {"yes"} \union IF "judge" \in faults THEN {"no", "error"} ELSE {}

\* The agents whose philosophy is asked about.
Philosophers ==
  {a \in scenario.philosophical : \E i \in ContentEvents(transcript) \union Choices(transcript) :
                                    transcript[i].agent = a}

\* Every question is asked, whatever the answers to the others, after the
\* structural checks were made again.  A judge that does not answer is one
\* that says no.
Judge ==
  /\ stage = "judge" /\ judging
  /\ \E relevant \in MayAnswer, meaningful \in [Choices(transcript) -> MayAnswer],
        aligned \in [Philosophers -> MayAnswer] :
       /\ opinions' = [relevant |-> {relevant},
                       meaningful |-> {<<i, meaningful[i]>> : i \in Choices(transcript)},
                       aligned |-> {<<a, aligned[a]>> : a \in Philosophers}]
       /\ stage' = IF /\ Coherent(transcript, output.completed)
                      /\ relevant = "yes"
                      /\ \A i \in Choices(transcript) : meaningful[i] = "yes"
                      /\ \A a \in Philosophers : aligned[a] = "yes"
                   THEN "passed" ELSE "rejected"
  /\ UNCHANGED <<setupVars, at, playVars, output, transcript>>

-----------------------------------------------------------------------------
Play == Build \/ OpenScene \/ Act \/ Choose \/ CloseScene

Next ==
  \/ Play \/ Raise \/ OpenOutput \/ WriteOutput \/ Die
  \/ TimesOut \/ NoResult \/ ReadResult \/ Unjudged \/ Judge

Spec == Init /\ [][Next]_vars

-----------------------------------------------------------------------------
(***************************************************************************)
(* Properties.                                                             *)
(***************************************************************************)

Concerns(a, e) ==
  \/ e.type \in {"narration", "forced_choice"}
  \/ e.type \in {"action", "reflection"} /\ e.agent # a

(***************************************************************************)
(* While a play goes on, and when it has come to its end, every agent has  *)
(* observed the premise, the narrations, the choices and whatever the      *)
(* other has done, all of it once and in order: nobody reasons about a     *)
(* play of which it missed a part.                                         *)
(***************************************************************************)
EveryoneHeardEverything ==
  at \in {"open", "act", "choose", "close"} \/ completed =>
    \A a \in Agents :
      /\ {heard[a][i] : i \in DOMAIN heard[a]} =
           {Premise} \union {e \in DOMAIN events : Concerns(a, events[e])}
      /\ \A i, j \in DOMAIN heard[a] : i < j => heard[a][i] < heard[a][j]

\* The line of an event in the script of its scenario.
Line(type, agent, sc, st) == [type |-> type, agent |-> agent, scene |-> sc, step |-> st]

Script ==
  UNION {LET s == scenario.scenes[n] IN
           {Line("scene_start", None, n, 0), Line("narration", None, n, 0),
            Line("scene_end", None, n, s.steps)}
           \union {Line(IF s.mode = "reflection" THEN "reflection" ELSE "action", a, n, k) :
                     a \in Agents, k \in 0 .. s.steps - 1}
           \union (IF s.chooser = None THEN {} ELSE {Line("forced_choice", s.chooser, n, s.steps)})
         : n \in DOMAIN scenario.scenes}

LineOf(e) == Line(e.type, e.agent, e.scene, e.step)

WholePlay(t) ==
  /\ {LineOf(t[i]) : i \in DOMAIN t} = Script
  /\ \A i, j \in DOMAIN t : i # j => LineOf(t[i]) # LineOf(t[j])
  /\ \A i, j \in DOMAIN t : i < j =>
       t[i].scene < t[j].scene \/ (t[i].scene = t[j].scene /\ t[i].step <= t[j].step)

(***************************************************************************)
(* A simulation passes only if its transcript is the whole play, every     *)
(* line of the script once and in order, whenever the container died and   *)
(* whatever it left, if no agent kept silent throughout, and if the judge, *)
(* where there is one, upheld every choice and every philosophy of the     *)
(* scenario; and where nothing goes wrong none is rejected, not even the   *)
(* shortest the schema allows.                                             *)
(***************************************************************************)
VerdictJust ==
  /\ stage = "passed" =>
       /\ WholePlay(transcript)
       /\ \A a \in Agents : \E i \in Saying(transcript) : transcript[i].agent = a
       /\ judging =>
            /\ opinions.relevant = {"yes"}
            /\ \A n \in DOMAIN scenario.scenes : scenario.scenes[n].chooser # None =>
                 \E i \in DOMAIN transcript :
                   /\ LineOf(transcript[i]).type = "forced_choice" /\ transcript[i].scene = n
                   /\ <<i, "yes">> \in opinions.meaningful
            /\ \A a \in scenario.philosophical : <<a, "yes">> \in opinions.aligned
  /\ stage = "rejected" => faults # {}

=============================================================================
