--------------------------- MODULE ContentProofs ---------------------------
(***************************************************************************)
(* Proofs about SimulationRun for any legal scenarios of two agents and    *)
(* every set of faults: of what the agents hear, of the verdict, for       *)
(* limits that suit the plays of the schema, and of how far a play is.     *)
(***************************************************************************)
EXTENDS SimulationRun, FiniteSetTheorems, FunctionTheorems, SequenceTheorems, TLAPS

(***************************************************************************)
(* The inductive invariant of the play.                                    *)
(***************************************************************************)

\* A scene begins with its first step.
SceneInv == at \in {"build", "open"} => step = 0

\* What an agent has observed of some events: all that concern it, in order.
HeardBy(a, es, h) ==
  /\ {h[i] : i \in DOMAIN h} = {Premise} \union {e \in DOMAIN es : Concerns(a, es[e])}
  /\ \A i, j \in DOMAIN h : i < j => h[i] < h[j]

Playing == at \in {"open", "act", "choose", "close"}

HeardInv ==
  /\ at = "build" => events = <<>> /\ heard = [a \in Agents |-> <<>>]
  /\ completed => at \in {"write", "flush", "exited", "dead"}
  /\ Playing \/ completed => \A a \in Agents : HeardBy(a, events, heard[a])

IInv == TypeOK /\ SceneInv /\ HeardInv

-----------------------------------------------------------------------------
(***************************************************************************)
(* Scenarios and events.                                                   *)
(***************************************************************************)

LEMMA CotStepsTyped == CotSteps \in Nat
BY DEF CotSteps, COT_STEPS

\* What a scenario looks like.
LEMMA ScenarioLegal ==
  ASSUME scenario \in Scenarios
  PROVE  /\ scenario.order \in Seq(Agents) /\ DOMAIN scenario.order = 1 .. 2
         /\ Len(scenario.order) = 2
         /\ DOMAIN scenario.scenes = 1 .. Len(scenario.scenes) /\ Len(scenario.scenes) \in Nat
         /\ 1 \in DOMAIN scenario.scenes
         /\ \A n \in DOMAIN scenario.scenes :
              /\ scenario.scenes[n].steps \in Nat /\ scenario.scenes[n].steps >= 1
              /\ scenario.scenes[n].chooser \in Agents \union {None}
         /\ scenario.philosophical \in SUBSET Agents
<1>1. /\ scenario \in [order : Seq(Agents), philosophical : SUBSET Agents,
                       scenes : Seq([steps : Nat, mode : Modes, chooser : Agents \union {None}])]
      /\ Legal(scenario)
  BY SimulationAssumption
<1>2. scenario.order \in Seq(Agents) /\ Len(scenario.order) = 2
  BY <1>1 DEF Legal
<1>3. /\ scenario.scenes \in Seq([steps : Nat, mode : Modes, chooser : Agents \union {None}])
      /\ Len(scenario.scenes) \in 1 .. 10
  BY <1>1 DEF Legal
<1>4. \A n \in DOMAIN scenario.scenes : scenario.scenes[n].steps \in 1 .. 5
  BY <1>1 DEF Legal
<1>5. DOMAIN scenario.order = 1 .. 2
  BY <1>2, LenProperties
<1>6. DOMAIN scenario.scenes = 1 .. Len(scenario.scenes) /\ Len(scenario.scenes) \in Nat
  BY <1>3, LenProperties
<1>7. \A n \in DOMAIN scenario.scenes : scenario.scenes[n].chooser \in Agents \union {None}
  <2>1. \A n \in DOMAIN scenario.scenes :
          scenario.scenes[n] \in [steps : Nat, mode : Modes, chooser : Agents \union {None}]
    BY <1>3, <1>6, ElementOfSeq
  <2> QED
    BY <2>1
<1>8. scenario.philosophical \in SUBSET Agents
  BY <1>1
<1>9. \A n \in DOMAIN scenario.scenes : scenario.scenes[n].steps \in Nat /\ scenario.scenes[n].steps >= 1
  BY <1>4
<1>10. 1 \in DOMAIN scenario.scenes
  <2>1. \A n \in 1 .. 10 : 1 \in 1 .. n
    OBVIOUS
  <2> QED
    BY <1>3, <1>6, <2>1, Zenon
<1> QED
  BY <1>2, <1>5, <1>6, <1>7, <1>8, <1>9, <1>10, Zenon

\* The event of the present scene and step.
LEMMA EventTyped ==
  ASSUME TypeOK,
         NEW type \in {"scene_start", "narration", "action", "reflection", "forced_choice", "scene_end"},
         NEW agent \in Agents \union {None}, NEW text \in Nat, NEW blanks \in 0 .. CotSteps
  PROVE  Event(type, agent, text, blanks) \in Events
<1>1. scene \in Nat /\ step \in Nat
  BY ScenarioLegal DEF TypeOK
<1> QED
  BY <1>1 DEF Event, Events

\* What may be said is a text, what may be blank a number of steps.
LEMMA SaidTyped ==
  ASSUME TypeOK
  PROVE  Fresh \in Nat /\ Texts \subseteq Nat /\ Blanks \subseteq 0 .. CotSteps
<1>1. Fresh \in Nat
  BY DEF Fresh, TypeOK
<1>2. Texts \subseteq Nat
  BY <1>1 DEF Texts, Silent, Stock
<1>3. Blanks \subseteq 0 .. CotSteps
  BY CotStepsTyped, SimulationAssumption DEF Blanks
<1> QED
  BY <1>1, <1>2, <1>3

LEMMA ObserveTyped ==
  ASSUME TypeOK, NEW S, NEW e \in Nat, Observe(S, e)
  PROVE  heard' \in [Agents -> Seq(Nat)]
<1>1. \A a \in Agents : heard[a] \in Seq(Nat) /\ Append(heard[a], e) \in Seq(Nat)
  BY DEF TypeOK
<1> QED
  BY <1>1 DEF Observe

LEMMA SetupStep == [Next]_vars => scenario' = scenario /\ judging' = judging /\ faults' = faults
BY Zenon DEF vars, Next, Play, Build, OpenScene, Act, Choose, CloseScene, Raise, OpenOutput, WriteOutput, Die, TimesOut,
       NoResult, ReadResult, Unjudged, Judge, setupVars

(***************************************************************************)
(* Every step keeps the types.                                             *)
(***************************************************************************)

LEMMA PassTurnTyped ==
  ASSUME TypeOK, at = "act", PassTurn
  PROVE  /\ turn' \in DOMAIN scenario.order
         /\ step' \in 0 .. Scene.steps
         /\ at' \in {"act", "choose"} /\ (at' = "act" => step' < Scene.steps)
<1>1. /\ DOMAIN scenario.order = 1 .. 2 /\ Len(scenario.order) = 2
      /\ Scene.steps \in Nat /\ Scene.steps >= 1
  BY ScenarioLegal DEF TypeOK, Scene
<1>2. turn \in 1 .. 2 /\ step \in Nat /\ step < Scene.steps
  BY <1>1 DEF TypeOK, Scene
<1> QED
  BY <1>1, <1>2 DEF PassTurn

LEMMA ExtractedTyped == \A es \in Seq(Events) : Extracted(es) \in Seq(Events)
<1> SUFFICES ASSUME NEW es \in Seq(Events) PROVE Extracted(es) \in Seq(Events)
  OBVIOUS
<1>1. Len(es) \in Nat /\ MaxEvents \in Nat
  BY SimulationAssumption
<1> QED
  BY <1>1, SubSeqProperties DEF Extracted

LEMMA OpinionsTyped ==
  ASSUME TypeOK, Judge
  PROVE  opinions' \in [relevant : SUBSET Answers, meaningful : SUBSET (Nat \X Answers),
                        aligned : SUBSET (Agents \X Answers)]
<1>1. MayAnswer \subseteq Answers
  BY DEF MayAnswer, Answers
<1>2. Choices(transcript) \subseteq Nat
  <2>1. DOMAIN transcript \subseteq Nat
    BY LenProperties DEF TypeOK
  <2> QED
    BY <2>1 DEF Choices, Of
<1>3. Philosophers \subseteq Agents
  BY ScenarioLegal DEF Philosophers, TypeOK
<1>4. PICK relevant \in MayAnswer, meaningful \in [Choices(transcript) -> MayAnswer],
           aligned \in [Philosophers -> MayAnswer] :
        opinions' = [relevant |-> {relevant},
                     meaningful |-> {<<i, meaningful[i]>> : i \in Choices(transcript)},
                     aligned |-> {<<a, aligned[a]>> : a \in Philosophers}]
  BY DEF Judge
<1>5. {<<i, meaningful[i]>> : i \in Choices(transcript)} \subseteq Nat \X Answers
  BY <1>1, <1>2
<1>6. {<<a, aligned[a]>> : a \in Philosophers} \subseteq Agents \X Answers
  BY <1>1, <1>3
<1> QED
  BY <1>1, <1>4, <1>5, <1>6

\* The part of the types that a play may change.
PlayType ==
  /\ scene \in DOMAIN scenario.scenes
  /\ step \in 0 .. Scene.steps
  /\ turn \in DOMAIN scenario.order
  /\ at = "act" => step < Scene.steps
  /\ events \in Seq(Events)

LEMMA TypeStep == TypeOK /\ SceneInv /\ [Next]_vars => TypeOK'
<1> SUFFICES ASSUME TypeOK, SceneInv, [Next]_vars PROVE TypeOK'
  OBVIOUS
<1>s. scenario' = scenario /\ judging' = judging /\ faults' = faults
  BY SetupStep
<1>n. scenario \in Scenarios /\ faults \in FaultModels
  BY DEF TypeOK
<1>j. judging' \in BOOLEAN
  BY <1>s, Zenon DEF TypeOK
<1>p. PlayType
  BY DEF PlayType, TypeOK, Scene
<1>1. PlayType'
  <2>1. CASE Build
    BY <2>1, <1>p, <1>s DEF Build, PlayType, Scene, placeVars
  <2>2. CASE OpenScene
    <3>1. Event("scene_start", None, Fresh, 0) \in Events /\ Event("narration", None, Fresh, 0) \in Events
      BY EventTyped, SaidTyped, CotStepsTyped
    <3>2. events' \in Seq(Events)
      BY <2>2, <3>1, <1>p, ConcatProperties DEF OpenScene, PlayType
    <3>3. step = 0 /\ Scene.steps >= 1 /\ Scene.steps \in Nat
      BY <2>2, ScenarioLegal DEF OpenScene, SceneInv, Scene, TypeOK
    <3>4. scene' = scene /\ step' = step /\ turn' = turn /\ Scene' = Scene
      BY <2>2, <1>s DEF OpenScene, placeVars, Scene
    <3> QED
      BY <3>2, <3>3, <3>4, <1>p, <1>s DEF PlayType
  <2>3. CASE Act
    <3>1. PICK text \in Texts, blanks \in Blanks :
            events' = Append(events, Event(IF Scene.mode = "reflection" THEN "reflection" ELSE "action",
                                           scenario.order[turn], text, blanks))
      BY <2>3 DEF Act
    <3>2. scenario.order[turn] \in Agents
      BY ScenarioLegal, ElementOfSeq DEF TypeOK
    <3>3. Event(IF Scene.mode = "reflection" THEN "reflection" ELSE "action",
                scenario.order[turn], text, blanks) \in Events
      BY <3>2, EventTyped, SaidTyped
    <3>4. events' \in Seq(Events)
      BY <3>1, <3>3, <1>p, AppendProperties DEF PlayType
    <3>5. PassTurn /\ at = "act"
      BY <2>3 DEF Act
    <3>6. scene' = scene /\ Scene' = Scene
      BY <2>3, <1>s DEF Act, Scene
    <3> QED
      BY <3>4, <3>5, <3>6, <1>p, <1>s, PassTurnTyped DEF PlayType
  <2>4. CASE Choose
    <3>1. PICK text \in Texts, blanks \in Blanks :
            events' = Append(events, Event("forced_choice", Scene.chooser, text, blanks))
      BY <2>4 DEF Choose
    <3>2. Scene.chooser \in Agents \union {None}
      BY ScenarioLegal DEF TypeOK, Scene
    <3>3. Event("forced_choice", Scene.chooser, text, blanks) \in Events
      BY <3>2, EventTyped, SaidTyped
    <3>4. events' \in Seq(Events)
      BY <3>1, <3>3, <1>p, AppendProperties DEF PlayType
    <3> QED
      BY <2>4, <3>4, <1>p, <1>s DEF Choose, PlayType, Scene, placeVars
  <2>5. CASE CloseScene
    <3>1. Event("scene_end", None, Fresh, 0) \in Events
      BY EventTyped, SaidTyped, CotStepsTyped
    <3>2. events' \in Seq(Events)
      BY <2>5, <3>1, <1>p, AppendProperties DEF CloseScene, PlayType
    <3>3. CASE scene < Len(scenario.scenes)
      <4>1. scene' = scene + 1 /\ step' = 0 /\ at' = "open" /\ turn' = turn
        BY <2>5, <3>3 DEF CloseScene
      <4>2. scene + 1 \in DOMAIN scenario.scenes
        BY <3>3, ScenarioLegal DEF TypeOK
      <4>3. Scene'.steps \in Nat
        BY <4>1, <4>2, <1>n, <1>s, ScenarioLegal DEF Scene
      <4> QED
        BY <3>2, <4>1, <4>2, <4>3, <1>p, <1>s DEF PlayType
    <3>4. CASE ~ (scene < Len(scenario.scenes))
      BY <2>5, <3>2, <3>4, <1>p, <1>s DEF CloseScene, PlayType, Scene
    <3> QED
      BY <3>3, <3>4
  <2>6. CASE Raise
    <3>1. Event("narration", None, Stock, 0) \in Events
      BY EventTyped, CotStepsTyped DEF Stock
    <3>2. [Event("narration", None, Stock, 0) EXCEPT !.scene = 1, !.step = 0] \in Events
      BY <3>1 DEF Events
    <3>3. events' \in Seq(Events)
      BY <2>6, <3>2 DEF Raise
    <3> QED
      BY <2>6, <3>3, <1>p, <1>s DEF Raise, PlayType, Scene, placeVars
  <2>7. CASE placeVars' = placeVars /\ events' = events /\ (at' = "act" => at = "act")
    BY <2>7, <1>p, <1>s DEF PlayType, Scene, placeVars
  <2> QED
    BY <2>1, <2>2, <2>3, <2>4, <2>5, <2>6, <2>7
    DEF Next, Play, vars, playVars, OpenOutput, WriteOutput, Die, TimesOut, NoResult, ReadResult, Unjudged, Judge
<1>2. heard' \in [Agents -> Seq(Nat)]
  <2>h. heard \in [Agents -> Seq(Nat)] /\ Len(events) \in Nat
    BY LenProperties DEF TypeOK
  <2>1. CASE Build
    BY <2>1, ObserveTyped DEF Build, Premise
  <2>2. CASE OpenScene
    BY <2>2, <2>h, ObserveTyped DEF OpenScene
  <2>3. CASE Act
    <3>1. Observe(Agents \ {scenario.order[turn]}, Len(events) + 1)
      BY <2>3 DEF Act
    <3> QED
      BY <3>1, <2>h, ObserveTyped
  <2>4. CASE Choose
    BY <2>4, <2>h, ObserveTyped DEF Choose
  <2>5. CASE heard' = heard
    BY <2>5, <2>h
  <2> QED
    BY <2>1, <2>2, <2>3, <2>4, <2>5
    DEF Next, Play, vars, playVars, CloseScene, Raise, OpenOutput, WriteOutput, Die, TimesOut, NoResult, ReadResult,
        Unjudged, Judge
<1>3. /\ at' \in {"build", "open", "act", "choose", "close", "write", "flush", "exited", "dead"}
      /\ embedder' \in {"api", "hash"}
      /\ stage' \in {"simulate", "judge", "passed", "rejected"}
  <2>1. CASE Act
    BY <2>1, PassTurnTyped DEF Act, TypeOK, verdictVars
  <2>2. CASE ~ Act
    BY <2>2 DEF TypeOK, Next, Play, vars, playVars, verdictVars, Build, Embedders, OpenScene, Choose, CloseScene,
       Raise, OpenOutput, WriteOutput, Die, TimesOut, NoResult, ReadResult, Unjudged, Judge
  <2> QED
    BY <2>1, <2>2
<1>4. completed' \in BOOLEAN
  <2>1. completed' = completed \/ completed' = TRUE
    BY Zenon DEF Next, Play, vars, playVars, verdictVars, Build, OpenScene, Act, Choose, CloseScene,
       Raise, OpenOutput, WriteOutput, Die, TimesOut, NoResult, ReadResult, Unjudged, Judge
  <2> QED
    BY <2>1, Zenon DEF TypeOK
<1>5. output' \in [state : {"missing", "torn", "whole"}, events : Seq(Events), completed : BOOLEAN]
  <2>1. CASE OpenOutput
    BY <2>1 DEF OpenOutput, TypeOK
  <2>2. CASE WriteOutput
    BY <2>2 DEF WriteOutput, TypeOK
  <2>3. CASE output' = output
    BY <2>3 DEF TypeOK
  <2> QED
    BY <2>1, <2>2, <2>3 DEF Next, Play, vars, verdictVars, Build, OpenScene, Act, Choose, CloseScene,
       Raise, Die, TimesOut, NoResult, ReadResult, Unjudged, Judge
<1>6. transcript' \in Seq(Events)
  <2>1. CASE ReadResult
    <3>1. output.events \in Seq(Events)
      BY DEF TypeOK
    <3> QED
      BY <2>1, <3>1, ExtractedTyped DEF ReadResult
  <2>2. CASE transcript' = transcript
    BY <2>2 DEF TypeOK
  <2> QED
    BY <2>1, <2>2 DEF Next, Play, vars, verdictVars, Build, OpenScene, Act, Choose, CloseScene,
       Raise, OpenOutput, WriteOutput, Die, TimesOut, NoResult, Unjudged, Judge
<1>7. opinions' \in [relevant : SUBSET Answers, meaningful : SUBSET (Nat \X Answers),
                     aligned : SUBSET (Agents \X Answers)]
  <2>1. CASE Judge
    BY <2>1, OpinionsTyped
  <2>2. CASE opinions' = opinions
    BY <2>2 DEF TypeOK
  <2> QED
    BY <2>1, <2>2 DEF Next, Play, vars, verdictVars, Build, OpenScene, Act, Choose, CloseScene,
       Raise, OpenOutput, WriteOutput, Die, TimesOut, NoResult, ReadResult, Unjudged
<1> QED
  BY <1>s, <1>n, <1>j, <1>1, <1>2, <1>3, <1>4, <1>5, <1>6, <1>7 DEF TypeOK, PlayType, Scene

-----------------------------------------------------------------------------
(***************************************************************************)
(* What the agents observe.                                                *)
(***************************************************************************)

\* An event more, which a observes if and only if it concerns it.
LEMMA HeardNext ==
  ASSUME NEW a, NEW es \in Seq(Events), NEW h \in Seq(Nat), HeardBy(a, es, h), NEW e \in Events
  PROVE  /\ Concerns(a, e) => HeardBy(a, Append(es, e), Append(h, Len(es) + 1))
         /\ ~ Concerns(a, e) => HeardBy(a, Append(es, e), h)
<1> DEFINE n == Len(es) + 1
           es1 == Append(es, e)
           h1 == Append(h, n)
<1>1. /\ DOMAIN es = 1 .. Len(es) /\ Len(es) \in Nat
      /\ DOMAIN h = 1 .. Len(h) /\ Len(h) \in Nat
      /\ DOMAIN es1 = DOMAIN es \union {n} /\ DOMAIN h1 = DOMAIN h \union {Len(h) + 1}
  BY LenProperties, AppendProperties
<1>2. /\ \A i \in DOMAIN es : es1[i] = es[i]
      /\ es1[n] = e
      /\ \A i \in DOMAIN h : h1[i] = h[i]
      /\ h1[Len(h) + 1] = n
  BY <1>1, AppendProperties
<1>3. \A i \in DOMAIN h : h[i] < n
  <2>1. \A i \in DOMAIN h : h[i] \in {Premise} \union DOMAIN es
    BY DEF HeardBy
  <2> QED
    BY <1>1, <2>1 DEF Premise
<1>4. {h[i] : i \in DOMAIN h} = {Premise} \union {k \in DOMAIN es : Concerns(a, es[k])}
  BY DEF HeardBy
<1>5. \A k \in DOMAIN es : Concerns(a, es1[k]) <=> Concerns(a, es[k])
  BY <1>2
<1>6. ASSUME Concerns(a, e) PROVE HeardBy(a, es1, h1)
  <2>1. {h1[i] : i \in DOMAIN h1} = {h[i] : i \in DOMAIN h} \union {n}
    BY <1>1, <1>2
  <2>2. {k \in DOMAIN es1 : Concerns(a, es1[k])} = {k \in DOMAIN es : Concerns(a, es[k])} \union {n}
    BY <1>1, <1>2, <1>5, <1>6
  <2>3. \A i, j \in DOMAIN h1 : i < j => h1[i] < h1[j]
    <3> SUFFICES ASSUME NEW i \in DOMAIN h1, NEW j \in DOMAIN h1, i < j PROVE h1[i] < h1[j]
      OBVIOUS
    <3>1. i \in DOMAIN h
      BY <1>1
    <3>2. CASE j \in DOMAIN h
      BY <1>2, <3>1, <3>2 DEF HeardBy
    <3>3. CASE j = Len(h) + 1
      BY <1>2, <1>3, <3>1, <3>3
    <3> QED
      BY <1>1, <3>2, <3>3
  <2> QED
    BY <1>4, <2>1, <2>2, <2>3 DEF HeardBy
<1>7. ASSUME ~ Concerns(a, e) PROVE HeardBy(a, es1, h)
  <2>1. {k \in DOMAIN es1 : Concerns(a, es1[k])} = {k \in DOMAIN es : Concerns(a, es[k])}
    BY <1>1, <1>2, <1>5, <1>7
  <2> QED
    BY <1>4, <2>1 DEF HeardBy
<1> QED
  BY <1>6, <1>7

LEMMA HeardStep == TypeOK /\ HeardInv /\ [Next]_vars => HeardInv'
<1> SUFFICES ASSUME TypeOK, HeardInv, [Next]_vars PROVE HeardInv'
  OBVIOUS
<1>t. events \in Seq(Events) /\ heard \in [Agents -> Seq(Nat)] /\ Len(events) \in Nat
  BY LenProperties DEF TypeOK
<1>1. (at' = "build" => events' = <<>> /\ heard' = [a \in Agents |-> <<>>])
      /\ (completed' => at' \in {"write", "flush", "exited", "dead"})
  <2>1. CASE Act
    <3>1. at' \in {"act", "choose"}
      BY <2>1, PassTurnTyped DEF Act
    <3>2. ~ completed /\ completed' = completed
      BY <2>1 DEF Act, HeardInv
    <3> QED
      BY <3>1, <3>2
  <2>2. CASE ~ Act
    BY <2>2 DEF HeardInv, Next, Play, vars, playVars, verdictVars, Build, OpenScene, Choose, CloseScene,
       Raise, CallsOut, OpenOutput, WriteOutput, Die, TimesOut, NoResult, ReadResult, Unjudged, Judge
  <2> QED
    BY <2>1, <2>2
<1>2. ASSUME Playing' \/ completed', NEW a \in Agents PROVE HeardBy(a, events', heard'[a])
  <2>h. heard[a] \in Seq(Nat)
    BY <1>t
  <2>1. CASE Build
    <3>1. heard'[a] = Append(<<>>, Premise) /\ events' = <<>>
      BY <2>1, <1>t DEF Build, Observe, HeardInv
    <3>2. heard'[a] = <<Premise>>
      BY <3>1
    <3> QED
      BY <3>1, <3>2 DEF HeardBy
  <2>2. CASE OpenScene
    <3>1. HeardBy(a, events, heard[a])
      BY <2>2 DEF OpenScene, Playing, HeardInv
    <3> DEFINE x == Event("scene_start", None, Fresh, 0)
               y == Event("narration", None, Fresh, 0)
    <3>2. x \in Events /\ y \in Events
      <4>1. Fresh \in Nat /\ 0 \in 0 .. CotSteps
        BY SaidTyped, CotStepsTyped
      <4> QED
        BY <4>1, EventTyped, Zenon
    <3>3. ~ Concerns(a, x) /\ Concerns(a, y)
      BY DEF Concerns, Event
    <3> HIDE DEF x, y
    <3>4. HeardBy(a, Append(events, x), heard[a])
      BY <3>1, <3>2, <3>3, <1>t, <2>h, HeardNext
    <3>5. Append(events, x) \in Seq(Events) /\ Len(Append(events, x)) = Len(events) + 1
      BY <3>2, <1>t, AppendProperties
    <3>6. HeardBy(a, Append(Append(events, x), y), Append(heard[a], Len(events) + 2))
      <4>1. Len(Append(events, x)) + 1 = Len(events) + 2
        BY <3>5, <1>t
      <4> QED
        BY <3>2, <3>3, <3>4, <3>5, <4>1, <2>h, HeardNext
    <3>7. events' = Append(Append(events, x), y)
      BY <2>2, <3>2, <1>t DEF OpenScene, x, y
    <3>8. heard'[a] = Append(heard[a], Len(events) + 2)
      BY <2>2 DEF OpenScene, Observe
    <3> QED
      BY <3>6, <3>7, <3>8
  <2>3. CASE Act
    <3>1. HeardBy(a, events, heard[a])
      BY <2>3 DEF Act, Playing, HeardInv
    <3> DEFINE b == scenario.order[turn]
    <3>2. PICK text \in Texts, blanks \in Blanks :
            /\ events' = Append(events, Event(IF Scene.mode = "reflection" THEN "reflection" ELSE "action",
                                              b, text, blanks))
            /\ Observe(Agents \ {b}, Len(events) + 1)
      BY <2>3 DEF Act
    <3> DEFINE e == Event(IF Scene.mode = "reflection" THEN "reflection" ELSE "action", b, text, blanks)
    <3>3. b \in Agents
      BY ScenarioLegal, ElementOfSeq DEF TypeOK
    <3>4. e \in Events
      BY <3>3, EventTyped, SaidTyped
    <3>5. Concerns(a, e) <=> a # b
      BY DEF Concerns, Event
    <3>6. heard'[a] = IF a # b THEN Append(heard[a], Len(events) + 1) ELSE heard[a]
      BY <3>2 DEF Observe
    <3> HIDE DEF e, b
    <3> QED
      BY <3>1, <3>2, <3>4, <3>5, <3>6, <1>t, <2>h, HeardNext DEF e
  <2>4. CASE Choose
    <3>1. HeardBy(a, events, heard[a])
      BY <2>4 DEF Choose, Playing, HeardInv
    <3>2. PICK text \in Texts, blanks \in Blanks :
            events' = Append(events, Event("forced_choice", Scene.chooser, text, blanks))
      BY <2>4 DEF Choose
    <3> DEFINE e == Event("forced_choice", Scene.chooser, text, blanks)
    <3>3. Scene.chooser \in Agents \union {None}
      BY ScenarioLegal DEF TypeOK, Scene
    <3>4. e \in Events
      BY <3>3, EventTyped, SaidTyped
    <3>5. Concerns(a, e)
      BY DEF Concerns, Event
    <3>6. heard'[a] = Append(heard[a], Len(events) + 1)
      BY <2>4 DEF Choose, Observe
    <3> HIDE DEF e
    <3> QED
      BY <3>1, <3>2, <3>4, <3>5, <3>6, <1>t, <2>h, HeardNext DEF e
  <2>5. CASE CloseScene
    <3>1. HeardBy(a, events, heard[a])
      BY <2>5 DEF CloseScene, Playing, HeardInv
    <3> DEFINE e == Event("scene_end", None, Fresh, 0)
    <3>2. e \in Events
      BY EventTyped, SaidTyped, CotStepsTyped
    <3>3. ~ Concerns(a, e)
      BY DEF Concerns, Event
    <3>4. events' = Append(events, e) /\ heard' = heard
      BY <2>5 DEF CloseScene
    <3> HIDE DEF e
    <3> QED
      BY <3>1, <3>2, <3>3, <3>4, <1>t, <2>h, HeardNext
  <2>6. CASE Raise
    <3>1. at' = "write" /\ completed' = completed
      BY <2>6 DEF Raise
    <3>2. ~ completed
      BY <2>6 DEF Raise, CallsOut, HeardInv
    <3> QED
      BY <3>1, <3>2, <1>2 DEF Playing
  <2>7. CASE events' = events /\ heard' = heard /\ completed' = completed /\ (Playing' => Playing)
    BY <2>7, <1>2 DEF HeardInv
  <2> QED
    BY <2>1, <2>2, <2>3, <2>4, <2>5, <2>6, <2>7
    DEF Next, Play, vars, playVars, Playing, OpenOutput, WriteOutput, Die, TimesOut, NoResult, ReadResult,
        Unjudged, Judge
<1> QED
  BY <1>1, <1>2 DEF HeardInv

LEMMA SceneStep == TypeOK /\ SceneInv /\ [Next]_vars => SceneInv'
<1> SUFFICES ASSUME TypeOK, SceneInv, [Next]_vars PROVE SceneInv'
  OBVIOUS
<1>1. CASE Act
  <2>1. at' \in {"act", "choose"}
    BY <1>1, PassTurnTyped DEF Act
  <2> QED
    BY <2>1 DEF SceneInv
<1>2. CASE ~ Act
  BY <1>2 DEF SceneInv, Next, Play, vars, playVars, placeVars, Build, OpenScene, Choose, CloseScene,
     Raise, OpenOutput, WriteOutput, Die, TimesOut, NoResult, ReadResult, Unjudged, Judge
<1> QED
  BY <1>1, <1>2

-----------------------------------------------------------------------------
(***************************************************************************)
(* The theorems.                                                           *)
(***************************************************************************)

LEMMA Initially == Init => IInv
<1> SUFFICES ASSUME Init PROVE IInv
  OBVIOUS
<1>1. judging \in BOOLEAN /\ completed \in BOOLEAN
  BY Zenon DEF Init
<1>2. events \in Seq(Events) /\ transcript \in Seq(Events)
  BY EmptySeq DEF Init
<1>3. heard \in [Agents -> Seq(Nat)]
  BY EmptySeq DEF Init
<1>4. output \in [state : {"missing", "torn", "whole"}, events : Seq(Events), completed : BOOLEAN]
  BY EmptySeq DEF Init
<1>5. opinions \in [relevant : SUBSET Answers, meaningful : SUBSET (Nat \X Answers),
                    aligned : SUBSET (Agents \X Answers)]
  BY DEF Init, NoOpinion
<1>6. /\ scene \in DOMAIN scenario.scenes /\ turn \in DOMAIN scenario.order
      /\ step \in 0 .. scenario.scenes[scene].steps
  BY ScenarioLegal DEF Init
<1>7. /\ scenario \in Scenarios /\ faults \in FaultModels /\ at = "build" /\ embedder = "hash"
      /\ stage = "simulate"
  BY DEF Init
<1>8. TypeOK
  BY <1>1, <1>2, <1>3, <1>4, <1>5, <1>6, <1>7 DEF TypeOK
<1> QED
  BY <1>8 DEF Init, IInv, SceneInv, HeardInv, Playing

THEOREM Invariance == Spec => []IInv
<1>1. Init => IInv
  BY Initially
<1>2. IInv /\ [Next]_vars => IInv'
  BY TypeStep, SceneStep, HeardStep DEF IInv
<1> QED
  BY <1>1, <1>2, PTL DEF Spec

(***************************************************************************)
(* Every variable keeps its type: in particular the play never leaves the  *)
(* scenes, the steps and the turns its scenario has.                       *)
(***************************************************************************)
THEOREM TypeCorrect == Spec => []TypeOK
<1>1. IInv => TypeOK
  BY DEF IInv
<1> QED
  BY <1>1, Invariance, PTL

(***************************************************************************)
(* Each agent observes all of the play that concerns it, once and in       *)
(* order, in scenarios of any length.                                      *)
(***************************************************************************)
THEOREM EveryoneHears == Spec => []EveryoneHeardEverything
<1>1. IInv => EveryoneHeardEverything
  BY DEF IInv, HeardInv, HeardBy, Playing, EveryoneHeardEverything
<1> QED
  BY <1>1, Invariance, PTL

-----------------------------------------------------------------------------
(***************************************************************************)
(* The inductive invariant of the verdict.                                 *)
(***************************************************************************)

\* Where a line stands in the script: fourteen places for every scene, of
\* which one with fewer steps, or without a choice, leaves some free.
Rank(l) ==
  14 * (l.scene - 1) +
    IF l.type = "scene_start" THEN 1
    ELSE IF l.type = "narration" THEN 2
    ELSE IF l.type = "forced_choice" THEN 13
    ELSE IF l.type = "scene_end" THEN 14
    ELSE 2 * l.step + IF l.agent = scenario.order[1] THEN 3 ELSE 4

\* The first place that is not yet played.
Due ==
  14 * (scene - 1) +
    IF completed THEN 15
    ELSE IF at = "act" THEN 2 * step + turn + 2
    ELSE IF at = "choose" THEN 13
    ELSE IF at = "close" THEN 14
    ELSE 1

\* es plays the script up to the place d: every line before it, once, in order.
Played(es, d) ==
  /\ {LineOf(es[i]) : i \in DOMAIN es} = {l \in Script : Rank(l) < d}
  /\ \A i, j \in DOMAIN es : i < j => Rank(LineOf(es[i])) < Rank(LineOf(es[j]))
  /\ Len(es) < d

ScriptInv == Playing \/ completed => Played(events, Due)

\* The turn comes round with the step, and the step with the scene.
PlaceInv ==
  /\ at = "build" => scene = 1
  /\ at \in {"build", "open", "choose", "close"} => turn = 1
  /\ at \in {"choose", "close"} => step = Scene.steps
  /\ completed => scene = Len(scenario.scenes)

\* How many events there are at least.
LengthInv ==
  /\ at = "act" => Len(events) >= turn + 1
  /\ at \in {"choose", "close"} => Len(events) >= 4
  /\ completed => Len(events) >= 5

\* Where nothing goes wrong every agent says something of its own.
SaidInv ==
  faults = {} =>
    \A i \in DOMAIN events :
      /\ events[i].blanks = 0
      /\ events[i].type \in {"action", "reflection", "forced_choice"} => events[i].text = i + 1

\* What is left of the play when its container has ended.
OutputInv ==
  /\ at = "exited" => output.state = "whole"
  /\ output.state = "whole" =>
       /\ at \in {"exited", "dead"}
       /\ output.events = events /\ output.completed = completed
  /\ faults = {} => at # "dead" /\ (at \in {"write", "flush", "exited"} => completed)

Upheld ==
  /\ opinions.relevant = {"yes"}
  /\ \A i \in Choices(transcript) : <<i, "yes">> \in opinions.meaningful
  /\ \A a \in Philosophers : <<a, "yes">> \in opinions.aligned

StageInv ==
  /\ stage \in {"judge", "passed"} =>
       /\ output.state = "whole"
       /\ transcript = Extracted(events)
       /\ Coherent(transcript, completed)
  /\ stage = "passed" /\ judging => Upheld
  /\ stage = "rejected" => faults # {}

VInv == IInv /\ PlaceInv /\ ScriptInv /\ LengthInv /\ SaidInv /\ OutputInv /\ StageInv

-----------------------------------------------------------------------------
(***************************************************************************)
(* The script and the ranks of its lines.                                  *)
(***************************************************************************)

LEMMA CastLegal ==
  ASSUME scenario \in Scenarios
  PROVE  /\ scenario.order[1] \in Agents /\ scenario.order[2] \in Agents
         /\ scenario.order[1] # scenario.order[2]
         /\ Agents = {scenario.order[1], scenario.order[2]}
         /\ \A n \in DOMAIN scenario.scenes : n \in 1 .. 10 /\ scenario.scenes[n].steps \in 1 .. 5
         /\ Len(scenario.scenes) \in 1 .. 10
<1>1. Legal(scenario) /\ Agents = {scenario.order[1], scenario.order[2]}
  BY SimulationAssumption
<1>2. \A n \in DOMAIN scenario.scenes : scenario.scenes[n].steps \in 1 .. 5
  BY <1>1 DEF Legal
<1>3. Len(scenario.scenes) \in 1 .. 10 /\ DOMAIN scenario.scenes = 1 .. Len(scenario.scenes)
  BY <1>1, ScenarioLegal DEF Legal
<1>4. scenario.order[1] # scenario.order[2]
  BY <1>1 DEF Legal
<1>5. \A n \in DOMAIN scenario.scenes : n \in 1 .. 10
  <2>1. \A m \in 1 .. 10 : \A n \in 1 .. m : n \in 1 .. 10
    OBVIOUS
  <2> QED
    BY <1>3, <2>1, Zenon
<1> QED
  BY <1>1, <1>2, <1>3, <1>4, <1>5, ScenarioLegal, Zenon

ActType(n) == IF scenario.scenes[n].mode = "reflection" THEN "reflection" ELSE "action"

\* What a line of scene n may be.
InScene(l, n) ==
  \/ l = Line("scene_start", None, n, 0)
  \/ l = Line("narration", None, n, 0)
  \/ \E a \in Agents, k \in 0 .. scenario.scenes[n].steps - 1 : l = Line(ActType(n), a, n, k)
  \/ scenario.scenes[n].chooser # None
     /\ l = Line("forced_choice", scenario.scenes[n].chooser, n, scenario.scenes[n].steps)
  \/ l = Line("scene_end", None, n, scenario.scenes[n].steps)

LEMMA ScriptLines == \A l : l \in Script <=> \E n \in DOMAIN scenario.scenes : InScene(l, n)
<1> DEFINE Frame(n) == {Line("scene_start", None, n, 0), Line("narration", None, n, 0),
                        Line("scene_end", None, n, scenario.scenes[n].steps)}
           Acts(n) == {Line(ActType(n), a, n, k) : a \in Agents, k \in 0 .. scenario.scenes[n].steps - 1}
           Choice(n) == IF scenario.scenes[n].chooser = None THEN {}
                        ELSE {Line("forced_choice", scenario.scenes[n].chooser, n, scenario.scenes[n].steps)}
<1>1. Script = UNION {Frame(n) \union Acts(n) \union Choice(n) : n \in DOMAIN scenario.scenes}
  BY DEF Script, ActType
<1>2. ASSUME NEW l, NEW n PROVE l \in Frame(n) \union Acts(n) \union Choice(n) <=> InScene(l, n)
  <2>1. l \in Frame(n) <=> \/ l = Line("scene_start", None, n, 0)
                           \/ l = Line("narration", None, n, 0)
                           \/ l = Line("scene_end", None, n, scenario.scenes[n].steps)
    BY Zenon
  <2>2. l \in Acts(n) <=> \E a \in Agents, k \in 0 .. scenario.scenes[n].steps - 1 :
                             l = Line(ActType(n), a, n, k)
    OBVIOUS
  <2>3. l \in Choice(n) <=>
          scenario.scenes[n].chooser # None
          /\ l = Line("forced_choice", scenario.scenes[n].chooser, n, scenario.scenes[n].steps)
    BY Zenon
  <2> HIDE DEF Frame, Acts, Choice
  <2> QED
    BY <2>1, <2>2, <2>3, Zenon DEF InScene
<1> HIDE DEF Frame, Acts, Choice
<1> QED
  BY <1>1, <1>2, Zenon

\* The ranks of the lines of scene n: fourteen for each scene.
LEMMA Ranks ==
  ASSUME scenario \in Scenarios, NEW n \in Int
  PROVE  /\ Rank(Line("scene_start", None, n, 0)) = 14 * (n - 1) + 1
         /\ Rank(Line("narration", None, n, 0)) = 14 * (n - 1) + 2
         /\ \A m : \A k \in Int :
              /\ Rank(Line(ActType(m), scenario.order[1], n, k)) = 14 * (n - 1) + 2 * k + 3
              /\ Rank(Line(ActType(m), scenario.order[2], n, k)) = 14 * (n - 1) + 2 * k + 4
         /\ \A a, k : Rank(Line("forced_choice", a, n, k)) = 14 * (n - 1) + 13
         /\ \A a, k : Rank(Line("scene_end", a, n, k)) = 14 * (n - 1) + 14
<1>1. Rank(Line("scene_start", None, n, 0)) = 14 * (n - 1) + 1
  BY DEF Rank, Line
<1>2. Rank(Line("narration", None, n, 0)) = 14 * (n - 1) + 2
  BY DEF Rank, Line
<1>3. ASSUME NEW k \in Int, NEW m
      PROVE  /\ Rank(Line(ActType(m), scenario.order[1], n, k)) = 14 * (n - 1) + 2 * k + 3
             /\ Rank(Line(ActType(m), scenario.order[2], n, k)) = 14 * (n - 1) + 2 * k + 4
  <2>1. ActType(m) \in {"action", "reflection"}
    BY DEF ActType
  <2>2. scenario.order[1] # scenario.order[2]
    BY CastLegal
  <2> QED
    BY <2>1, <2>2 DEF Rank, Line
<1>4. ASSUME NEW a, NEW k PROVE Rank(Line("forced_choice", a, n, k)) = 14 * (n - 1) + 13
  BY DEF Rank, Line
<1>5. ASSUME NEW a, NEW k PROVE Rank(Line("scene_end", a, n, k)) = 14 * (n - 1) + 14
  BY DEF Rank, Line
<1> QED
  BY <1>1, <1>2, <1>3, <1>4, <1>5, Zenon

\* The places of the lines of scene n.
LEMMA Placed ==
  ASSUME scenario \in Scenarios, NEW n \in DOMAIN scenario.scenes, NEW l, InScene(l, n)
  PROVE  /\ l.scene = n
         /\ Rank(l) \in Int /\ 14 * (n - 1) < Rank(l) /\ Rank(l) <= 14 * n
<1>1. n \in Int /\ scenario.scenes[n].steps \in 1 .. 5
  BY CastLegal
<1>2. l.scene = n
  BY DEF InScene, Line
<1>3. ASSUME NEW a \in Agents, NEW k \in 0 .. scenario.scenes[n].steps - 1, l = Line(ActType(n), a, n, k)
      PROVE  Rank(l) \in Int /\ 14 * (n - 1) < Rank(l) /\ Rank(l) <= 14 * n
  <2>1. k \in Int /\ 0 <= k /\ k <= 4
    BY <1>1
  <2>2. a = scenario.order[1] \/ a = scenario.order[2]
    BY CastLegal
  <2>3. Rank(l) = 14 * (n - 1) + 2 * k + 3 \/ Rank(l) = 14 * (n - 1) + 2 * k + 4
    <3>1. CASE a = scenario.order[1]
      BY <1>1, <1>3, <2>1, <3>1, Ranks
    <3>2. CASE a = scenario.order[2]
      BY <1>1, <1>3, <2>1, <3>2, Ranks
    <3> QED
      BY <2>2, <3>1, <3>2
  <2> QED
    BY <1>1, <2>1, <2>3
<1>4. \/ Rank(l) \in {14 * (n - 1) + 1, 14 * (n - 1) + 2, 14 * (n - 1) + 13, 14 * (n - 1) + 14}
      \/ \E a \in Agents, k \in 0 .. scenario.scenes[n].steps - 1 : l = Line(ActType(n), a, n, k)
  BY <1>1, Ranks DEF InScene
<1>5. CASE Rank(l) \in {14 * (n - 1) + 1, 14 * (n - 1) + 2, 14 * (n - 1) + 13, 14 * (n - 1) + 14}
  BY <1>1, <1>2, <1>5
<1> QED
  BY <1>2, <1>3, <1>4, <1>5, Zenon

\* Each place of scene n has at most one line.
LEMMA LineAt ==
  ASSUME scenario \in Scenarios, NEW n \in DOMAIN scenario.scenes, NEW l \in Script,
         14 * (n - 1) < Rank(l), Rank(l) <= 14 * n
  PROVE  LET base == 14 * (n - 1)
             steps == scenario.scenes[n].steps
         IN  \/ Rank(l) = base + 1 /\ l = Line("scene_start", None, n, 0)
             \/ Rank(l) = base + 2 /\ l = Line("narration", None, n, 0)
             \/ \E t \in 1 .. 2, k \in 0 .. steps - 1 :
                  Rank(l) = base + 2 * k + t + 2 /\ l = Line(ActType(n), scenario.order[t], n, k)
             \/ /\ Rank(l) = base + 13 /\ scenario.scenes[n].chooser # None
                /\ l = Line("forced_choice", scenario.scenes[n].chooser, n, steps)
             \/ Rank(l) = base + 14 /\ l = Line("scene_end", None, n, steps)
<1> DEFINE steps == scenario.scenes[n].steps
<1>1. n \in Int /\ steps \in 1 .. 5
  BY CastLegal
<1>2. PICK m \in DOMAIN scenario.scenes : InScene(l, m)
  BY ScriptLines, Zenon
<1>3. Rank(l) \in Int /\ 14 * (m - 1) < Rank(l) /\ Rank(l) <= 14 * m /\ m \in Int
  BY <1>2, Placed, CastLegal
<1>4. m = n
  BY <1>1, <1>3
<1>5. InScene(l, n)
  BY <1>2, <1>4
<1>6. ASSUME NEW a \in Agents, NEW k \in 0 .. steps - 1, l = Line(ActType(n), a, n, k)
      PROVE  \E t \in 1 .. 2 :
               Rank(l) = 14 * (n - 1) + 2 * k + t + 2 /\ l = Line(ActType(n), scenario.order[t], n, k)
  <2>1. k \in Int
    BY <1>1
  <2>2. CASE a = scenario.order[1]
    <3>1. Rank(l) = 14 * (n - 1) + 2 * k + 3
      BY <1>1, <1>6, <2>1, <2>2, Ranks
    <3>2. Rank(l) = 14 * (n - 1) + 2 * k + 1 + 2
      BY <1>1, <2>1, <3>1
    <3> QED
      BY <1>6, <2>2, <3>2
  <2>3. CASE a = scenario.order[2]
    <3>1. Rank(l) = 14 * (n - 1) + 2 * k + 4
      BY <1>1, <1>6, <2>1, <2>3, Ranks
    <3>2. Rank(l) = 14 * (n - 1) + 2 * k + 2 + 2
      BY <1>1, <2>1, <3>1
    <3> QED
      BY <1>6, <2>3, <3>2
  <2> QED
    BY <2>2, <2>3, CastLegal
<1>7. \/ Rank(l) = 14 * (n - 1) + 1 /\ l = Line("scene_start", None, n, 0)
      \/ Rank(l) = 14 * (n - 1) + 2 /\ l = Line("narration", None, n, 0)
      \/ \E a \in Agents, k \in 0 .. steps - 1 : l = Line(ActType(n), a, n, k)
      \/ /\ Rank(l) = 14 * (n - 1) + 13 /\ scenario.scenes[n].chooser # None
         /\ l = Line("forced_choice", scenario.scenes[n].chooser, n, steps)
      \/ Rank(l) = 14 * (n - 1) + 14 /\ l = Line("scene_end", None, n, steps)
  BY <1>1, <1>5, Ranks DEF InScene
<1> QED
  BY <1>6, <1>7, Zenon

-----------------------------------------------------------------------------
(***************************************************************************)
(* Every step of the play adds the next lines of the script.               *)
(***************************************************************************)

\* An event that plays the line at the place d.
LEMMA PlayedNext ==
  ASSUME scenario \in Scenarios, NEW es \in Seq(Events), NEW d \in Int, Played(es, d),
         NEW e \in Events, LineOf(e) \in Script, Rank(LineOf(e)) = d,
         \A l \in Script : d <= Rank(l) /\ Rank(l) < d + 1 => l = LineOf(e)
  PROVE  Played(Append(es, e), d + 1)
<1> DEFINE n == Len(es) + 1
           es1 == Append(es, e)
           d1 == d + 1
<1>1. /\ DOMAIN es = 1 .. Len(es) /\ Len(es) \in Nat
      /\ DOMAIN es1 = DOMAIN es \union {n} /\ Len(es1) = n
  BY LenProperties, AppendProperties
<1>2. (\A i \in DOMAIN es : es1[i] = es[i]) /\ es1[n] = e
  BY <1>1, AppendProperties
<1>3. \A l \in Script : Rank(l) \in Int
  BY ScriptLines, Placed
<1>4. {LineOf(es1[i]) : i \in DOMAIN es1} = {LineOf(es[i]) : i \in DOMAIN es} \union {LineOf(e)}
  BY <1>1, <1>2
<1>5. {LineOf(es[i]) : i \in DOMAIN es} = {l \in Script : Rank(l) < d}
  BY DEF Played
<1>6. {l \in Script : Rank(l) < d1} = {l \in Script : Rank(l) < d} \union {LineOf(e)}
  <2>1. ASSUME NEW l \in Script PROVE Rank(l) < d1 <=> Rank(l) < d \/ l = LineOf(e)
    <3>1. Rank(l) \in Int /\ Rank(LineOf(e)) \in Int
      BY <1>3
    <3> QED
      BY <3>1
  <2> QED
    BY <2>1
<1>7. ASSUME NEW i \in DOMAIN es1, NEW j \in DOMAIN es1, i < j
      PROVE  Rank(LineOf(es1[i])) < Rank(LineOf(es1[j]))
  <2>1. i \in DOMAIN es
    BY <1>1, <1>7
  <2>2. CASE j \in DOMAIN es
    BY <1>2, <1>7, <2>1, <2>2 DEF Played
  <2>3. CASE j = n
    <3>1. LineOf(es[i]) \in Script /\ Rank(LineOf(es[i])) < d
      BY <1>5, <2>1
    <3>2. Rank(LineOf(es[i])) \in Int /\ Rank(LineOf(e)) \in Int
      BY <1>3, <3>1
    <3>3. es1[i] = es[i] /\ es1[j] = e
      BY <1>2, <2>1, <2>3
    <3> QED
      BY <3>1, <3>2, <3>3
  <2> QED
    BY <1>1, <2>2, <2>3
<1>8. Len(es1) < d1
  <2>1. Len(es) < d /\ Rank(LineOf(e)) \in Int
    BY <1>3 DEF Played
  <2> QED
    BY <1>1, <2>1
<1> HIDE DEF es1, d1
<1>9. {LineOf(es1[i]) : i \in DOMAIN es1} = {l \in Script : Rank(l) < d1}
  BY <1>4, <1>5, <1>6
<1> QED
  BY <1>7, <1>8, <1>9, Zenon DEF Played, es1, d1

\* Where no line has a place between d and d1.
LEMMA PlayedGap ==
  ASSUME scenario \in Scenarios, NEW es \in Seq(Events), NEW d \in Int, NEW d1 \in Int, Played(es, d),
         d <= d1, \A l \in Script : ~ (d <= Rank(l) /\ Rank(l) < d1)
  PROVE  Played(es, d1)
<1>1. \A l \in Script : Rank(l) \in Int
  BY ScriptLines, Placed
<1>2. \A l \in Script : Rank(l) < d1 <=> Rank(l) < d
  BY <1>1
<1>3. {l \in Script : Rank(l) < d1} = {l \in Script : Rank(l) < d}
  BY <1>2
<1>4. Len(es) \in Nat
  BY LenProperties
<1> QED
  BY <1>3, <1>4 DEF Played

\* Which line comes next, at each place of scene n.
LEMMA NextLine ==
  ASSUME scenario \in Scenarios, NEW n \in DOMAIN scenario.scenes, NEW l \in Script
  PROVE  LET base == 14 * (n - 1)
             steps == scenario.scenes[n].steps
         IN  /\ base + 1 <= Rank(l) /\ Rank(l) < base + 2 => l = Line("scene_start", None, n, 0)
             /\ base + 2 <= Rank(l) /\ Rank(l) < base + 3 => l = Line("narration", None, n, 0)
             /\ \A t \in 1 .. 2, k \in 0 .. steps - 1 :
                  base + 2 * k + t + 2 <= Rank(l) /\ Rank(l) < base + 2 * k + t + 3 =>
                    l = Line(ActType(n), scenario.order[t], n, k)
             /\ ~ (base + 2 * steps + 3 <= Rank(l) /\ Rank(l) < base + 13)
             /\ base + 13 <= Rank(l) /\ Rank(l) < base + 14 =>
                  /\ scenario.scenes[n].chooser # None
                  /\ l = Line("forced_choice", scenario.scenes[n].chooser, n, steps)
             /\ base + 14 <= Rank(l) /\ Rank(l) < base + 15 => l = Line("scene_end", None, n, steps)
<1> DEFINE base == 14 * (n - 1)
           steps == scenario.scenes[n].steps
<1>1. n \in Int /\ steps \in 1 .. 5 /\ base \in Int /\ 14 * n = base + 14
  BY CastLegal
<1>2. Rank(l) \in Int
  BY ScriptLines, Placed
<1>3. ASSUME base < Rank(l), Rank(l) <= base + 14
      PROVE  \/ Rank(l) = base + 1 /\ l = Line("scene_start", None, n, 0)
             \/ Rank(l) = base + 2 /\ l = Line("narration", None, n, 0)
             \/ \E t \in 1 .. 2, k \in 0 .. steps - 1 :
                  Rank(l) = base + 2 * k + t + 2 /\ l = Line(ActType(n), scenario.order[t], n, k)
             \/ /\ Rank(l) = base + 13 /\ scenario.scenes[n].chooser # None
                /\ l = Line("forced_choice", scenario.scenes[n].chooser, n, steps)
             \/ Rank(l) = base + 14 /\ l = Line("scene_end", None, n, steps)
  BY <1>1, <1>3, LineAt
<1> HIDE DEF base, steps
<1>4. base + 1 <= Rank(l) /\ Rank(l) < base + 2 => l = Line("scene_start", None, n, 0)
  BY <1>1, <1>2, <1>3
<1>5. base + 2 <= Rank(l) /\ Rank(l) < base + 3 => l = Line("narration", None, n, 0)
  BY <1>1, <1>2, <1>3
<1>6. ASSUME NEW t \in 1 .. 2, NEW k \in 0 .. steps - 1,
             base + 2 * k + t + 2 <= Rank(l), Rank(l) < base + 2 * k + t + 3
      PROVE  l = Line(ActType(n), scenario.order[t], n, k)
  <2>1. k \in 0 .. 4 /\ Rank(l) = base + 2 * k + t + 2
    BY <1>1, <1>2, <1>6
  <2>2. base < Rank(l) /\ Rank(l) <= base + 12 /\ Rank(l) > base + 2
    BY <1>1, <2>1
  <2>3. PICK u \in 1 .. 2, j \in 0 .. steps - 1 :
          Rank(l) = base + 2 * j + u + 2 /\ l = Line(ActType(n), scenario.order[u], n, j)
    BY <1>1, <1>2, <1>3, <2>2
  <2>4. u = t /\ j = k
    BY <1>1, <2>1, <2>3
  <2> QED
    BY <2>3, <2>4
<1>7. ~ (base + 2 * steps + 3 <= Rank(l) /\ Rank(l) < base + 13)
  BY <1>1, <1>2, <1>3
<1>8. base + 13 <= Rank(l) /\ Rank(l) < base + 14 =>
        /\ scenario.scenes[n].chooser # None
        /\ l = Line("forced_choice", scenario.scenes[n].chooser, n, steps)
  BY <1>1, <1>2, <1>3
<1>9. base + 14 <= Rank(l) /\ Rank(l) < base + 15 => l = Line("scene_end", None, n, steps)
  BY <1>1, <1>2, <1>3
<1> QED
  BY <1>4, <1>5, <1>6, <1>7, <1>8, <1>9 DEF base, steps

LEMMA PlayedNothing ==
  ASSUME scenario \in Scenarios
  PROVE  Played(<<>>, 1)
<1>1. ASSUME NEW l \in Script PROVE ~ (Rank(l) < 1)
  <2>1. PICK n \in DOMAIN scenario.scenes : InScene(l, n)
    BY ScriptLines, Zenon
  <2> QED
    BY <2>1, Placed, CastLegal
<1>2. {l \in Script : Rank(l) < 1} = {}
  BY <1>1
<1> QED
  BY <1>2 DEF Played

LEMMA PlaceStep == TypeOK /\ HeardInv /\ PlaceInv /\ [Next]_vars => PlaceInv'
<1> SUFFICES ASSUME TypeOK, HeardInv, PlaceInv, [Next]_vars PROVE PlaceInv'
  OBVIOUS
<1>s. scenario' = scenario
  BY SetupStep
<1>t. turn \in 1 .. 2 /\ scene \in DOMAIN scenario.scenes /\ Len(scenario.order) = 2
      /\ step \in Nat /\ Scene.steps \in Nat /\ (at = "act" => step < Scene.steps)
  BY ScenarioLegal DEF TypeOK, Scene
<1>1. CASE Act
  <2>1. PassTurn /\ scene' = scene /\ completed' = completed /\ at = "act" /\ Scene' = Scene
    BY <1>1, <1>s DEF Act, Scene
  <2>2. ~ completed'
    BY <2>1 DEF HeardInv
  <2>3. at' \in {"act", "choose"}
    BY <2>1, PassTurnTyped
  <2> QED
    BY <1>t, <2>1, <2>2, <2>3 DEF PassTurn, PlaceInv
<1>2. CASE CloseScene
  <2>1. scene < Len(scenario.scenes) \/ scene = Len(scenario.scenes)
    BY <1>t, ScenarioLegal DEF TypeOK
  <2> QED
    BY <1>2, <1>s, <2>1 DEF CloseScene, PlaceInv, HeardInv
<1>3. CASE ~ Act /\ ~ CloseScene
  <2>1. placeVars' = placeVars /\ completed' = completed
    BY <1>3 DEF Next, Play, vars, playVars, Build, OpenScene, Choose,
       Raise, OpenOutput, WriteOutput, Die, TimesOut, NoResult, ReadResult, Unjudged, Judge
  <2>2. /\ at' = "build" => at = "build"
        /\ at' \in {"build", "open", "choose", "close"} => at \in {"build", "open", "choose", "close"}
        /\ at' \in {"choose", "close"} => at \in {"choose", "close"}
    BY <1>3 DEF Next, Play, vars, playVars, Build, OpenScene, Choose,
       Raise, OpenOutput, WriteOutput, Die, TimesOut, NoResult, ReadResult, Unjudged, Judge
  <2> QED
    BY <1>s, <2>1, <2>2 DEF PlaceInv, placeVars, Scene
<1> QED
  BY <1>1, <1>2, <1>3

\* What the steps of the play add to the events.
LEMMA OpenAdds ==
  ASSUME TypeOK, OpenScene
  PROVE  LET x == Event("scene_start", None, Fresh, 0)
             y == Event("narration", None, Fresh, 0)
         IN  x \in Events /\ y \in Events /\ events' = Append(Append(events, x), y)
<1>1. Fresh \in Nat /\ 0 \in 0 .. CotSteps /\ events \in Seq(Events)
  BY SaidTyped, CotStepsTyped DEF TypeOK
<1>2. /\ Event("scene_start", None, Fresh, 0) \in Events
      /\ Event("narration", None, Fresh, 0) \in Events
  BY <1>1, EventTyped, Zenon
<1>3. events' = Append(Append(events, Event("scene_start", None, Fresh, 0)), Event("narration", None, Fresh, 0))
  BY <1>1, <1>2 DEF OpenScene
<1> QED
  BY <1>2, <1>3, Zenon

LEMMA ActAdds ==
  ASSUME TypeOK, Act
  PROVE  \E text \in Texts, blanks \in Blanks :
           /\ Event(ActType(scene), scenario.order[turn], text, blanks) \in Events
           /\ events' = Append(events, Event(ActType(scene), scenario.order[turn], text, blanks))
<1>1. PICK text \in Texts, blanks \in Blanks :
        events' = Append(events, Event(ActType(scene), scenario.order[turn], text, blanks))
  BY DEF Act, Scene, ActType
<1>2. scenario.order[turn] \in Agents
  BY ScenarioLegal, ElementOfSeq DEF TypeOK
<1>3. ActType(scene) \in {"action", "reflection"}
  BY DEF ActType
<1>4. Event(ActType(scene), scenario.order[turn], text, blanks) \in Events
  BY <1>2, <1>3, EventTyped, SaidTyped
<1> QED
  BY <1>1, <1>4

LEMMA ChooseAdds ==
  ASSUME TypeOK, Choose
  PROVE  \E text \in Texts, blanks \in Blanks :
           /\ Event("forced_choice", Scene.chooser, text, blanks) \in Events
           /\ events' = Append(events, Event("forced_choice", Scene.chooser, text, blanks))
<1>1. PICK text \in Texts, blanks \in Blanks :
        events' = Append(events, Event("forced_choice", Scene.chooser, text, blanks))
  BY DEF Choose
<1>2. Scene.chooser \in Agents \union {None}
  BY ScenarioLegal DEF TypeOK, Scene
<1>3. Event("forced_choice", Scene.chooser, text, blanks) \in Events
  BY <1>2, EventTyped, SaidTyped
<1> QED
  BY <1>1, <1>3

LEMMA CloseAdds ==
  ASSUME TypeOK, CloseScene
  PROVE  LET e == Event("scene_end", None, Fresh, 0)
         IN  e \in Events /\ events' = Append(events, e)
<1>1. Fresh \in Nat /\ 0 \in 0 .. CotSteps
  BY SaidTyped, CotStepsTyped
<1>2. Event("scene_end", None, Fresh, 0) \in Events
  BY <1>1, EventTyped, Zenon
<1> QED
  BY <1>2 DEF CloseScene

LEMMA LengthStep == TypeOK /\ HeardInv /\ PlaceInv /\ LengthInv /\ [Next]_vars => LengthInv'
<1> SUFFICES ASSUME TypeOK, HeardInv, PlaceInv, LengthInv, [Next]_vars PROVE LengthInv'
  OBVIOUS
<1>t. events \in Seq(Events) /\ Len(events) \in Nat /\ turn \in 1 .. 2 /\ Len(scenario.order) = 2
  BY ScenarioLegal, LenProperties DEF TypeOK
<1>n. \A e \in Events : Append(events, e) \in Seq(Events) /\ Len(Append(events, e)) = Len(events) + 1
  BY <1>t, AppendProperties
<1>1. CASE OpenScene
  <2>1. Len(events') = Len(events) + 2
    <3>1. \A x, y \in Events : Len(Append(Append(events, x), y)) = Len(events) + 2
      BY <1>t, <1>n, AppendProperties
    <3> QED
      BY <1>1, <3>1, OpenAdds
  <2>2. at' = "act" /\ turn' = 1 /\ ~ completed'
    BY <1>1 DEF OpenScene, PlaceInv, placeVars, HeardInv
  <2> QED
    BY <1>t, <2>1, <2>2 DEF LengthInv
<1>2. CASE Act
  <2>1. Len(events') = Len(events) + 1
    BY <1>2, <1>n, ActAdds
  <2>2. at' \in {"act", "choose"} /\ PassTurn /\ ~ completed' /\ at = "act"
    BY <1>2, PassTurnTyped DEF Act, HeardInv
  <2> QED
    BY <1>t, <2>1, <2>2 DEF LengthInv, PassTurn
<1>3. CASE Choose
  <2>1. Len(events') = Len(events) + 1
    BY <1>3, <1>n, ChooseAdds
  <2> QED
    BY <1>3, <1>t, <2>1 DEF LengthInv, Choose, HeardInv
<1>4. CASE CloseScene
  <2>1. Len(events') = Len(events) + 1
    BY <1>4, <1>n, CloseAdds
  <2>2. at' \in {"open", "write"}
    BY <1>4 DEF CloseScene
  <2> QED
    BY <1>4, <1>t, <2>1, <2>2 DEF LengthInv, CloseScene
<1>5. CASE Raise
  BY <1>5 DEF Raise, CallsOut, LengthInv, HeardInv
<1>6. CASE ~ OpenScene /\ ~ Act /\ ~ Choose /\ ~ CloseScene /\ ~ Raise
  <2>1. events' = events /\ turn' = turn /\ completed' = completed
    BY <1>6 DEF Next, Play, vars, playVars, placeVars, Build,
       OpenOutput, WriteOutput, Die, TimesOut, NoResult, ReadResult, Unjudged, Judge
  <2>2. at' = at \/ at' \in {"open", "flush", "exited", "dead"}
    BY <1>6 DEF Next, Play, vars, Build,
       OpenOutput, WriteOutput, Die, TimesOut, NoResult, ReadResult, Unjudged, Judge
  <2> QED
    BY <2>1, <2>2 DEF LengthInv
<1> QED
  BY <1>1, <1>2, <1>3, <1>4, <1>5, <1>6

LEMMA ScriptStep == TypeOK /\ SceneInv /\ HeardInv /\ PlaceInv /\ ScriptInv /\ [Next]_vars => ScriptInv'
<1> SUFFICES ASSUME TypeOK, SceneInv, HeardInv, PlaceInv, ScriptInv, [Next]_vars, (Playing \/ completed)'
             PROVE  Played(events', Due')
  BY SetupStep DEF ScriptInv, Played, Script, Rank, Due
<1>t. /\ scenario \in Scenarios /\ events \in Seq(Events) /\ Len(events) \in Nat
      /\ turn \in 1 .. 2 /\ Len(scenario.order) = 2
      /\ scene \in DOMAIN scenario.scenes /\ scene \in Int
      /\ step \in Nat /\ Scene.steps \in 1 .. 5 /\ (at = "act" => step < Scene.steps)
  <2>1. scenario \in Scenarios /\ scene \in DOMAIN scenario.scenes /\ events \in Seq(Events)
    BY DEF TypeOK
  <2>2. turn \in 1 .. 2 /\ Len(scenario.order) = 2
    BY <2>1, ScenarioLegal DEF TypeOK
  <2>3. scene \in Int /\ scenario.scenes[scene].steps \in 1 .. 5
    BY <2>1, CastLegal
  <2>4. step \in Nat /\ (at = "act" => step < scenario.scenes[scene].steps)
    BY <2>3 DEF TypeOK
  <2> QED
    BY <2>1, <2>2, <2>3, <2>4, LenProperties DEF Scene
<1>d. \A l \in Script : Rank(l) \in Int
  BY <1>t, ScriptLines, Placed
<1>i. scenario \in Scenarios /\ scene \in Int /\ step \in Int
  BY <1>t
<1> DEFINE base == 14 * (scene - 1)
<1>b. base \in Int
  BY <1>t
<1>1. CASE Build
  <2>1. events' = <<>> /\ Due' = 1
    BY <1>1 DEF Build, HeardInv, PlaceInv, Due, placeVars
  <2> QED
    BY <1>t, <2>1, PlayedNothing
<1>2. CASE OpenScene
  <2>1. ~ completed /\ at = "open" /\ step = 0 /\ turn = 1
    BY <1>2 DEF OpenScene, HeardInv, SceneInv, PlaceInv
  <2>2. Due = base + 1 /\ Due' = base + 3
    BY <1>2, <1>t, <2>1 DEF Due, OpenScene, placeVars
  <2>3. Played(events, base + 1)
    BY <2>1, <2>2 DEF ScriptInv, Playing
  <2> DEFINE x == Event("scene_start", None, Fresh, 0)
             y == Event("narration", None, Fresh, 0)
  <2>4. x \in Events /\ y \in Events /\ events' = Append(Append(events, x), y)
    BY <1>2, OpenAdds
  <2>5. LineOf(x) = Line("scene_start", None, scene, 0) /\ LineOf(y) = Line("narration", None, scene, 0)
    BY <2>1 DEF LineOf, Event, Line
  <2>6. LineOf(x) \in Script /\ LineOf(y) \in Script
    BY <1>t, <2>5, ScriptLines DEF InScene
  <2>7. Rank(LineOf(x)) = base + 1 /\ Rank(LineOf(y)) = base + 2
    BY <1>t, <2>5, Ranks
  <2> HIDE DEF x, y, base
  <2>8. Played(Append(events, x), base + 2)
    <3>1. \A l \in Script : base + 1 <= Rank(l) /\ Rank(l) < base + 2 => l = LineOf(x)
      BY <1>t, <2>5, NextLine DEF base
    <3>2. base + 1 \in Int /\ (base + 1) + 1 = base + 2
      BY <1>b
    <3>3. Played(Append(events, x), (base + 1) + 1)
      BY <1>t, <2>3, <2>4, <2>6, <2>7, <3>1, <3>2, PlayedNext
    <3> QED
      BY <3>2, <3>3
  <2>9. Played(Append(Append(events, x), y), base + 3)
    <3>1. \A l \in Script : base + 2 <= Rank(l) /\ Rank(l) < base + 3 => l = LineOf(y)
      BY <1>t, <2>5, NextLine DEF base
    <3>2. Append(events, x) \in Seq(Events)
      BY <1>t, <2>4, AppendProperties
    <3>3. base + 2 \in Int /\ (base + 2) + 1 = base + 3
      BY <1>b
    <3>4. Played(Append(Append(events, x), y), (base + 2) + 1)
      BY <1>t, <2>4, <2>6, <2>7, <2>8, <3>1, <3>2, <3>3, PlayedNext
    <3> QED
      BY <3>3, <3>4
  <2> QED
    BY <2>2, <2>4, <2>9
<1>3. CASE Act
  <2>1. ~ completed /\ ~ completed' /\ at = "act" /\ PassTurn /\ scene' = scene
    BY <1>3 DEF Act, HeardInv
  <2> DEFINE d == base + 2 * step + turn + 2
  <2>2. Due = d /\ d \in Int
    <3>1. Due = base + (2 * step + turn + 2)
      BY <2>1 DEF Due
    <3>2. step \in Int /\ turn \in Int
      BY <1>t
    <3> HIDE DEF base
    <3> QED
      BY <1>b, <3>1, <3>2
  <2>3. Played(events, d)
    BY <2>1, <2>2 DEF ScriptInv, Playing
  <2>4. PICK text \in Texts, blanks \in Blanks :
          /\ Event(ActType(scene), scenario.order[turn], text, blanks) \in Events
          /\ events' = Append(events, Event(ActType(scene), scenario.order[turn], text, blanks))
    BY <1>3, ActAdds
  <2> DEFINE e == Event(ActType(scene), scenario.order[turn], text, blanks)
  <2>5. LineOf(e) = Line(ActType(scene), scenario.order[turn], scene, step)
    BY DEF LineOf, Event, Line
  <2>6. scenario.order[turn] \in Agents /\ step \in 0 .. scenario.scenes[scene].steps - 1
    BY <1>t, <2>1, CastLegal DEF Scene
  <2>7. LineOf(e) \in Script
    BY <1>t, <2>5, <2>6, ScriptLines DEF InScene
  <2>8. Rank(LineOf(e)) = d
    <3>1. CASE turn = 1
      <4>1. Rank(Line(ActType(scene), scenario.order[1], scene, step)) = base + 2 * step + 3
        BY <1>i, Ranks, Zenon
      <4>2. base + 2 * step + 1 + 2 = base + 2 * step + 3
        BY <1>i, <1>b
      <4> QED
        BY <2>5, <3>1, <4>1, <4>2
    <3>2. CASE turn = 2
      <4>1. Rank(Line(ActType(scene), scenario.order[2], scene, step)) = base + 2 * step + 4
        BY <1>i, Ranks, Zenon
      <4>2. base + 2 * step + 2 + 2 = base + 2 * step + 4
        BY <1>i, <1>b
      <4> QED
        BY <2>5, <3>2, <4>1, <4>2
    <3> QED
      BY <1>t, <3>1, <3>2
  <2>9. \A l \in Script : d <= Rank(l) /\ Rank(l) < d + 1 => l = LineOf(e)
    <3>1. d + 1 = base + 2 * step + turn + 3
      BY <1>t
    <3>2. \A l \in Script :
            base + 2 * step + turn + 2 <= Rank(l) /\ Rank(l) < base + 2 * step + turn + 3 =>
              l = Line(ActType(scene), scenario.order[turn], scene, step)
      <4> SUFFICES ASSUME NEW l \in Script,
                          base + 2 * step + turn + 2 <= Rank(l), Rank(l) < base + 2 * step + turn + 3
                   PROVE  l = Line(ActType(scene), scenario.order[turn], scene, step)
        OBVIOUS
      <4>1. turn \in 1 .. 2 /\ scene \in DOMAIN scenario.scenes
        BY <1>t
      <4> QED
        BY <1>i, <2>6, <4>1, NextLine
    <3> QED
      BY <2>5, <3>1, <3>2, Zenon
  <2> HIDE DEF e
  <2>10. Played(Append(events, e), d + 1)
    <3> HIDE DEF d
    <3> QED
      BY <1>t, <2>2, <2>3, <2>4, <2>7, <2>8, <2>9, PlayedNext DEF e
  <2>11. events' = Append(events, e) /\ events' \in Seq(Events)
    BY <1>t, <2>4, AppendProperties DEF e
  <2>t. step \in Nat /\ turn \in 1 .. 2 /\ Len(scenario.order) = 2 /\ Scene.steps \in 1 .. 5 /\ step < Scene.steps
    BY <1>t, <2>1
  <2>12. CASE turn = 1 \/ (turn = 2 /\ step + 1 < Scene.steps)
    <3>1. at' = "act" /\ 2 * step' + turn' = 2 * step + turn + 1 /\ step' \in Nat /\ turn' \in Nat
      <4>1. CASE turn = 1
        BY <2>t, <2>1, <4>1 DEF PassTurn
      <4>2. CASE turn = 2
        BY <2>t, <2>1, <2>12, <4>2 DEF PassTurn
      <4> QED
        BY <2>t, <4>1, <4>2
    <3>2. Due' = base + (2 * step' + turn' + 2)
      BY <1>b, <2>1, <3>1 DEF Due
    <3>3. Due' = d + 1
      <4>1. Due' = base + (2 * step + turn + 1 + 2)
        BY <3>1, <3>2
      <4>2. 2 * step \in Int /\ turn \in Int
        BY <2>t
      <4> HIDE DEF base
      <4> QED
        BY <1>b, <4>1, <4>2
    <3> QED
      BY <2>10, <2>11, <3>3
  <2>13. CASE turn = 2 /\ ~ (step + 1 < Scene.steps)
    <3>1. at' = "choose"
      BY <1>t, <2>1, <2>13 DEF PassTurn
    <3>2. Due' = base + 13
      BY <2>1, <3>1 DEF Due
    <3>3. d + 1 = base + 2 * scenario.scenes[scene].steps + 3 /\ d + 1 <= base + 13 /\ d + 1 \in Int
      <4>1. step + 1 = Scene.steps
        BY <2>t, <2>13
      <4>2. d + 1 = base + 2 * Scene.steps + 3 /\ d + 1 <= base + 13 /\ d + 1 \in Int
        <5> HIDE DEF base
        <5> QED
          BY <2>t, <1>b, <2>13, <4>1
      <4> QED
        BY <4>2 DEF Scene
    <3>4. \A l \in Script : ~ (d + 1 <= Rank(l) /\ Rank(l) < base + 13)
      BY <1>t, <3>3, NextLine
    <3>5. base + 13 \in Int
      BY <1>b
    <3> HIDE DEF d, base
    <3> QED
      BY <1>t, <2>10, <2>11, <3>2, <3>3, <3>4, <3>5, PlayedGap
  <2> QED
    BY <1>t, <2>12, <2>13
<1>4. CASE Choose
  <2>1. ~ completed /\ ~ completed' /\ at = "choose" /\ at' = "close" /\ scene' = scene
        /\ step = Scene.steps /\ Scene.chooser # None
    BY <1>4 DEF Choose, HeardInv, PlaceInv, placeVars
  <2>2. Due = base + 13 /\ Due' = base + 14
    BY <1>t, <2>1 DEF Due
  <2>3. Played(events, base + 13)
    BY <2>1, <2>2 DEF ScriptInv, Playing
  <2>4. PICK text \in Texts, blanks \in Blanks :
          /\ Event("forced_choice", Scene.chooser, text, blanks) \in Events
          /\ events' = Append(events, Event("forced_choice", Scene.chooser, text, blanks))
    BY <1>4, ChooseAdds
  <2> DEFINE e == Event("forced_choice", Scene.chooser, text, blanks)
  <2>5. LineOf(e) = Line("forced_choice", scenario.scenes[scene].chooser, scene, scenario.scenes[scene].steps)
    BY <2>1 DEF LineOf, Event, Line, Scene
  <2>6. LineOf(e) \in Script
    BY <1>t, <2>1, <2>5, ScriptLines DEF InScene, Scene
  <2>7. Rank(LineOf(e)) = base + 13
    BY <2>5 DEF Rank, Line
  <2>8. \A l \in Script : base + 13 <= Rank(l) /\ Rank(l) < base + 14 => l = LineOf(e)
    BY <1>t, <2>5, NextLine
  <2> HIDE DEF e, base
  <2>9. Played(Append(events, e), base + 14)
    <3>1. base + 13 \in Int /\ (base + 13) + 1 = base + 14
      BY <1>b
    <3>2. Played(Append(events, e), (base + 13) + 1)
      BY <1>t, <2>3, <2>4, <2>6, <2>7, <2>8, <3>1, PlayedNext DEF e
    <3> QED
      BY <3>1, <3>2
  <2> QED
    BY <2>2, <2>4, <2>9 DEF e
<1>5. CASE CloseScene
  <2> DEFINE e == Event("scene_end", None, Fresh, 0)
  <2>1. e \in Events /\ events' = Append(events, e)
    BY <1>5, CloseAdds
  <2>2. ~ completed /\ step = Scene.steps
    BY <1>5 DEF CloseScene, HeardInv, PlaceInv
  <2>3. LineOf(e) = Line("scene_end", None, scene, scenario.scenes[scene].steps)
    BY <2>2 DEF LineOf, Event, Line, Scene
  <2>4. LineOf(e) \in Script
    BY <1>t, <2>3, ScriptLines DEF InScene
  <2>5. Rank(LineOf(e)) = base + 14
    BY <2>3 DEF Rank, Line
  <2>6. \A l \in Script : base + 14 <= Rank(l) /\ Rank(l) < base + 15 => l = LineOf(e)
    BY <1>t, <2>3, NextLine
  <2>7. Played(events, base + 14)
    <3>1. CASE at = "close"
      <4>1. Due = base + 14
        BY <2>2, <3>1 DEF Due
      <4> QED
        BY <3>1, <4>1 DEF ScriptInv, Playing
    <3>2. CASE at = "choose" /\ Scene.chooser = None
      <4>1. Due = base + 13
        BY <2>2, <3>2 DEF Due
      <4>2. Played(events, base + 13)
        BY <3>2, <4>1 DEF ScriptInv, Playing
      <4>3. \A l \in Script : ~ (base + 13 <= Rank(l) /\ Rank(l) < base + 14)
        BY <1>t, <3>2, NextLine DEF Scene
      <4>4. base + 13 \in Int /\ base + 14 \in Int /\ base + 13 <= base + 14
        BY <1>b
      <4> HIDE DEF base
      <4> QED
        BY <1>t, <4>2, <4>3, <4>4, PlayedGap
    <3> QED
      BY <1>5, <3>1, <3>2 DEF CloseScene
  <2>8. Due' = base + 15
    <3>1. CASE scene < Len(scenario.scenes)
      <4>1. scene' = scene + 1 /\ at' = "open" /\ ~ completed'
        BY <1>5, <2>2, <3>1 DEF CloseScene
      <4>2. Due' = 14 * ((scene + 1) - 1) + 1
        BY <4>1 DEF Due
      <4> QED
        BY <1>i, <4>2
    <3>2. CASE ~ (scene < Len(scenario.scenes))
      <4>1. scene' = scene /\ completed'
        BY <1>5, <3>2 DEF CloseScene
      <4> QED
        BY <4>1 DEF Due
    <3> QED
      BY <3>1, <3>2
  <2> HIDE DEF e, base
  <2>9. Played(Append(events, e), base + 15)
    <3>1. base + 14 \in Int /\ (base + 14) + 1 = base + 15
      BY <1>b
    <3>2. Played(Append(events, e), (base + 14) + 1)
      BY <1>t, <2>1, <2>4, <2>5, <2>6, <2>7, <3>1, PlayedNext
    <3> QED
      BY <3>1, <3>2
  <2> QED
    BY <2>1, <2>8, <2>9
<1>6. CASE ~ Build /\ ~ OpenScene /\ ~ Act /\ ~ Choose /\ ~ CloseScene
  <2>1. ~ Raise
    BY DEF Raise, CallsOut, HeardInv, Playing
  <2>2. events' = events /\ scene' = scene /\ step' = step /\ turn' = turn /\ completed' = completed
    BY <1>6, <2>1 DEF Next, Play, vars, playVars, placeVars,
       OpenOutput, WriteOutput, Die, TimesOut, NoResult, ReadResult, Unjudged, Judge
  <2>3. at' = at \/ at' \in {"flush", "exited", "dead"}
    BY <1>6, <2>1 DEF Next, Play, vars,
       OpenOutput, WriteOutput, Die, TimesOut, NoResult, ReadResult, Unjudged, Judge
  <2>4. (Playing \/ completed) /\ Due' = Due
    BY <2>2, <2>3 DEF Due, Playing
  <2> QED
    BY <2>2, <2>4 DEF ScriptInv
<1> QED
  BY <1>1, <1>2, <1>3, <1>4, <1>5, <1>6, Zenon

LEMMA SaidStep == TypeOK /\ SaidInv /\ [Next]_vars => SaidInv'
<1> SUFFICES ASSUME TypeOK, SaidInv, [Next]_vars, faults = {}
             PROVE  \A i \in DOMAIN events' :
                      /\ events'[i].blanks = 0
                      /\ events'[i].type \in {"action", "reflection", "forced_choice"} =>
                           events'[i].text = i + 1
  BY SetupStep DEF SaidInv
<1> DEFINE Own(e, i) == /\ e.blanks = 0
                        /\ e.type \in {"action", "reflection", "forced_choice"} => e.text = i + 1
<1>t. events \in Seq(Events) /\ Len(events) \in Nat /\ \A i \in DOMAIN events : Own(events[i], i)
  BY LenProperties DEF TypeOK, SaidInv
<1>f. Texts = {Fresh} /\ Blanks = {0} /\ Fresh = Len(events) + 2
  BY DEF Texts, Blanks, Fresh
<1>n. ASSUME NEW es \in Seq(Events), NEW e \in Events, \A i \in DOMAIN es : Own(es[i], i), Own(e, Len(es) + 1)
      PROVE  Append(es, e) \in Seq(Events) /\ \A i \in DOMAIN Append(es, e) : Own(Append(es, e)[i], i)
  <2>1. /\ DOMAIN Append(es, e) = DOMAIN es \union {Len(es) + 1}
        /\ DOMAIN es = 1 .. Len(es) /\ Len(es) \in Nat
        /\ \A i \in 1 .. Len(es) : Append(es, e)[i] = es[i]
        /\ Append(es, e)[Len(es) + 1] = e
        /\ Append(es, e) \in Seq(Events)
    BY AppendProperties, LenProperties
  <2> HIDE DEF Own
  <2> QED
    BY <1>n, <2>1
<1>1. CASE OpenScene
  <2> DEFINE x == Event("scene_start", None, Fresh, 0)
             y == Event("narration", None, Fresh, 0)
  <2>1. x \in Events /\ y \in Events /\ events' = Append(Append(events, x), y)
    BY <1>1, OpenAdds
  <2>2. \A i : Own(x, i) /\ Own(y, i)
    BY DEF Event
  <2> HIDE DEF Own, x, y
  <2>3. \A i \in DOMAIN events' : Own(events'[i], i)
    BY <1>t, <1>n, <2>1, <2>2
  <2> QED
    BY <2>3 DEF Own
<1>2. CASE Act
  <2>1. PICK text \in Texts, blanks \in Blanks :
          /\ Event(ActType(scene), scenario.order[turn], text, blanks) \in Events
          /\ events' = Append(events, Event(ActType(scene), scenario.order[turn], text, blanks))
    BY <1>2, ActAdds
  <2>2. Own(Event(ActType(scene), scenario.order[turn], text, blanks), Len(events) + 1)
    BY <1>t, <1>f DEF Event
  <2> HIDE DEF Own
  <2>3. \A i \in DOMAIN events' : Own(events'[i], i)
    BY <1>t, <1>n, <2>1, <2>2
  <2> QED
    BY <2>3 DEF Own
<1>3. CASE Choose
  <2>1. PICK text \in Texts, blanks \in Blanks :
          /\ Event("forced_choice", Scene.chooser, text, blanks) \in Events
          /\ events' = Append(events, Event("forced_choice", Scene.chooser, text, blanks))
    BY <1>3, ChooseAdds
  <2>2. Own(Event("forced_choice", Scene.chooser, text, blanks), Len(events) + 1)
    BY <1>t, <1>f DEF Event
  <2> HIDE DEF Own
  <2>3. \A i \in DOMAIN events' : Own(events'[i], i)
    BY <1>t, <1>n, <2>1, <2>2
  <2> QED
    BY <2>3 DEF Own
<1>4. CASE CloseScene
  <2> DEFINE e == Event("scene_end", None, Fresh, 0)
  <2>1. e \in Events /\ events' = Append(events, e)
    BY <1>4, CloseAdds
  <2>2. Own(e, Len(events) + 1)
    BY DEF Event
  <2> HIDE DEF Own, e
  <2>3. \A i \in DOMAIN events' : Own(events'[i], i)
    BY <1>t, <1>n, <2>1, <2>2
  <2> QED
    BY <2>3 DEF Own
<1>5. CASE events' = events
  BY <1>t, <1>5
<1> QED
  BY <1>1, <1>2, <1>3, <1>4, <1>5 DEF Next, Play, vars, playVars, Build, Raise,
     OpenOutput, WriteOutput, Die, TimesOut, NoResult, ReadResult, Unjudged, Judge

LEMMA OutputStep == TypeOK /\ HeardInv /\ OutputInv /\ [Next]_vars => OutputInv'
<1> SUFFICES ASSUME TypeOK, HeardInv, OutputInv, [Next]_vars PROVE OutputInv'
  OBVIOUS
<1>s. faults' = faults
  BY SetupStep
<1>1. CASE Play
  <2>1. /\ at' \in {"open", "act", "choose", "close", "write"} /\ at \notin {"exited", "dead"}
        /\ output' = output
    BY <1>1, PassTurnTyped DEF Play, Build, OpenScene, Act, Choose, CloseScene, TypeOK
  <2>2. at' = "write" => completed'
    BY <1>1, PassTurnTyped DEF Play, Build, OpenScene, Act, Choose, CloseScene
  <2> QED
    BY <1>s, <2>1, <2>2 DEF OutputInv
<1>2. CASE Raise
  <2>1. at \notin {"exited", "dead"} /\ "error" \in faults
    BY <1>2 DEF Raise, CallsOut
  <2> QED
    BY <1>2, <1>s, <2>1 DEF Raise, OutputInv
<1>3. CASE OpenOutput
  <2>1. at = "write" /\ at' = "flush" /\ completed' = completed /\ output'.state = "torn"
    BY <1>3 DEF OpenOutput, playVars, TypeOK
  <2> QED
    BY <1>s, <2>1 DEF OutputInv
<1>4. CASE WriteOutput
  BY <1>4, <1>s DEF WriteOutput, OutputInv, playVars
<1>5. CASE Die
  BY <1>5, <1>s DEF Die, OutputInv, playVars
<1>6. CASE TimesOut
  BY <1>6, <1>s DEF TimesOut, OutputInv, playVars
<1>7. CASE at' = at /\ output' = output /\ events' = events /\ completed' = completed
  BY <1>7, <1>s DEF OutputInv
<1> QED
  BY <1>1, <1>2, <1>3, <1>4, <1>5, <1>6, <1>7 DEF Next, vars, playVars, NoResult, ReadResult, Unjudged, Judge

-----------------------------------------------------------------------------
(***************************************************************************)
(* What a whole play amounts to.                                           *)
(***************************************************************************)

LEMMA RankOrder ==
  ASSUME scenario \in Scenarios, NEW l1 \in Script, NEW l2 \in Script, Rank(l1) < Rank(l2)
  PROVE  l1.scene < l2.scene \/ (l1.scene = l2.scene /\ l1.step <= l2.step)
<1>1. PICK n1 \in DOMAIN scenario.scenes : InScene(l1, n1)
  BY ScriptLines, Zenon
<1>2. PICK n2 \in DOMAIN scenario.scenes : InScene(l2, n2)
  BY ScriptLines, Zenon
<1>3. /\ n1 \in Int /\ l1.scene = n1 /\ Rank(l1) \in Int /\ 14 * (n1 - 1) < Rank(l1) /\ Rank(l1) <= 14 * n1
      /\ n2 \in Int /\ l2.scene = n2 /\ Rank(l2) \in Int /\ 14 * (n2 - 1) < Rank(l2) /\ Rank(l2) <= 14 * n2
  BY <1>1, <1>2, Placed, CastLegal
<1>4. n1 <= n2
  BY <1>3
<1>5. ASSUME n1 = n2 PROVE l1.step <= l2.step
  <2> DEFINE base == 14 * (n1 - 1)
             steps == scenario.scenes[n1].steps
             Stepped(l) == \/ Rank(l) <= base + 2 /\ l.step = 0
                           \/ /\ l.step \in 0 .. steps - 1
                              /\ Rank(l) \in {base + 2 * l.step + 3, base + 2 * l.step + 4}
                           \/ Rank(l) >= base + 13 /\ l.step = steps
  <2>1. steps \in 1 .. 5 /\ base \in Int
    BY <1>3, CastLegal
  <2>2. ASSUME NEW l \in Script, 14 * (n1 - 1) < Rank(l), Rank(l) <= 14 * n1 PROVE Stepped(l)
    <3>1. CASE Rank(l) = base + 1 /\ l = Line("scene_start", None, n1, 0)
      BY <2>1, <3>1 DEF Line
    <3>2. CASE Rank(l) = base + 2 /\ l = Line("narration", None, n1, 0)
      BY <2>1, <3>2 DEF Line
    <3>3. ASSUME NEW t \in 1 .. 2, NEW k \in 0 .. steps - 1,
                 Rank(l) = base + 2 * k + t + 2, l = Line(ActType(n1), scenario.order[t], n1, k)
          PROVE  Stepped(l)
      <4>1. l.step = k
        BY <3>3 DEF Line
      <4>2. k \in Int
        BY <2>1
      <4>3. Rank(l) \in {base + 2 * k + 3, base + 2 * k + 4}
        BY <2>1, <3>3, <4>2
      <4> QED
        BY <4>1, <4>3
    <3>4. CASE Rank(l) = base + 13 /\ l = Line("forced_choice", scenario.scenes[n1].chooser, n1, steps)
      BY <2>1, <3>4 DEF Line
    <3>5. CASE Rank(l) = base + 14 /\ l = Line("scene_end", None, n1, steps)
      BY <2>1, <3>5 DEF Line
    <3> HIDE DEF Stepped
    <3> QED
      BY <2>2, <3>1, <3>2, <3>3, <3>4, <3>5, LineAt
  <2>3. Stepped(l1) /\ Stepped(l2)
    BY <1>3, <1>5, <2>2
  <2> HIDE DEF base, steps
  <2> QED
    BY <1>3, <2>1, <2>3
<1> QED
  BY <1>3, <1>4, <1>5

LEMMA WholeFromPlayed ==
  ASSUME TypeOK, PlaceInv, ScriptInv, completed
  PROVE  WholePlay(events) /\ Extracted(events) = events
<1> DEFINE N == Len(scenario.scenes)
<1>1. scenario \in Scenarios /\ events \in Seq(Events) /\ Len(events) \in Nat /\ DOMAIN events = 1 .. Len(events)
  BY LenProperties DEF TypeOK
<1>2. N \in 1 .. 10 /\ \A n \in DOMAIN scenario.scenes : n \in Int /\ n <= N
  <2>1. N \in 1 .. 10 /\ DOMAIN scenario.scenes = 1 .. N
    BY <1>1, CastLegal, ScenarioLegal, Zenon
  <2> HIDE DEF N
  <2> QED
    BY <2>1
<1>3. Due = 14 * (N - 1) + 15
  BY DEF PlaceInv, Due
<1>4. Played(events, 14 * (N - 1) + 15)
  BY <1>3 DEF ScriptInv
<1>5. ASSUME NEW l \in Script PROVE Rank(l) < 14 * (N - 1) + 15
  <2>1. PICK n \in DOMAIN scenario.scenes : InScene(l, n)
    BY ScriptLines, Zenon
  <2>2. Rank(l) \in Int /\ Rank(l) <= 14 * n
    BY <1>1, <2>1, Placed
  <2> QED
    BY <1>2, <2>2
<1>6. {LineOf(events[i]) : i \in DOMAIN events} = Script
  BY <1>4, <1>5 DEF Played
<1>7. ASSUME NEW i \in DOMAIN events, NEW j \in DOMAIN events, i < j
      PROVE  Rank(LineOf(events[i])) < Rank(LineOf(events[j]))
  BY <1>4, <1>7 DEF Played
<1>8. ASSUME NEW i \in DOMAIN events, NEW j \in DOMAIN events, i # j
      PROVE  LineOf(events[i]) # LineOf(events[j])
  <2>1. i < j \/ j < i
    BY <1>1, <1>8
  <2>2. Rank(LineOf(events[i])) \in Int /\ Rank(LineOf(events[j])) \in Int
    BY <1>1, <1>6, ScriptLines, Placed
  <2> QED
    BY <1>7, <2>1, <2>2
<1>9. ASSUME NEW i \in DOMAIN events, NEW j \in DOMAIN events, i < j
      PROVE  \/ events[i].scene < events[j].scene
             \/ events[i].scene = events[j].scene /\ events[i].step <= events[j].step
  <2>1. \A k \in DOMAIN events : LineOf(events[k]).scene = events[k].scene /\ LineOf(events[k]).step = events[k].step
    BY DEF LineOf, Line
  <2>2. LineOf(events[i]) \in Script /\ LineOf(events[j]) \in Script
    BY <1>6
  <2> QED
    BY <1>1, <1>7, <1>9, <2>1, <2>2, RankOrder
<1>10. WholePlay(events)
  BY <1>6, <1>8, <1>9 DEF WholePlay
<1>11. Extracted(events) = events
  <2>1. Len(events) < 14 * (N - 1) + 15
    BY <1>4 DEF Played
  <2>2. Len(events) <= 140
    <3> HIDE DEF N
    <3> QED
      BY <1>1, <1>2, <2>1
  <2>3. MaxEvents \in Nat /\ MaxEvents >= 140
    BY LimitsAssumption, SimulationAssumption, Zenon
  <2>4. (IF Len(events) < MaxEvents THEN Len(events) ELSE MaxEvents) = Len(events)
    <3>1. \A m, n \in Nat : m <= 140 /\ n >= 140 => (IF m < n THEN m ELSE n) = m
      OBVIOUS
    <3> QED
      BY <1>1, <2>2, <2>3, <3>1
  <2>5. Extracted(events) = SubSeq(events, 1, Len(events))
    BY <2>4 DEF Extracted
  <2> QED
    BY <1>1, <2>5, SubSeqProperties
<1> QED
  BY <1>10, <1>11

\* Where one agent acts, so does the other.
LEMMA Counterpart ==
  ASSUME scenario \in Scenarios, NEW l \in Script, l.type \in {"action", "reflection"}
  PROVE  /\ l.agent \in Agents
         /\ \A a \in Agents : Line(l.type, a, l.scene, l.step) \in Script
<1>1. PICK n \in DOMAIN scenario.scenes : InScene(l, n)
  BY ScriptLines, Zenon
<1>2. PICK a \in Agents, k \in 0 .. scenario.scenes[n].steps - 1 : l = Line(ActType(n), a, n, k)
  BY <1>1 DEF InScene, Line
<1>3. l.type = ActType(n) /\ l.agent = a /\ l.scene = n /\ l.step = k
  BY <1>2 DEF Line
<1>4. \A b \in Agents : Line(ActType(n), b, n, k) \in Script
  BY ScriptLines DEF InScene
<1> QED
  BY <1>3, <1>4

\* Every agent acts in a whole play, from the first step of the first scene.
LEMMA EachActs ==
  ASSUME scenario \in Scenarios, NEW t \in Seq(Events), WholePlay(t), NEW a \in Agents
  PROVE  \E i \in ContentEvents(t) : t[i].agent = a
<1>1. 1 \in DOMAIN scenario.scenes /\ 0 \in 0 .. scenario.scenes[1].steps - 1
  BY ScenarioLegal
<1>2. Line(ActType(1), a, 1, 0) \in Script
  BY <1>1, ScriptLines DEF InScene
<1>3. PICK i \in DOMAIN t : LineOf(t[i]) = Line(ActType(1), a, 1, 0)
  BY <1>2 DEF WholePlay
<1>4. t[i].type = ActType(1) /\ t[i].agent = a
  BY <1>3 DEF LineOf, Line
<1>5. ActType(1) \in {"action", "reflection"}
  BY DEF ActType
<1> QED
  BY <1>3, <1>4, <1>5 DEF ContentEvents, Of

\* Nobody who keeps silent throughout has said enough.
LEMMA EachSpeaks ==
  ASSUME scenario \in Scenarios, NEW t \in Seq(Events), WholePlay(t), EnoughSaid(t), NEW a \in Agents
  PROVE  \E i \in Saying(t) : t[i].agent = a
<1> DEFINE C == ContentEvents(t)
           By(x) == {i \in C : t[i].agent = x}
<1>1. PICK b \in Agents : b # a /\ Agents = {a, b}
  BY CastLegal
<1>2. /\ DOMAIN t = 1 .. Len(t) /\ Len(t) \in Nat
      /\ C \subseteq DOMAIN t /\ \A i \in C : t[i].type \in {"action", "reflection"}
      /\ \A i \in DOMAIN t : t[i].type \in {"action", "reflection"} => i \in C
  BY LenProperties DEF ContentEvents, Of
<1>3. IsFiniteSet(C) /\ IsFiniteSet(By(a)) /\ IsFiniteSet(By(b)) /\ IsFiniteSet(C \ Saying(t))
  <2>1. IsFiniteSet(DOMAIN t)
    BY <1>2, FS_Interval
  <2>2. IsFiniteSet(C)
    BY <1>2, <2>1, FS_Subset
  <2> HIDE DEF C
  <2> QED
    BY <2>2, FS_Subset
<1>4. \A i \in DOMAIN t :
        /\ LineOf(t[i]) \in Script
        /\ LineOf(t[i]).type = t[i].type /\ LineOf(t[i]).agent = t[i].agent
        /\ LineOf(t[i]).scene = t[i].scene /\ LineOf(t[i]).step = t[i].step
  BY DEF WholePlay, LineOf, Line
<1>5. C = By(a) \union By(b) /\ By(a) \intersect By(b) = {}
  <2>1. \A i \in C : t[i].agent \in Agents
    BY <1>2, <1>4, Counterpart
  <2> QED
    BY <1>1, <2>1
<1>6. \A i \in By(b) : \E j \in By(a) : LineOf(t[j]) = Line(t[i].type, a, t[i].scene, t[i].step)
  <2> TAKE i \in By(b)
  <2>1. Line(t[i].type, a, t[i].scene, t[i].step) \in Script
    <3>1. i \in DOMAIN t /\ t[i].type \in {"action", "reflection"}
      BY <1>2
    <3> QED
      BY <1>4, <3>1, Counterpart
  <2>2. PICK j \in DOMAIN t : LineOf(t[j]) = Line(t[i].type, a, t[i].scene, t[i].step)
    BY <2>1 DEF WholePlay
  <2>3. t[j].type = t[i].type /\ t[j].agent = a
    BY <2>2 DEF LineOf, Line
  <2>4. j \in By(a)
    BY <1>2, <2>3
  <2> QED
    BY <2>2, <2>4
<1> DEFINE f == [i \in By(b) |->
                   CHOOSE j \in By(a) : LineOf(t[j]) = Line(t[i].type, a, t[i].scene, t[i].step)]
<1>7. \A i \in By(b) : f[i] \in By(a) /\ LineOf(t[f[i]]) = Line(t[i].type, a, t[i].scene, t[i].step)
  BY <1>6
<1>8. ASSUME NEW i \in By(b), NEW j \in By(b), f[i] = f[j] PROVE i = j
  <2>1. Line(t[i].type, a, t[i].scene, t[i].step) = Line(t[j].type, a, t[j].scene, t[j].step)
    BY <1>7, <1>8
  <2>2. t[i].type = t[j].type /\ t[i].scene = t[j].scene /\ t[i].step = t[j].step
    BY <2>1 DEF Line
  <2>3. LineOf(t[i]) = LineOf(t[j])
    BY <2>2 DEF LineOf
  <2> QED
    BY <1>2, <2>3 DEF WholePlay
<1>9. Cardinality(By(b)) <= Cardinality(By(a))
  <2>1. f \in Injection(By(b), By(a))
    <3> HIDE DEF By
    <3>1. f \in [By(b) -> By(a)]
      BY <1>7
    <3> QED
      BY <1>8, <3>1, Fun_IsInj
  <2> HIDE DEF f, By
  <2> QED
    BY <1>3, <2>1, FS_Injection
<1>10. Cardinality(C) = Cardinality(By(a)) + Cardinality(By(b))
  <2> HIDE DEF C, By
  <2>1. Cardinality(By(a) \union By(b)) = Cardinality(By(a)) + Cardinality(By(b)) - Cardinality({})
    BY <1>3, <1>5, FS_Union
  <2>2. Cardinality(By(a)) \in Nat /\ Cardinality(By(b)) \in Nat /\ Cardinality({}) = 0
    BY <1>3, FS_CardinalityType, FS_EmptySet
  <2> QED
    BY <1>5, <2>1, <2>2
<1>11. By(a) # {}
  BY EachActs
<1>12. SUFFICES ASSUME \A i \in Saying(t) : t[i].agent # a PROVE FALSE
  OBVIOUS
<1>13. By(a) \subseteq C \ Saying(t)
  BY <1>12
<1>14. 10 * Cardinality(C \ Saying(t)) <= 3 * Cardinality(C)
  BY DEF EnoughSaid
<1> HIDE DEF C, By
<1>15. Cardinality(By(a)) <= Cardinality(C \ Saying(t))
  BY <1>3, <1>13, FS_Subset
<1>16. /\ Cardinality(By(a)) \in Nat /\ Cardinality(By(b)) \in Nat
       /\ Cardinality(C) \in Nat /\ Cardinality(C \ Saying(t)) \in Nat
  BY <1>3, FS_CardinalityType
<1>17. Cardinality(By(a)) = 0
  BY <1>9, <1>10, <1>14, <1>15, <1>16
<1> QED
  BY <1>3, <1>11, <1>17, FS_EmptySet

\* A play in which nothing went wrong is coherent, the shortest included.
LEMMA FaultlessCoherent ==
  ASSUME TypeOK, PlaceInv, ScriptInv, LengthInv, SaidInv, completed, faults = {}
  PROVE  Coherent(events, completed)
<1> DEFINE C == ContentEvents(events)
           texts == {events[i].text : i \in Saying(events)}
<1>1. /\ scenario \in Scenarios /\ events \in Seq(Events) /\ Len(events) \in Nat
      /\ DOMAIN events = 1 .. Len(events) /\ WholePlay(events)
  BY LenProperties, WholeFromPlayed DEF TypeOK
<1>2. C \subseteq DOMAIN events /\ \A i \in C : events[i].text = i + 1 /\ events[i].blanks = 0
  BY DEF ContentEvents, Of, SaidInv
<1>3. Saying(events) = C
  BY <1>1, <1>2 DEF Saying, Silent
<1>4. IsFiniteSet(C)
  <2>1. IsFiniteSet(DOMAIN events)
    BY <1>1, FS_Interval
  <2> HIDE DEF C
  <2> QED
    BY <1>2, <2>1, FS_Subset
<1>5. Len(events) >= MinEvents
  BY <1>1, LimitsAssumption, SimulationAssumption DEF LengthInv
<1>6. Participants(events) = Agents
  <2>1. \A i \in DOMAIN events : events[i].agent \in Agents \union {None}
    <3>1. \A i \in DOMAIN events : events[i] \in Events
      BY <1>1, ElementOfSeq
    <3> QED
      BY <3>1 DEF Events
  <2>2. \A a \in Agents : \E i \in DOMAIN events : events[i].agent = a
    BY <1>1, <1>2, EachActs, Zenon
  <2>3. None \notin Agents
    BY SimulationAssumption, Zenon
  <2> QED
    BY <2>1, <2>2, <2>3 DEF Participants
<1>7. EnoughSaid(events)
  <2>1. \A i \in Choices(events) : events[i].text # Silent
    BY <1>1 DEF Choices, Of, SaidInv, Silent
  <2>2. C \ Saying(events) = {}
    BY <1>3
  <2>3. Cardinality(C \ Saying(events)) = 0 /\ Cardinality(C) \in Nat
    BY <1>4, <2>2, FS_EmptySet, FS_CardinalityType
  <2> HIDE DEF C
  <2>4. 10 * Cardinality(C \ Saying(events)) <= 3 * Cardinality(C)
    BY <2>3
  <2> QED
    BY <2>1, <2>4 DEF EnoughSaid, C
<1>8. Varied(events)
  <2> DEFINE f == [i \in C |-> events[i].text]
  <2>1. f \in Surjection(C, texts)
    <3>1. f \in [C -> texts] /\ \A x \in texts : \E i \in C : f[i] = x
      BY <1>3
    <3> HIDE DEF f, texts, C
    <3> QED
      BY <3>1, Fun_IsSurj
  <2>2. f \in Injection(C, texts)
    <3>1. f \in [C -> texts]
      BY <1>3
    <3>2. \A i, j \in C : f[i] = f[j] => i = j
      BY <1>1, <1>2
    <3> HIDE DEF f, texts, C
    <3> QED
      BY <3>1, <3>2, Fun_IsInj
  <2> HIDE DEF f, texts, C
  <2>3. Cardinality(texts) = Cardinality(C) /\ Cardinality(C) \in Nat
    BY <1>4, <2>1, <2>2, FS_Surjection, FS_CardinalityType
  <2>4. 2 * Cardinality(texts) >= Cardinality(C)
    BY <2>3
  <2> QED
    BY <1>3, <2>4 DEF Varied, texts
<1>9. Reasoned(events)
  BY <1>2, CotStepsTyped DEF Reasoned
<1> QED
  BY <1>5, <1>6, <1>7, <1>8, <1>9 DEF Coherent

LEMMA StageStep ==
  /\ TypeOK /\ PlaceInv /\ ScriptInv /\ LengthInv /\ SaidInv /\ OutputInv /\ StageInv
  /\ [Next]_vars
  => StageInv'
<1> SUFFICES ASSUME TypeOK, PlaceInv, ScriptInv, LengthInv, SaidInv, OutputInv, StageInv, [Next]_vars
             PROVE  StageInv'
  OBVIOUS
<1>s. scenario' = scenario /\ judging' = judging /\ faults' = faults
  BY SetupStep
<1>1. CASE Play \/ Raise \/ OpenOutput \/ WriteOutput \/ Die
  <2>1. at \notin {"exited", "dead"} /\ stage' = stage
    BY <1>1 DEF Play, Build, OpenScene, Act, Choose, CloseScene, Raise, CallsOut, OpenOutput, WriteOutput,
       Die, verdictVars
  <2>2. stage \notin {"judge", "passed"}
    BY <2>1 DEF StageInv, OutputInv
  <2> QED
    BY <1>s, <2>1, <2>2 DEF StageInv
<1>2. CASE TimesOut
  BY <1>2, <1>s DEF TimesOut, StageInv
<1>3. CASE NoResult
  <2>1. faults # {}
    BY <1>3 DEF NoResult, Ended, OutputInv
  <2> QED
    BY <1>3, <1>s, <2>1 DEF NoResult, StageInv
<1>4. CASE ReadResult
  <2>1. /\ output.events = events /\ output.completed = completed /\ output.state = "whole"
        /\ output' = output /\ events' = events /\ completed' = completed
        /\ transcript' = Extracted(events)
        /\ stage' = IF Coherent(transcript', completed) THEN "judge" ELSE "rejected"
    BY <1>4 DEF ReadResult, OutputInv, playVars
  <2>2. ASSUME faults = {} PROVE Coherent(transcript', completed)
    <3>1. completed
      BY <1>4, <2>2 DEF ReadResult, Ended, OutputInv
    <3>2. transcript' = events
      BY <2>1, <3>1, WholeFromPlayed
    <3> QED
      BY <2>2, <3>1, <3>2, FaultlessCoherent
  <2> QED
    BY <1>s, <2>1, <2>2 DEF StageInv
<1>5. CASE Unjudged
  BY <1>5, <1>s DEF Unjudged, StageInv, playVars
<1>6. CASE Judge
  <2>1. PICK relevant \in MayAnswer, meaningful \in [Choices(transcript) -> MayAnswer],
             aligned \in [Philosophers -> MayAnswer] :
          /\ opinions' = [relevant |-> {relevant},
                          meaningful |-> {<<i, meaningful[i]>> : i \in Choices(transcript)},
                          aligned |-> {<<a, aligned[a]>> : a \in Philosophers}]
          /\ stage' = IF /\ Coherent(transcript, output.completed)
                         /\ relevant = "yes"
                         /\ \A i \in Choices(transcript) : meaningful[i] = "yes"
                         /\ \A a \in Philosophers : aligned[a] = "yes"
                      THEN "passed" ELSE "rejected"
    BY <1>6 DEF Judge
  <2>2. /\ stage = "judge" /\ output' = output /\ events' = events /\ completed' = completed
        /\ transcript' = transcript
    BY <1>6 DEF Judge, playVars
  <2>3. Coherent(transcript, output.completed)
    BY <2>2 DEF StageInv, OutputInv
  <2>4. ASSUME faults = {} PROVE stage' = "passed"
    <3>1. MayAnswer = {"yes"}
      BY <2>4 DEF MayAnswer
    <3> QED
      BY <2>1, <2>3, <3>1
  <2>5. ASSUME stage' = "passed" PROVE Upheld'
    <3>1. /\ relevant = "yes"
          /\ \A i \in Choices(transcript) : meaningful[i] = "yes"
          /\ \A a \in Philosophers : aligned[a] = "yes"
      BY <2>1, <2>5
    <3>2. Choices(transcript') = Choices(transcript) /\ Philosophers' = Philosophers
      BY <1>s, <2>2 DEF Philosophers
    <3> QED
      BY <2>1, <3>1, <3>2 DEF Upheld
  <2>6. stage' \in {"passed", "rejected"}
    BY <2>1
  <2> QED
    BY <1>s, <2>2, <2>4, <2>5, <2>6 DEF StageInv
<1>7. CASE UNCHANGED vars
  BY <1>7 DEF vars, playVars, placeVars, verdictVars, setupVars, StageInv, Upheld, Philosophers
<1> QED
  BY <1>1, <1>2, <1>3, <1>4, <1>5, <1>6, <1>7 DEF Next

LEMMA Just == VInv => VerdictJust
<1> SUFFICES ASSUME VInv PROVE VerdictJust
  OBVIOUS
<1>1. ASSUME stage = "passed"
      PROVE  /\ scenario \in Scenarios /\ transcript \in Seq(Events)
             /\ WholePlay(transcript) /\ EnoughSaid(transcript)
  <2>1. completed /\ transcript = Extracted(events) /\ Coherent(transcript, completed)
    BY <1>1 DEF VInv, StageInv, Coherent
  <2>2. WholePlay(events) /\ Extracted(events) = events
    BY <2>1, WholeFromPlayed DEF VInv, IInv
  <2> QED
    BY <2>1, <2>2 DEF Coherent, VInv, IInv, TypeOK
<1>2. ASSUME stage = "passed", judging,
             NEW n \in DOMAIN scenario.scenes, scenario.scenes[n].chooser # None
      PROVE  \E i \in DOMAIN transcript :
               /\ LineOf(transcript[i]).type = "forced_choice" /\ transcript[i].scene = n
               /\ <<i, "yes">> \in opinions.meaningful
  <2>1. Line("forced_choice", scenario.scenes[n].chooser, n, scenario.scenes[n].steps) \in Script
    BY <1>2, ScriptLines DEF InScene
  <2>2. PICK i \in DOMAIN transcript :
          LineOf(transcript[i]) =
            Line("forced_choice", scenario.scenes[n].chooser, n, scenario.scenes[n].steps)
    BY <1>1, <1>2, <2>1 DEF WholePlay
  <2>3. transcript[i].type = "forced_choice" /\ transcript[i].scene = n
        /\ LineOf(transcript[i]).type = "forced_choice"
    BY <2>2 DEF LineOf, Line
  <2>4. <<i, "yes">> \in opinions.meaningful
    BY <1>2, <2>3 DEF VInv, StageInv, Upheld, Choices, Of
  <2> QED
    BY <2>3, <2>4
<1>3. ASSUME stage = "passed", judging, NEW a \in scenario.philosophical
      PROVE  <<a, "yes">> \in opinions.aligned
  <2>1. a \in Agents
    BY <1>1, <1>3, ScenarioLegal
  <2>2. a \in Philosophers
    BY <1>1, <1>3, <2>1, EachActs DEF Philosophers
  <2> QED
    BY <1>3, <2>2 DEF VInv, StageInv, Upheld
<1>4. ASSUME stage = "passed", NEW a \in Agents PROVE \E i \in Saying(transcript) : transcript[i].agent = a
  BY <1>1, <1>4, EachSpeaks
<1>5. /\ stage = "passed" /\ judging => opinions.relevant = {"yes"}
      /\ stage = "rejected" => faults # {}
  BY DEF VInv, StageInv, Upheld
<1> QED
  BY <1>1, <1>2, <1>3, <1>4, <1>5 DEF VerdictJust

-----------------------------------------------------------------------------
(***************************************************************************)
(* The theorem about verdicts.                                             *)
(***************************************************************************)

LEMMA InitiallyJust == Init => PlaceInv /\ ScriptInv /\ LengthInv /\ SaidInv /\ OutputInv /\ StageInv
<1> SUFFICES ASSUME Init PROVE PlaceInv /\ ScriptInv /\ LengthInv /\ SaidInv /\ OutputInv /\ StageInv
  OBVIOUS
<1> QED
  BY DEF Init, Playing, PlaceInv, ScriptInv, LengthInv, SaidInv, OutputInv, StageInv

THEOREM VerdictInvariance == Spec => []VInv
<1>1. Init => VInv
  BY Initially, InitiallyJust DEF VInv
<1>2. VInv /\ [Next]_vars => VInv'
  BY TypeStep, SceneStep, HeardStep, PlaceStep, ScriptStep, LengthStep, SaidStep, OutputStep, StageStep
  DEF VInv, IInv
<1> QED
  BY <1>1, <1>2, PTL DEF Spec

(***************************************************************************)
(* In scenarios of any number of scenes and steps the schema allows: what  *)
(* passes is the whole play, in order, in which every agent spoke and      *)
(* which the judge upheld, whenever the container died and whatever it     *)
(* left; and where nothing goes wrong nothing is rejected.                 *)
(***************************************************************************)
THEOREM VerdictsAreJust == Spec => []VerdictJust
  BY VerdictInvariance, Just, PTL

-----------------------------------------------------------------------------
(***************************************************************************)
(* How far a play is: what its end rests on.                               *)
(***************************************************************************)

\* The place in the script that is due, and what comes before and after the play.
Moment ==
  IF at = "build" THEN 0
  ELSE IF Playing THEN Due
  ELSE IF at = "write" THEN 142
  ELSE IF at = "flush" THEN 143
  ELSE IF at = "exited" THEN 144
  ELSE 145

\* The place that is due in a play under way.
DuePlace ==
  /\ Due \in 1 .. 140 /\ scene \in 1 .. 10
  /\ at = "open" => Due = 14 * (scene - 1) + 1
  /\ at = "act" => /\ Due = 14 * (scene - 1) + 2 * step + turn + 2
                   /\ step \in 0 .. 4 /\ turn \in 1 .. 2
  /\ at = "choose" => Due = 14 * (scene - 1) + 13
  /\ at = "close" => Due = 14 * (scene - 1) + 14

LEMMA DueInRange == TypeOK /\ HeardInv /\ Playing => DuePlace /\ Moment = Due
<1> SUFFICES ASSUME TypeOK, HeardInv, Playing PROVE DuePlace /\ Moment = Due
  OBVIOUS
<1>1. ~ completed /\ at \in {"open", "act", "choose", "close"} /\ Moment = Due
  BY DEF HeardInv, Playing, Moment
<1>2. scene \in 1 .. 10 /\ scenario.scenes[scene].steps \in 1 .. 5
  BY CastLegal DEF TypeOK
<1>3. turn \in 1 .. 2
  BY ScenarioLegal DEF TypeOK
<1>4. at = "act" => step \in 0 .. 4
  BY <1>2 DEF TypeOK
<1>5. CASE at = "act"
  <2>1. Due = 14 * (scene - 1) + (2 * step + turn + 2)
    BY <1>1, <1>5 DEF Due
  <2>2. Due = 14 * (scene - 1) + 2 * step + turn + 2 /\ Due \in 1 .. 140
    BY <1>2, <1>3, <1>4, <1>5, <2>1
  <2> QED
    BY <1>1, <1>2, <1>3, <1>4, <1>5, <2>2 DEF DuePlace
<1>6. CASE at \in {"open", "choose", "close"}
  <2>1. /\ at = "open" => Due = 14 * (scene - 1) + 1
        /\ at = "choose" => Due = 14 * (scene - 1) + 13
        /\ at = "close" => Due = 14 * (scene - 1) + 14
    BY <1>1 DEF Due
  <2>2. Due \in 1 .. 140
    BY <1>2, <1>6, <2>1
  <2> QED
    BY <1>1, <1>2, <1>6, <2>1, <2>2 DEF DuePlace
<1> QED
  BY <1>1, <1>5, <1>6

LEMMA DueInRangeNext == (TypeOK /\ HeardInv /\ Playing => DuePlace /\ Moment = Due)'
BY DueInRange, PTL

LEMMA MomentInRange == TypeOK /\ HeardInv => Moment \in 0 .. 145
<1> SUFFICES ASSUME TypeOK, HeardInv PROVE Moment \in 0 .. 145
  OBVIOUS
<1>1. CASE Playing
  BY <1>1, DueInRange DEF DuePlace
<1>2. CASE ~ Playing
  BY <1>2 DEF Moment
<1> QED
  BY <1>1, <1>2

\* Every step of the program in the container takes it to a later moment.
LEMMA PlayStep ==
  ASSUME TypeOK, SceneInv, HeardInv, PlaceInv, TypeOK', HeardInv', Play
  PROVE  Moment < Moment'
<1>1. Playing => DuePlace /\ Moment = Due
  BY DueInRange
<1>2. Playing' => DuePlace' /\ Moment' = Due'
  BY DueInRangeNext
<1>3. CASE Build
  <2>1. Moment = 0 /\ Playing'
    BY <1>3 DEF Build, Moment, Playing
  <2> QED
    BY <1>2, <2>1 DEF DuePlace
<1>4. CASE OpenScene
  <2>1. at = "open" /\ at' = "act" /\ scene' = scene /\ Playing /\ Playing'
    BY <1>4 DEF OpenScene, placeVars, Playing
  <2> QED
    BY <1>1, <1>2, <2>1 DEF DuePlace
<1>5. CASE Act
  <2>1. at = "act" /\ scene' = scene /\ PassTurn /\ Len(scenario.order) = 2
    BY <1>5, ScenarioLegal DEF Act, TypeOK
  <2>2. /\ Due = 14 * (scene - 1) + 2 * step + turn + 2 /\ Moment = Due
        /\ step \in 0 .. 4 /\ turn \in 1 .. 2 /\ scene \in 1 .. 10
    BY <1>1, <2>1 DEF Playing, DuePlace
  <2>3. \/ turn = 1 /\ turn' = 2 /\ step' = step /\ at' = "act"
        \/ turn = 2 /\ turn' = 1 /\ step' = step + 1 /\ at' \in {"act", "choose"}
    BY <2>1, <2>2 DEF PassTurn
  <2>4. Playing' /\ (at' = "act" \/ at' = "choose")
    BY <2>3 DEF Playing
  <2>5. /\ at' = "act" => Due' = 14 * (scene - 1) + 2 * step' + turn' + 2
        /\ at' = "choose" => Due' = 14 * (scene - 1) + 13
        /\ Moment' = Due'
    BY <1>2, <2>1, <2>4 DEF DuePlace
  <2> QED
    BY <2>2, <2>3, <2>5
<1>6. CASE Choose
  <2>1. at = "choose" /\ at' = "close" /\ scene' = scene /\ Playing /\ Playing'
    BY <1>6 DEF Choose, placeVars, Playing
  <2> QED
    BY <1>1, <1>2, <2>1 DEF DuePlace
<1>7. CASE CloseScene
  <2>1. at \in {"choose", "close"} /\ Playing
    BY <1>7 DEF CloseScene, Playing
  <2>2. Moment <= 14 * (scene - 1) + 14 /\ Moment \in 1 .. 140 /\ scene \in 1 .. 10
    BY <1>1, <2>1 DEF DuePlace
  <2>3. CASE scene' = scene + 1 /\ at' = "open"
    <3>1. Moment' = 14 * ((scene + 1) - 1) + 1
      BY <1>2, <2>3 DEF DuePlace, Playing
    <3> QED
      BY <2>2, <3>1
  <2>4. CASE at' = "write"
    <3>1. Moment' = 142
      BY <2>4 DEF Moment, Playing
    <3> QED
      BY <2>2, <3>1
  <2> QED
    BY <1>7, <2>3, <2>4 DEF CloseScene
<1> QED
  BY <1>3, <1>4, <1>5, <1>6, <1>7 DEF Play

LEMMA AfterPlayStep ==
  ASSUME TypeOK, HeardInv,
         Raise \/ OpenOutput \/ WriteOutput \/ Die \/ (at' = "dead" /\ at # "dead")
  PROVE  Moment < Moment'
<1>1. Playing => Moment \in 1 .. 140
  BY DueInRange DEF DuePlace
<1>2. at \in {"build", "open", "act", "choose", "close", "write", "flush", "exited", "dead"}
  BY DEF TypeOK
<1>3. CASE Raise
  <2>1. Moment' = 142
    BY <1>3 DEF Raise, Moment, Playing
  <2>2. Playing \/ Moment = 0
    BY <1>3 DEF Raise, CallsOut, Moment, Playing
  <2> QED
    BY <1>1, <2>1, <2>2
<1>4. CASE OpenOutput \/ WriteOutput
  BY <1>4 DEF OpenOutput, WriteOutput, Moment, Playing
<1>5. CASE at' = "dead" /\ at # "dead"
  <2>1. Moment' = 145
    BY <1>5 DEF Moment, Playing
  <2>2. Playing \/ Moment \in {0, 142, 143, 144}
    BY <1>2, <1>5 DEF Moment, Playing
  <2> QED
    BY <1>1, <2>1, <2>2
<1> QED
  BY <1>3, <1>4, <1>5 DEF Die

\* A program that runs gets on, to a later place in the script, to its output or
\* to its end, or stays where it is while the runner and the pipeline go on.
PlayOnlyAdvances == [][Moment < Moment' \/ UNCHANGED <<at, playVars>>]_vars

(***************************************************************************)
(* The program in the container takes at most 145 steps, one for every     *)
(* place in the longest script and a few to start and to write, and none   *)
(* of them goes back: however the agents answer and whatever is raised,    *)
(* only a call that never returns can keep it from its end, and for that   *)
(* there is the time-out.                                                  *)
(***************************************************************************)
THEOREM PlaysAreBounded == Spec => [](Moment \in 0 .. 145) /\ PlayOnlyAdvances
<1>1. VInv => Moment \in 0 .. 145
  BY MomentInRange DEF VInv, IInv
<1>2. VInv /\ VInv' /\ [Next]_vars => [Moment < Moment' \/ UNCHANGED <<at, playVars>>]_vars
  <2> SUFFICES ASSUME VInv, VInv', Next PROVE Moment < Moment' \/ UNCHANGED <<at, playVars>>
    BY DEF vars
  <2>1. /\ TypeOK /\ SceneInv /\ HeardInv /\ PlaceInv
        /\ TypeOK' /\ HeardInv'
    BY DEF VInv, IInv
  <2>2. CASE Play
    BY <2>1, <2>2, PlayStep
  <2>3. CASE Raise \/ OpenOutput \/ WriteOutput \/ Die
    BY <2>1, <2>3, AfterPlayStep
  <2>4. CASE TimesOut
    <3>1. UNCHANGED <<at, playVars>> \/ (at' = "dead" /\ at # "dead")
      BY <2>4 DEF TimesOut
    <3> QED
      BY <2>1, <3>1, AfterPlayStep
  <2>5. CASE NoResult \/ ReadResult \/ Unjudged \/ Judge
    BY <2>5 DEF NoResult, ReadResult, Unjudged, Judge
  <2> QED
    BY <2>2, <2>3, <2>4, <2>5 DEF Next
<1> QED
  BY VerdictInvariance, <1>1, <1>2, PTL DEF Spec, PlayOnlyAdvances

=============================================================================
