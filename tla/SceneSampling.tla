---------------------------- MODULE SceneSampling ----------------------------
(***************************************************************************)
(* How the scene of an episode is laid out, in the three ways the programs *)
(* do it: the transport layout with its own jitter (reset_transport_scene),*)
(* the fruit grid with jitter and fruits already in the basket             *)
(* (reset_fruit_grid_scene), and the rejection sampling of the randomized  *)
(* dataset (sample_valid_scene), also as run_preflight tries it out before *)
(* a collection.                                                           *)
(*                                                                         *)
(* A uniform draw is one of the ends or the middle of its range.  What the *)
(* physics makes of a scene (contacts, speed, reach of the arm) is any     *)
(* outcome of the checks.                                                  *)
(***************************************************************************)
EXTENDS FruitGrid

CONSTANTS
  MaxSamplingAttempts,  \* max_sampling_attempts
  MaxTries,             \* tries of one fruit on the jittered grid
  Jitters,              \* position_jitter_xy, in millimetres
  PreloadedSets,        \* fruits that start in the basket
  NumSamples            \* --samples of the preflight

VARIABLES
  scene,  \* the scene being laid out
  tally   \* what the preflight has counted

sceneVars == <<scene, tally>>

NoTally == [sample |-> 0, valid |-> 0, reported |-> 0, drawn |-> 0, passed |-> FALSE]
Nowhere == <<0, 0>>

\* Target, layout and order of a sample of the preflight.
SampleAt(i) ==
  [target |-> (i % 4) + 1, layout |-> i % LayoutCount, order |-> Permuted[(i % 24) + 1]]

Laid(use, what, pc) ==
  [use |-> use, pc |-> pc, target |-> what.target, layout |-> what.layout,
   order |-> what.order, attempt |-> 0, tries |-> 0, jitter |-> 0, preloaded |-> {},
   at |-> [f \in {} |-> Nowhere], crate |-> CrateXY, limits |-> TRUE]

Asked == [target : Fruits, layout : 0 .. LayoutCount - 1, order : {Permuted[1]}]

SceneInit ==
  /\ tally = NoTally
  /\ \/ scene = Laid("transport", SampleAt(0), "place")
     \/ \E what \in Asked, j \in Jitters, pre \in PreloadedSets :
          /\ what.target = 1
          /\ scene = [Laid("grid", what, "place") EXCEPT !.jitter = j, !.preloaded = pre]
     \/ \E what \in Asked : scene = Laid("episode", what, "draw")
     \/ scene = Laid("preflight", SampleAt(0), "draw")

Around(p, dx, dy) == {<<p[1] + x, p[2] + y>> : x \in {-dx, dx}, y \in {-dy, dy}}

-----------------------------------------------------------------------------
\* object_pose: x moves a little about its slot, y anywhere in the band.
PlaceObjects ==
  /\ scene.use = "transport"
  /\ scene.pc = "place"
  /\ \E dx \in [Fruits -> {-6, 6}], y \in [Fruits -> {ReachY[1], ReachY[2]}] :
       scene' = [scene EXCEPT
         !.at = [f \in Fruits |->
                   <<Clip(ObjectXY[f][1] + dx[f], ReachX[1], ReachX[2]),
                     IF ObjectXY[f][2] >= 0 THEN y[f] ELSE -y[f]>>],
         !.pc = "ready"]
  /\ UNCHANGED tally

-----------------------------------------------------------------------------
Placed == DOMAIN scene.at
NextFruit == scene.order[Cardinality(Placed) + 1]
Nominal == TablePlacements(scene.layout, scene.order)

\* A candidate is clipped to the reach of the arm of its side.
Clipped(p, nominal) ==
  <<Clip(p[1], ReachX[1], ReachX[2]),
    LET y == Clip(Abs(p[2]), ReachY[1], ReachY[2]) IN IF nominal[2] > 0 THEN y ELSE -y>>

\* A plausible bug: a candidate is compared with where the others should be.
FreeOfNominal(p, fruit) ==
  \A f \in Fruits \ ({fruit} \cup scene.preloaded) : Apart(p, Nominal[f], MinTableSeparation)

\* Only fruits on the table are in the way of each other.
FreeOfPlaced(p, fruit) ==
  \A f \in Placed \ scene.preloaded : Apart(p, scene.at[f], MinTableSeparation)

TryFruit ==
  /\ scene.use = "grid"
  /\ scene.pc = "place"
  /\ Placed # Fruits
  /\ scene.tries < MaxTries
  /\ LET fruit == NextFruit
     IN  \E q \in Around(Nominal[fruit], scene.jitter, scene.jitter) :
           LET p == Clipped(q, Nominal[fruit])
           IN  scene' = IF fruit \in scene.preloaded \/ FreeOfPlaced(p, fruit)
                        THEN [scene EXCEPT
                               !.at = [f \in DOMAIN @ \cup {fruit} |->
                                         IF f = fruit THEN p ELSE @[f]],
                               !.tries = 0]
                        ELSE [scene EXCEPT !.tries = @ + 1]
  /\ UNCHANGED tally

\* "could not jitter fruit grid without overlap" ends the program.
GiveUpFruit ==
  /\ scene.use = "grid"
  /\ scene.pc = "place"
  /\ scene.tries = MaxTries
  /\ scene' = [scene EXCEPT !.pc = "failed"]
  /\ UNCHANGED tally

\* The preloaded fruits go to the slots of the basket, wherever that stands.
FillBasket ==
  /\ scene.use = "grid"
  /\ scene.pc = "place"
  /\ Placed = Fruits
  /\ \E crate \in Around(CrateXY, 10, 10) :
       LET k(f) == Cardinality({g \in scene.preloaded : g <= f})
       IN  scene' = [scene EXCEPT
             !.crate = crate,
             !.at = [f \in Fruits |->
                       IF f \in scene.preloaded
                       THEN <<crate[1] + CrateSlots[k(f)][1], crate[2] + CrateSlots[k(f)][2]>>
                       ELSE @[f]],
             !.pc = "ready"]
  /\ UNCHANGED tally

-----------------------------------------------------------------------------
Sampling == scene.use \in {"episode", "preflight"}

\* The target, the goal and the joints of a candidate, one draw each.
CandidateValues ==
  /\ Sampling
  /\ scene.pc = "draw"
  /\ scene.attempt < MaxSamplingAttempts
  /\ \E p \in Around(Nominal[scene.target], 20, 30) \cup {Nominal[scene.target]},
        goal \in Around(CrateXY, 30, 30) \cup {CrateXY}, limits \in BOOLEAN :
       scene' = [scene EXCEPT !.at = [f \in {scene.target} |-> p], !.crate = goal,
                              !.limits = limits, !.attempt = @ + 1, !.pc = "check"]
  /\ tally' = [tally EXCEPT !.drawn = @ + 1]

\* The gap between the target and the side of the basket.
Gap(k, p) ==
  LET d == Abs(p[k] - scene.crate[k]) - CrateHalf[k] IN IF d > 0 THEN d ELSE 0

Precheck ==
  LET p == scene.at[scene.target]
  IN  /\ InReach(p)
      /\ CrateInReach(scene.crate)
      /\ CrateOnTable(scene.crate)
      /\ \A f \in Fruits \ {scene.target} : Apart(p, Nominal[f], MinTableSeparation)
      /\ ~ (4 * (Gap(1, p) * Gap(1, p) + Gap(2, p) * Gap(2, p))
              < MinTableSeparation * MinTableSeparation)
      /\ scene.limits

\* A candidate that passes is laid out, the other fruits on their slots.
CheckCandidate ==
  /\ Sampling
  /\ scene.pc = "check"
  /\ scene' = IF Precheck
              THEN [scene EXCEPT !.pc = "settle",
                                 !.at = [f \in Fruits |-> IF f = scene.target THEN @[f]
                                                          ELSE Nominal[f]]]
              ELSE [scene EXCEPT !.pc = "draw"]
  /\ UNCHANGED tally

\* The next sample of the preflight, whatever became of this one.
NextSample(t) ==
  IF t.sample + 1 < NumSamples
  THEN Laid("preflight", SampleAt(t.sample + 1), "draw")
  ELSE [scene EXCEPT !.pc = "summary"]

\* Contacts of an arm, contacts between props, the speed, the six points of the
\* plan: the first that fails rejects the settled scene.
RejectSettled ==
  /\ Sampling
  /\ scene.pc = "settle"
  /\ scene' = [scene EXCEPT !.pc = "draw"]
  /\ UNCHANGED tally

Accept ==
  /\ Sampling
  /\ scene.pc = "settle"
  /\ IF scene.use = "episode"
     THEN scene' = [scene EXCEPT !.pc = "ready"] /\ UNCHANGED tally
     ELSE /\ scene' = NextSample(tally)
          /\ tally' = [tally EXCEPT !.sample = @ + 1, !.valid = @ + 1,
                                    !.reported = @ + scene.attempt]

\* An episode ends as scene_sampling_exhausted; the preflight goes on.
Exhausted ==
  /\ Sampling
  /\ scene.pc = "draw"
  /\ scene.attempt = MaxSamplingAttempts
  /\ IF scene.use = "episode"
     THEN scene' = [scene EXCEPT !.pc = "failed"] /\ UNCHANGED tally
     ELSE /\ scene' = NextSample(tally)
          /\ tally' = [tally EXCEPT !.sample = @ + 1]

\* The spans and the prompts that were seen are any; draws of samples that were
\* given up are not in the report.
Summary ==
  /\ scene.pc = "summary"
  /\ \E coverage \in BOOLEAN :
       tally' = [tally EXCEPT !.passed = /\ tally.valid = NumSamples
                                         /\ 5 * tally.valid >= tally.reported
                                         /\ coverage]
  /\ scene' = [scene EXCEPT !.pc = "done"]

SceneDone == scene.pc \in {"ready", "failed", "done"} /\ UNCHANGED sceneVars

SceneNext ==
  \/ PlaceObjects \/ TryFruit \/ GiveUpFruit \/ FillBasket
  \/ CandidateValues \/ CheckCandidate \/ RejectSettled \/ Accept \/ Exhausted
  \/ Summary \/ SceneDone

-----------------------------------------------------------------------------
(***************************************************************************)
(* A scene an episode starts from, however it was drawn: the basket stands *)
(* on the table, the fruits on the table stand in reach of an arm and far  *)
(* enough apart to be grasped ("at least 78 mm" in the transport layout),  *)
(* and a fruit is on the side of its slot, from which the schedule counts  *)
(* the arms.  A preflight that passed drew no candidate it does not report.*)
(***************************************************************************)
ScenesHold ==
  /\ GridIsValid /\ LayoutIsValid
  /\ scene.pc = "ready" =>
       /\ CrateOnTable(scene.crate)
       /\ \A f \in Fruits \ scene.preloaded :
            /\ InReach(scene.at[f])
            /\ scene.use # "transport" => (scene.at[f][2] > 0 <=> SlotIn(scene.order, f) < 2)
            /\ \A g \in Fruits \ ({f} \cup scene.preloaded) :
                 Apart(scene.at[f], scene.at[g],
                       IF scene.use = "transport" THEN 78 ELSE MinTableSeparation)
  /\ tally.passed => tally.reported = tally.drawn
=============================================================================
