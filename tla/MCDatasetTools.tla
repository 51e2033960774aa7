--------------------------- MODULE MCDatasetTools ---------------------------
(***************************************************************************)
(* Small instances of the dataset tools for TLC, one at a time: the        *)
(* reindexer beside the randomized collector, the finalizer of the splits  *)
(* beside the atomic one, the batch collector on a root of its own, a      *)
(* schedule being built, a scene being laid out, the trials of an          *)
(* experiment being listed, or a training being started.                   *)
(***************************************************************************)
EXTENDS Reindexer, SplitFinalizer, TLC

CONSTANTS MaxSamplingAttempts, MaxTries, NumSamples, Jitters, PreloadedSets,
          NumFiles, Guards, MaxPatches, SuiteRecords, Wanted, NumLayouts, ScoreScale

ASSUME GateAssumption == NumFiles \in Nat \ {0} /\ MaxPatches \in Nat

\* run_preflight: "samples must be positive".
ASSUME SceneAssumption == NumSamples \in Nat \ {0} /\ Jitters \subseteq Int

ASSUME SuiteAssumption ==
  /\ DOMAIN SuiteRecords = 1 .. Len(SuiteRecords) /\ Len(SuiteRecords) \in Nat
  /\ \A want \in Wanted : want.count \in Int
  /\ NumLayouts \in Nat \ {0}
  /\ ScoreScale \in Nat /\ \A n \in 1 .. Len(SuiteRecords) : ScoreScale % n = 0

VARIABLES tool, batch, finished, size, assign, scene, tally, suite,
          files, patch, norm, guard, train

Batch == INSTANCE BatchCollector

\* Two layouts; two sequences of each length and a lift, in plans of five units and in
\* any order; or, in orders close to the one they are listed in, four single fruits and
\* four triples, whose slots may come out even or not, and eight single fruits.
None == [train |-> 0, validation |-> 0, test |-> 0]
NoEpisodes == [clean |-> None, pairs |-> None, triples |-> None, preloaded |-> None,
               recovery |-> None, perTemplate |-> None,
               lift |-> [c \in 1 .. 5 |-> <<0, 0, 0>>], paraphrases |-> TRUE,
               ahead |-> 2]
MCSizes ==
  {[NoEpisodes EXCEPT !.pairs.train = 2, !.pairs.validation = 1, !.triples.train = 1,
                      !.lift[3] = <<1, 0, 0>>, !.ahead = 5],
   [NoEpisodes EXCEPT !.clean.train = 1, !.triples.train = 4, !.paraphrases = FALSE],
   [NoEpisodes EXCEPT !.clean.train = 2]}

Plans == INSTANCE Schedules WITH Sizes <- MCSizes

Scenes == INSTANCE SceneSampling

\* Three single fruits, the first two alike but for the scene, and a lift.
MCRecord(task, target, arm, preloaded, layout) ==
  [task |-> task, target |-> target, arm |-> arm, family |-> task,
   preloaded |-> preloaded, layout |-> layout, split |-> "test"]
MCRecords ==
  <<MCRecord("place_one", 1, "left", 0, 0), MCRecord("place_one", 1, "left", 0, 1),
    MCRecord("lift_basket", 0, "both", 2, 1), MCRecord("place_one", 2, "right", 1, 0)>>

MCWanted ==
  {[count |-> 3, split |-> "all"], [count |-> 4, split |-> "test"],
   [count |-> 1, split |-> "train"]}

Suites == INSTANCE AtomicSuite WITH Records <- SuiteRecords

Gate == INSTANCE TrainingGate
gates == <<files, patch, norm, guard, train>>

MCSplitOrder == <<"train", "validation">>

\* Two training plans that share a prompt, and a validation plan.
MCPromptOf == 0 :> "a" @@ 1 :> "a" @@ 2 :> "b"
MCSplitOf  == 0 :> "train" @@ 1 :> "train" @@ 2 :> "validation"

toolVars == <<allVars, fx, tool, batch, finished, size, assign, scene, tally, suite,
              gates>>

ToolInit ==
  /\ tool \in {"reindexer", "batch", "schedule", "scene", "suite", "finalizer", "gate"}
  /\ Init
  /\ kind = IF tool = "finalizer" THEN "atomic" ELSE "randomized"
  /\ ReindexInit
  /\ FinalizerInit
  /\ Batch!BatchInit
  /\ IF tool = "schedule" THEN Plans!ScheduleInit ELSE size = 0 /\ assign = 0
  /\ IF tool = "scene" THEN Scenes!SceneInit ELSE scene = 0 /\ tally = 0
  /\ IF tool = "suite" THEN Suites!SuiteInit ELSE suite = 0
  /\ IF tool = "gate" THEN Gate!GateInit
     ELSE files = 0 /\ patch = 0 /\ norm = 0 /\ guard = 0 /\ train = 0

\* What the batch collector leaves alone, and what belongs to the other tools.
NotBatch == <<schema, metadata, child, deaths, kind, collectorVars, reindexVars, fx>>
NotPlanned == <<size, assign, scene, tally, suite, gates>>

ToolNext ==
  /\ UNCHANGED tool
  /\ \/ tool = "reindexer" /\ ReindexNext /\ UNCHANGED <<batch, finished, fx, NotPlanned>>
     \/ tool = "finalizer" /\ FinalizerNext
          /\ UNCHANGED <<reindexVars, batch, finished, NotPlanned>>
     \/ tool = "batch" /\ Batch!BatchNext /\ UNCHANGED <<NotBatch, NotPlanned>>
     \/ tool = "schedule" /\ Plans!ScheduleNext
          /\ UNCHANGED <<allVars, fx, batch, finished, scene, tally, suite, gates>>
     \/ tool = "scene" /\ Scenes!SceneNext
          /\ UNCHANGED <<allVars, fx, batch, finished, size, assign, suite, gates>>
     \/ tool = "suite" /\ Suites!SuiteNext
          /\ UNCHANGED <<allVars, fx, batch, finished, size, assign, scene, tally, gates>>
     \/ tool = "gate" /\ Gate!GateNext
          /\ UNCHANGED <<allVars, fx, batch, finished, size, assign, scene, tally, suite>>

ToolSpec == ToolInit /\ [][ToolNext]_toolVars

(* What the batch collector finalized stays as it was, in every later run. *)
BatchKeepsFinished == tool = "batch" => Batch!BatchKeepsFinished

(* What no shuffle changes is balanced; the steps of a sequence lie one    *)
(* after the other in one scene; and only sequences make the slots uneven. *)
SchedulesHold == tool = "schedule" =>
  Plans!SchedulesBalanced /\ Plans!SequencesLinked /\ Plans!ScenesDealtEvenly

(* A suite of trials repeats no episode and uses the arms and the layouts  *)
(* evenly.                                                                 *)
SuitesHold == tool = "suite" => Suites!SuiteBalanced

(* The patch loses nothing recorded, and a training starts on what passed. *)
TrainingHolds == tool = "gate" => Gate!RecordingKept /\ Gate!TrainsOnWhatPassed

(* A scene an episode starts from can be worked in. *)
ScenesLaidOut == tool = "scene" => Scenes!ScenesHold

(* Scenes can be worked in, those a rollout lays out for its episode and   *)
(* those an experiment lists for its trials.                               *)
ScenesHold == ScenesLaidOut /\ SuitesHold
=============================================================================
