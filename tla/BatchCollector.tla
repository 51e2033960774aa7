--------------------------- MODULE BatchCollector ---------------------------
(***************************************************************************)
(* data/collect_batch.py: one process collects the episodes of all seeds   *)
(* with one LeRobotWriter and finalizes the dataset once, after the last.  *)
(* A seed is a plan of LeRobotWriter and the run of the command its        *)
(* attempt.                                                                *)
(***************************************************************************)
EXTENDS LeRobotWriter

VARIABLES
  batch,     \* the process: where it is, its seed, camera and run
  finished   \* the episodes of the runs that ended, in order

batchVars == <<batch, finished>>

BatchInit ==
  /\ batch = [pc |-> "idle", seed |-> 0, cam |-> 1, run |-> 0, torn |-> FALSE]
  /\ finished = << >>

Finalizing == {"info", "episodes", "tasks"}
BatchStopped == {"idle", "died", "failed", "ended"}
To(pc) == batch' = [batch EXCEPT !.pc = pc]
This == [plan |-> batch.seed, attempt |-> batch.run]

\* An existing root is only warned about; the writer loads its rows.
OpenRoot ==
  /\ batch.pc \in BatchStopped
  /\ batch.run < MaxAttempt
  /\ IF LoadFails
     THEN batch' = [batch EXCEPT !.pc = "failed", !.run = @ + 1] /\ UNCHANGED writer
     ELSE /\ batch' = [batch EXCEPT !.pc = "seed", !.seed = 0, !.run = @ + 1]
          /\ writer' = [index |-> Len(episodes.rows), rows |-> episodes.rows,
                        tasks |-> tasks]
  /\ UNCHANGED <<datasetVars, finished>>

\* A plausible bug: a seed that failed keeps its index.
IndexOfSeed == Len(episodes.rows) + batch.seed

\* new_episode: the episodes saved so far.
NewIndex == Len(writer.rows)

\* The prompt of an episode is registered before its outcome is known.
NewEpisode ==
  /\ batch.pc = "seed"
  /\ writer' = [writer EXCEPT !.index = NewIndex,
                              !.tasks = Register(@, PromptOf[batch.seed])]
  /\ To("rollout")
  /\ UNCHANGED <<datasetVars, finished>>

NextSeed == IF batch.seed + 1 \in Plan
            THEN batch' = [batch EXCEPT !.pc = "seed", !.seed = @ + 1, !.cam = 1]
            ELSE batch' = [batch EXCEPT !.pc = "info", !.cam = 1]

RolloutOfSeed ==
  /\ batch.pc = "rollout"
  /\ \/ To("parquet")        \* check_success
     \/ NextSeed
  /\ UNCHANGED <<datasetVars, writer, finished>>

SaveSeedParquet ==
  /\ batch.pc = "parquet"
  /\ WriteParquet(This)
  /\ To("video")
  /\ UNCHANGED finished

SaveSeedVideo ==
  /\ batch.pc = "video"
  /\ WriteVideo(This, batch.cam)
  /\ IF batch.cam = NumCameras THEN NextSeed
     ELSE batch' = [batch EXCEPT !.cam = @ + 1]
  /\ UNCHANGED finished

FinalizeBatch ==
  \/ batch.pc = "info" /\ WriteInfo /\ To("episodes") /\ UNCHANGED finished
  \/ batch.pc = "episodes" /\ WriteEpisodes /\ To("tasks") /\ UNCHANGED finished
  \/ batch.pc = "tasks" /\ WriteTasks /\ To("ended") /\ finished' = writer.rows

\* An exception of a rollout, an interrupt or a kill ends all seeds.
BatchDies ==
  /\ batch.pc \notin BatchStopped
  /\ CASE batch.pc = "parquet"  -> TornParquet
       [] batch.pc = "video"    -> TornVideo(batch.cam)
       [] batch.pc = "info"     -> TornInfo
       [] batch.pc = "episodes" -> TornEpisodes
       [] batch.pc = "tasks"    -> TornTasks
       [] OTHER                 -> UNCHANGED <<datasetVars, writer>>
  /\ batch' = [batch EXCEPT !.pc = "died", !.cam = 1,
                            !.torn = @ \/ batch.pc \in Finalizing]
  /\ UNCHANGED finished

BatchDone ==
  /\ batch.pc \in BatchStopped
  /\ batch.run = MaxAttempt
  /\ UNCHANGED <<datasetVars, writer, batchVars>>

BatchNext ==
  \/ OpenRoot \/ NewEpisode \/ RolloutOfSeed \/ SaveSeedParquet \/ SaveSeedVideo
  \/ FinalizeBatch \/ BatchDies \/ BatchDone

-----------------------------------------------------------------------------
(***************************************************************************)
(* As long as no run dies inside finalize, the dataset is the episodes of  *)
(* the runs that ended, each with its own data and prompt, whatever files  *)
(* the runs that died left: the index of an episode continues the dataset, *)
(* and a run that dies loses its own episodes only.  That is what          *)
(* episode.py:133-138 promises.  The program itself warns of the opposite  *)
(* (collect_batch.py:153: in a root that exists, "new episodes will be     *)
(* appended-with-index-collision"); the writer it then makes loads the     *)
(* rows and goes on after them, and the warning is what is out of date.    *)
(***************************************************************************)
BatchKeepsFinished ==
  ~ batch.torn /\ batch.pc \notin Finalizing =>
    /\ episodes.rows = finished
    /\ \A i \in 0 .. Len(finished) - 1 :
         LET s == finished[i + 1]
         IN  /\ i \in DOMAIN parquet
             /\ parquet[i] = [st |-> "whole", save |-> s,
                              task |-> TaskIndex(tasks, PromptOf[s.plan])]
             /\ \A cam \in Camera :
                  <<i, cam>> \in DOMAIN videos /\ videos[<<i, cam>>] = Whole(s)
=============================================================================
