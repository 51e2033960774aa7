------------------------ MODULE AtomicTransportChild ------------------------
(***************************************************************************)
(* The task process a collector starts for one attempt of one plan:        *)
(* tasks/transport_atomic.py for the randomized and the atomic collector,  *)
(* tasks/transport_pack_lift.py for the transport collector.               *)
(*                                                                         *)
(* The process checks that the dataset root carries the schema of its      *)
(* collection, loads the writer, simulates the attempt, and only when that *)
(* succeeds saves the episode file by file, writes the schema and appends  *)
(* its metadata row.  It can die at any of these stages: an exception, the *)
(* collector's timeout, or an interrupt that reaches the process group.    *)
(***************************************************************************)
EXTENDS LeRobotWriter

CONSTANT MaxSaveDeaths    \* bound on the deaths inside a save

ASSUME DeathAssumption == MaxSaveDeaths \in Nat

VARIABLES
  kind,      \* which collector owns the dataset
  schema,    \* meta/{randomized,atomic}_schema.json
  metadata,  \* meta/{randomized,atomic}_episodes.jsonl, append only
  child,     \* the task process
  deaths     \* the save stages in which a task process has died so far

childVars == <<schema, metadata, child, writer>>

Kind == {"randomized", "atomic", "transport"}

EarlyStages == {"guard", "load", "rollout"}
SaveStages  == {"parquet", "video", "info", "episodes", "tasks", "schema", "row", "exit"}
Stages      == EarlyStages \cup SaveStages \cup {"none", "exited"}

NoSave == CHOOSE s \in Save : TRUE
NoChild == [stage |-> "none", save |-> NoSave, cam |-> 1, ok |-> FALSE]

ChildInit ==
  /\ kind \in Kind
  /\ schema = "absent"
  /\ metadata = << >>
  /\ child = NoChild
  /\ deaths = << >>

Live == child.stage \in EarlyStages \cup SaveStages

\* The transport task keeps no schema and no metadata of its own.
KeepsMetadata == kind # "transport"

AtStage(from, to) ==
  /\ child.stage = from
  /\ child' = [child EXCEPT !.stage = to]

ExitAt(stages, ok) ==
  /\ child.stage \in stages
  /\ child' = [child EXCEPT !.stage = "exited", !.ok = ok]

(***************************************************************************)
(* _check_randomized_dataset_schema and _check_dataset_schema: a root with *)
(* episodes and no schema is refused, and a torn schema does not parse.    *)
(***************************************************************************)
SchemaRefused ==
  \/ schema = "torn"
  \/ schema = "absent" /\ episodes.exists

CheckSchema ==
  /\ IF KeepsMetadata /\ SchemaRefused
     THEN ExitAt({"guard"}, FALSE)
     ELSE AtStage("guard", "load")
  /\ UNCHANGED <<datasetVars, writer, schema, metadata, deaths>>

OpenWriter ==
  /\ \/ /\ AtStage("load", "rollout")
        /\ LoadExistingState(child.save.plan)
     \/ /\ LoadFails
        /\ ExitAt({"load"}, FALSE)
        /\ UNCHANGED <<datasetVars, writer>>
  /\ UNCHANGED <<schema, metadata, deaths>>

(***************************************************************************)
(* The simulated attempt.  Scene sampling, the task itself, its validation *)
(* or the deferred rendering may fail; nothing has been written by then.   *)
(***************************************************************************)
RolloutFails ==
  /\ ExitAt({"load", "rollout"}, FALSE)
  /\ UNCHANGED <<datasetVars, writer, schema, metadata, deaths>>

RolloutSucceeds ==
  /\ AtStage("rollout", "parquet")
  /\ UNCHANGED <<datasetVars, writer, schema, metadata, deaths>>

(***************************************************************************)
(* EpisodeRecorder.finish: save_episode and finalize.                      *)
(***************************************************************************)
SaveParquet ==
  /\ AtStage("parquet", "video")
  /\ WriteParquet(child.save)
  /\ UNCHANGED <<schema, metadata, deaths>>

SaveVideo ==
  /\ child.stage = "video"
  /\ WriteVideo(child.save, child.cam)
  /\ child' = IF child.cam < NumCameras
              THEN [child EXCEPT !.cam = child.cam + 1]
              ELSE [child EXCEPT !.stage = "info"]
  /\ UNCHANGED <<schema, metadata, deaths>>

SaveInfo ==
  /\ AtStage("info", "episodes")
  /\ WriteInfo
  /\ UNCHANGED <<schema, metadata, deaths>>

SaveEpisodes ==
  /\ AtStage("episodes", "tasks")
  /\ WriteEpisodes
  /\ UNCHANGED <<schema, metadata, deaths>>

SaveTasks ==
  /\ AtStage("tasks", IF KeepsMetadata THEN "schema" ELSE "exit")
  /\ WriteTasks
  /\ UNCHANGED <<schema, metadata, deaths>>

(***************************************************************************)
(* The schema is written the first time only, and the metadata row of the  *)
(* episode comes last, after the dataset is finalized.                     *)
(***************************************************************************)
SaveSchema ==
  /\ AtStage("schema", "row")
  /\ schema' = "whole"
  /\ UNCHANGED <<datasetVars, writer, metadata, deaths>>

\* A plausible bug: the index is taken after the writer has counted the episode.
SaveMetadataRowLate ==
  /\ AtStage("row", "exit")
  /\ metadata' = Append(metadata, [save |-> child.save, index |-> Len(writer.rows)])
  /\ UNCHANGED <<datasetVars, writer, schema, deaths>>

SaveMetadataRow ==
  /\ AtStage("row", "exit")
  /\ metadata' = Append(metadata, [save |-> child.save, index |-> writer.index])
  /\ UNCHANGED <<datasetVars, writer, schema, deaths>>

ExitSuccess ==
  /\ ExitAt({"exit"}, TRUE)
  /\ UNCHANGED <<datasetVars, writer, schema, metadata, deaths>>

(***************************************************************************)
(* A death: what the stage was writing may be torn, and no exit code zero  *)
(* is ever reported.  TornFiles leaves child to the action that kills it.  *)
(***************************************************************************)
NothingTorn == UNCHANGED <<datasetVars, writer, schema>>

TornFiles ==
  CASE child.stage = "parquet"  -> TornParquet /\ UNCHANGED schema
    [] child.stage = "video"    -> TornVideo(child.cam) /\ UNCHANGED schema
    [] child.stage = "info"     -> TornInfo /\ UNCHANGED schema
    [] child.stage = "episodes" -> TornEpisodes /\ UNCHANGED schema
    [] child.stage = "tasks"    -> TornTasks /\ UNCHANGED schema
    [] child.stage = "schema"   -> /\ schema' \in {schema, IF schema = "absent"
                                                           THEN "torn" ELSE schema}
                                   /\ UNCHANGED <<datasetVars, writer>>
    [] OTHER                    -> NothingTorn

Die ==
  /\ Live
  /\ child.stage \in SaveStages => Len(deaths) < MaxSaveDeaths
  /\ TornFiles
  /\ deaths' = IF child.stage \in SaveStages THEN Append(deaths, child.stage) ELSE deaths
  /\ child' = [child EXCEPT !.stage = "exited", !.ok = FALSE]
  /\ UNCHANGED metadata

ChildEarly == CheckSchema \/ OpenWriter \/ RolloutFails \/ RolloutSucceeds
ChildSave ==
  \/ SaveParquet \/ SaveVideo \/ SaveInfo \/ SaveEpisodes \/ SaveTasks
  \/ SaveSchema \/ SaveMetadataRow \/ ExitSuccess
=============================================================================
