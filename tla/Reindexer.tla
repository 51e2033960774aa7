------------------------------ MODULE Reindexer ------------------------------
(***************************************************************************)
(* rebuild_dataset of data/reindex_randomized_pick_place_dataset.py beside *)
(* the collector it is for.  Plans that were exhausted and recovered by a  *)
(* later run of the randomized collector, with --defer-finalization, lie   *)
(* out of order in the source; the reindexer copies every episode to the   *)
(* index of its plan in a directory output.building, which replaces output *)
(* in one step at the end.                                                 *)
(*                                                                         *)
(* The operator starts it when no collector and no task process runs, and  *)
(* may start the collector again meanwhile.                                *)
(***************************************************************************)
EXTENDS DatasetValidators

CONSTANT MaxBuilds    \* bound on the times the reindexer is run

ASSUME BuildAssumption == MaxBuilds \in Nat

VARIABLES
  rx,        \* the reindexer: where it is and the next plan it copies
  building,  \* the files under output.building
  output,    \* the files under output
  builds     \* how often it was run

reindexVars == <<rx, building, output, builds>>
allVars == <<vars, reindexVars>>

NoRoot == [exists |-> FALSE, info |-> Absent, episodes |-> NoRows, tasks |-> << >>,
           parquet |-> NoFiles, videos |-> NoFiles, schema |-> "absent",
           metadata |-> << >>, splits |-> NoSplits, stats |-> << >>,
           manifest |-> << >>]

ReindexInit ==
  /\ rx = [pc |-> "idle", plan |-> 0]
  /\ building = NoRoot
  /\ output = NoRoot
  /\ builds = 0

RxStopped == {"idle", "refused", "raised", "killed", "published"}
SourceUnchanged == UNCHANGED vars

\* A plausible bug: the rows are expected in the order of the plan.
RecoveredInOrder ==
  /\ ~ episodes.torn
  /\ Len(Rows) = NumPlans
  /\ Len(metadata) = NumPlans
  /\ \A k \in DOMAIN metadata : metadata[k].save.plan = k - 1
  /\ Succeeded(stats) = Plan

\* One metadata row and one episode for each plan, and every plan a success.
Recovered ==
  /\ ~ episodes.torn
  /\ Len(metadata) = NumPlans
  /\ Len(Rows) = NumPlans
  /\ {metadata[k].save.plan : k \in DOMAIN metadata} = Plan
  /\ Succeeded(stats) = Plan

\* Every check before the first copy leaves nothing behind.
StartBuild ==
  /\ rx.pc \in RxStopped
  /\ builds < MaxBuilds
  /\ coll.pc \in Stopped
  /\ ~ Live
  /\ builds' = builds + 1
  /\ IF output.exists \/ building.exists \/ ~ Recovered
     THEN rx' = [rx EXCEPT !.pc = "refused"] /\ UNCHANGED building
     ELSE rx' = [pc |-> "copy", plan |-> 0]
          /\ building' = [NoRoot EXCEPT !.exists = TRUE]
  /\ UNCHANGED output
  /\ SourceUnchanged

\* The metadata row of a plan, and where its episode lies in the source.
MetadataOf(p) == metadata[CHOOSE k \in DOMAIN metadata : metadata[k].save.plan = p]
OldIndex(p) == MetadataOf(p).index

\* SPLIT_RANGES are the ranges of the full schedule.
SplitAt(i) == CHOOSE sp \in Split :
  LET r == RangeIn(Schedule, sp) IN r[1] <= i /\ i < r[2]

\* A plausible bug: the episodes are copied in the order they were collected.
CopyInOrder(p) == p

\* The index an episode is copied from.
CopyFrom(p) == OldIndex(p)

\* read_table needs a readable Parquet file; a video is linked, whatever it holds.
Copyable(p) ==
  /\ SplitOf[MetadataOf(p).save.plan] = SplitAt(p)
  /\ CopyFrom(p) \in DOMAIN parquet
  /\ parquet[CopyFrom(p)].st = "whole"
  /\ \A cam \in Camera : <<CopyFrom(p), cam>> \in DOMAIN videos

CopyEpisode ==
  /\ rx.pc = "copy"
  /\ rx.plan \in Plan
  /\ IF Copyable(rx.plan)
     THEN LET p == rx.plan
              old == CopyFrom(p)
          IN  /\ building' = [building EXCEPT
                   !.parquet = Put(@, p, parquet[old]),
                   !.videos  = [x \in DOMAIN @ \cup ({p} \X Camera) |->
                                  IF x[1] = p THEN videos[<<old, x[2]>>] ELSE @[x]],
                   !.episodes.rows = Append(@, Row(OldIndex(p))),
                   !.metadata = Append(@, [MetadataOf(p) EXCEPT !.index = p])]
              /\ rx' = [rx EXCEPT !.plan = p + 1]
     ELSE rx' = [rx EXCEPT !.pc = "raised"] /\ UNCHANGED building
  /\ UNCHANGED <<output, builds>>
  /\ SourceUnchanged

\* The rows gathered so far are written with the vocabulary, the schema, the
\* ranges of the plan and the statistics.
WriteMeta ==
  /\ rx.pc = "copy"
  /\ rx.plan = NumPlans
  /\ building' = [building EXCEPT
       !.tasks = tasks,
       !.schema = schema,
       !.episodes.exists = TRUE,
       !.info = [st |-> "whole", total |-> NumPlans, ranges |-> RangesIn(Schedule, Split)],
       !.splits = RangesIn(Schedule, Split),
       !.stats = [p \in Plan |-> [stats[p] EXCEPT !.index = p]]]
  /\ rx' = [rx EXCEPT !.pc = "manifest"]
  /\ UNCHANGED <<output, builds>>
  /\ SourceUnchanged

\* The lines in the order of their plans, those of one plan in the order they came.
ByPlan(lines) ==
  LET Before(j, k) == \/ lines[j].plan < lines[k].plan
                      \/ lines[j].plan = lines[k].plan /\ j < k
      Place(k) == Cardinality({j \in DOMAIN lines : Before(j, k)})
  IN  [i \in DOMAIN lines |-> lines[CHOOSE k \in DOMAIN lines : Place(k) = i - 1]]

\* The manifest is counted only now, and sorted by plan.
WriteManifest ==
  /\ rx.pc = "manifest"
  /\ IF Len(manifest) = NumPlans
     THEN /\ building' = [building EXCEPT
               !.manifest = ByPlan([k \in DOMAIN manifest |->
                                      [manifest[k] EXCEPT !.index = manifest[k].plan]])]
          /\ rx' = [rx EXCEPT !.pc = "publish"]
     ELSE rx' = [rx EXCEPT !.pc = "raised"] /\ UNCHANGED building
  /\ UNCHANGED <<output, builds>>
  /\ SourceUnchanged

\* building.replace(output)
Publish ==
  /\ rx.pc = "publish"
  /\ output' = building
  /\ building' = NoRoot
  /\ rx' = [rx EXCEPT !.pc = "published"]
  /\ UNCHANGED builds
  /\ SourceUnchanged

\* Killed or interrupted, it leaves the directory as it is.
KillReindexer ==
  /\ rx.pc \notin RxStopped
  /\ rx' = [rx EXCEPT !.pc = "killed"]
  /\ UNCHANGED <<building, output, builds>>
  /\ SourceUnchanged

\* The operator deletes the stale directory the next run refuses.
RemoveBuilding ==
  /\ rx.pc \in RxStopped
  /\ building.exists
  /\ building' = NoRoot
  /\ UNCHANGED <<rx, output, builds>>
  /\ SourceUnchanged

RebuildStep == StartBuild \/ CopyEpisode \/ WriteMeta \/ WriteManifest \/ Publish

ReindexNext ==
  \/ Next /\ UNCHANGED reindexVars
  \/ RebuildStep \/ KillReindexer \/ RemoveBuilding

-----------------------------------------------------------------------------
\* The rebuilt dataset, seen through the definitions of a collected one.
Out == INSTANCE DatasetValidators WITH
  info <- output.info, episodes <- output.episodes, tasks <- output.tasks,
  parquet <- output.parquet, videos <- output.videos, schema <- output.schema,
  metadata <- output.metadata, splits <- output.splits, stats <- output.stats,
  manifest <- output.manifest

(***************************************************************************)
(* Whatever path the collection took, through retries, recoveries, crashes *)
(* and a death inside a save, an output that exists is a dataset that is   *)
(* accepted and true: plan i at index i with the data of the attempt the   *)
(* statistics record, its own prompt, its metadata and its manifest row.   *)
(***************************************************************************)
OutputTrue ==
  output.exists =>
    /\ Out!AcceptsRandomized
    /\ Out!DatasetTrue
    /\ Out!RecordedSuccessIsOnDisk
    /\ \A p \in Plan : output.manifest[p + 1] = [plan |-> p, index |-> p]

(***************************************************************************)
(* A recovered collection is rebuilt.  When every plan is recorded as a    *)
(* success and no process died in a save, a run is refused only because of *)
(* the directories of an earlier one; and a rebuild that started, also     *)
(* after a death inside a save, is never stopped by an unreadable file or  *)
(* by the manifest, which is counted last (line 195).                      *)
(***************************************************************************)
CompleteIsRebuilt ==
  [][ /\ rx'.pc # "raised"
      /\ StartBuild /\ Succeeded(stats) = Plan /\ deaths = << >> =>
           output.exists \/ building.exists \/ rx'.pc = "copy" ]_allVars
=============================================================================
