------------------------- MODULE CollectorProperties -------------------------
(***************************************************************************)
(* What a collection must keep true: of the files while it runs, of the    *)
(* statistics a later start resumes from, and of the dataset it leaves.    *)
(***************************************************************************)
EXTENDS PlanCollector

Rows == episodes.rows
Row(i) == Rows[i + 1]

ParquetFile == {Torn} \cup [st : {"whole"}, save : Save, task : Nat]
VideoFile == {Torn} \cup [st : {"whole"}, save : Save]

Records == [Plan -> [attempts : 0 .. MaxAttempt, success : BOOLEAN,
                     index : Nat \cup {NoIndex}]]

(***************************************************************************)
(* Every variable keeps the shape its comment gives it.                    *)
(***************************************************************************)
DatasetTypeOK ==
  /\ info.st \in {"absent", "torn", "whole"}
  /\ info.st = "whole" =>
       /\ info = [st |-> "whole", total |-> info.total, ranges |-> info.ranges]
       /\ info.total \in Nat
  /\ episodes \in [exists : BOOLEAN, rows : Seq(Save), torn : BOOLEAN]
  /\ tasks \in Seq(Prompt)
  /\ parquet \in [DOMAIN parquet -> ParquetFile]
  /\ videos \in [DOMAIN videos -> VideoFile]
  /\ writer \in [index : Nat, rows : Seq(Save), tasks : Seq(Prompt)]

ChildTypeOK ==
  /\ kind \in Kind
  /\ schema \in {"absent", "torn", "whole"}
  /\ metadata \in Seq([save : Save, index : Nat])
  /\ child \in [stage : Stages, save : Save, cam : Camera, ok : BOOLEAN]
  /\ deaths \in Seq(SaveStages)

CollTypeOK ==
  /\ coll \in [pc : Stopped \cup Running, plan : Plan, budget : 1 .. MaxAttempt,
               defer : BOOLEAN]
  /\ stats \in Records
  /\ mem \in Records
  /\ manifest \in Seq([plan : Plan, index : Nat \cup {NoIndex}])
  /\ starts \in Nat
  /\ crashes \in Nat

TypeOK == DatasetTypeOK /\ ChildTypeOK /\ CollTypeOK

(***************************************************************************)
(* Episode i holds save s: its Parquet file and the video of every camera  *)
(* are whole and all from s, and its task_index resolves to s's prompt.    *)
(***************************************************************************)
HoldsData(i, s) ==
  /\ i \in DOMAIN parquet
  /\ parquet[i].st = "whole"
  /\ parquet[i].save = s
  /\ \A cam \in Camera : <<i, cam>> \in DOMAIN videos /\ videos[<<i, cam>>] = Whole(s)

ResolvesPrompt(i, s) ==
  /\ parquet[i].st = "whole"
  /\ parquet[i].task + 1 \in DOMAIN tasks
  /\ tasks[parquet[i].task + 1] = PromptOf[s.plan]

SaveOf(p) == [plan |-> p, attempt |-> stats[p].attempts]

(***************************************************************************)
(* A plan the statistics file records as done is in the dataset at the     *)
(* index it records: listed in episodes.jsonl, with the data of the        *)
(* attempt that succeeded, under its own prompt.  A resume skips the plan  *)
(* for good, so nothing would ever collect it again                        *)
(* (collect_randomized_pick_place_dataset.py:342).                         *)
(***************************************************************************)
RecordedSuccessIsOnDisk ==
  \A p \in Succeeded(stats) :
    LET i == stats[p].index
    IN  /\ i \in 0 .. Len(Rows) - 1
        /\ Row(i) = SaveOf(p)
        /\ HoldsData(i, SaveOf(p))
        /\ ResolvesPrompt(i, SaveOf(p))

(***************************************************************************)
(* The metadata row of episode i is at position i and describes the save   *)
(* episode i holds; at most the episode being saved, or the one an         *)
(* orphan was saving, has no row yet (transport_atomic.py:1085-1090 writes *)
(* it after finalize).                                                     *)
(***************************************************************************)
MetadataFollowsEpisodes ==
  KeepsMetadata =>
    /\ Len(metadata) \in {Len(Rows), Len(Rows) - 1}
    /\ Len(metadata) < Len(Rows) => child.stage \in {"tasks", "schema", "row"}
    /\ \A k \in DOMAIN metadata : metadata[k] = [save |-> Rows[k], index |-> k - 1]

(***************************************************************************)
(* A plan is in the dataset once: the success of a plan ends its attempts, *)
(* also across restarts, so no scene is counted twice in training.         *)
(***************************************************************************)
NoPlanTwice ==
  \A j, k \in DOMAIN Rows : Rows[j].plan = Rows[k].plan => j = k

(***************************************************************************)
(* The manifest lists each plan once, at its episode, and lists every plan *)
(* the statistics record as done.  It is appended before the statistics    *)
(* are written, so a crash in between leaves one plan in it that they miss. *)
(***************************************************************************)
ManifestAgrees ==
  /\ \A j, k \in DOMAIN manifest : manifest[j].plan = manifest[k].plan => j = k
  /\ \A k \in DOMAIN manifest : Row(manifest[k].index).plan = manifest[k].plan
  /\ \A p \in Succeeded(stats) :
       \E k \in DOMAIN manifest : manifest[k] = [plan |-> p, index |-> stats[p].index]

(***************************************************************************)
(* A collector refuses to resume only when a crash has separated the       *)
(* dataset from the statistics, and then the dataset is exactly one        *)
(* complete episode ahead: the one saved when the collector went down.     *)
(***************************************************************************)
RefusalHasACause ==
  coll.pc = "refused" =>
    /\ crashes > 0
    /\ Len(Rows) = Cardinality(Succeeded(stats)) + 1
    /\ HoldsData(Len(Rows) - 1, Rows[Len(Rows)])

(***************************************************************************)
(* Every episode lies in the range of its own split, and in no other, once *)
(* the collector has finalized the splits.                                 *)
(***************************************************************************)
SplitsTrue ==
  \A i \in 0 .. Len(Rows) - 1, sp \in DOMAIN info.ranges :
    (info.ranges[sp][1] <= i /\ i < info.ranges[sp][2]) <=> SplitOf[Row(i).plan] = sp

Finalized == coll.pc = "complete" /\ ~ coll.defer

\* The randomized collector (collect_randomized_pick_place_dataset.py:225-249).
RandomizedSplitsTrue ==
  kind = "randomized" /\ Finalized => SplitsTrue /\ splits = info.ranges

\* Both collectors that finalize.
FinalSplitsTrue ==
  kind # "transport" /\ Finalized => SplitsTrue /\ splits = info.ranges

(***************************************************************************)
(* The statistics only move forward, whatever dies and whenever: no step   *)
(* lowers the attempts of a plan, and a recorded success is never taken    *)
(* back, retried or given another episode.                                 *)
(***************************************************************************)
Forward(old, new) ==
  \A p \in Plan :
    /\ old[p].attempts <= new[p].attempts
    /\ old[p].success => new[p] = old[p]

StatsMonotone == [][Forward(stats, stats')]_stats

(***************************************************************************)
(* A run of a collector ends, however its task processes behave: each      *)
(* attempt is saved, fails or is timed out, and the attempts are finite.   *)
(***************************************************************************)
RunEnds == coll.pc \in Running ~> coll.pc \in Stopped

(***************************************************************************)
(* Docs say that the same command resumes a stopped collection.            *)
(***************************************************************************)
NeverRefused == coll.pc # "refused"

(***************************************************************************)
(* The index an episode is about to be written at is not the index of an   *)
(* episode the statistics record as done: the purpose episode.py:133-138   *)
(* gives for loading the rows already on disk.                             *)
(***************************************************************************)
IndexIsFree ==
  child.stage = "parquet" => \A p \in Succeeded(stats) : stats[p].index # writer.index

(***************************************************************************)
(* Recorded work is lost only through one door: the files of a recorded    *)
(* success are damaged only after a task process died rewriting            *)
(* episodes.jsonl, or tasks.jsonl for its prompt.                          *)
(***************************************************************************)
DiedIn(stage) == \E k \in DOMAIN deaths : deaths[k] = stage

LossHasACause ==
  \A p \in Succeeded(stats) :
    /\ ~ HoldsData(stats[p].index, SaveOf(p)) => DiedIn("episodes")
    /\ ~ ResolvesPrompt(stats[p].index, SaveOf(p)) => DiedIn("tasks") \/ DiedIn("episodes")

(***************************************************************************)
(* The ledger of the collection: the rows of the dataset are its commits,  *)
(* the recorded successes its acknowledgements.                            *)
(***************************************************************************)
Ledger == INSTANCE CollectionLedger WITH
  log      <- [k \in DOMAIN Rows |-> Rows[k].plan],
  ack      <- Succeeded(stats),
  complete <- coll.pc = "complete"

RefinesLedger == Ledger!Spec
=============================================================================
