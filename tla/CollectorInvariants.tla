------------------------- MODULE CollectorInvariants -------------------------
(***************************************************************************)
(* Why a recorded success is on disk: the inductive invariant behind       *)
(* LossHasACause, kept by every step but a death in the rewrite of         *)
(* episodes.jsonl.  It follows one episode through the stages of its save, *)
(* from the index it takes when the writer is opened to the record the     *)
(* collector keeps.                                                        *)
(***************************************************************************)
EXTENDS CollectorProperties

Unlisted == {"rollout", "parquet", "video", "info", "episodes"}
Listed   == {"tasks", "schema", "row", "exit"}

IsListed == child.stage \in Listed \/ (child.stage = "exited" /\ child.ok)

\* The rows of the writer and the rows on disk, before and after the rewrite.
RowsProgress ==
  /\ child.stage \in Unlisted => writer.index = Len(Rows)
  /\ child.stage \in {"rollout", "parquet", "video"} => writer.rows = Rows
  /\ child.stage \in {"info", "episodes"} => writer.rows = Append(Rows, child.save)
  /\ IsListed => writer.index = Len(Rows) - 1 /\ Rows[Len(Rows)] = child.save

ParquetHolds(i, s) ==
  i \in DOMAIN parquet /\ parquet[i].st = "whole" /\ parquet[i].save = s

VideoHolds(i, cam, s) ==
  <<i, cam>> \in DOMAIN videos /\ videos[<<i, cam>>] = Whole(s)

\* The files of the episode that is being saved.
DataProgress ==
  /\ child.stage \in EarlyStages \cup {"parquet"} => child.cam = 1
  /\ child.stage \in {"video", "info", "episodes"} => ParquetHolds(writer.index, child.save)
  /\ child.stage = "video" =>
       \A cam \in Camera : cam < child.cam => VideoHolds(writer.index, cam, child.save)
  /\ child.stage \in {"info", "episodes"} =>
       \A cam \in Camera : VideoHolds(writer.index, cam, child.save)

\* A vocabulary only grows, so a task_index keeps its meaning.
VocabularyProgress ==
  /\ child.stage \in Unlisted \cup {"tasks"} =>
       \A k \in DOMAIN tasks : k \in DOMAIN writer.tasks /\ writer.tasks[k] = tasks[k]
  /\ child.stage \in {"video", "info", "episodes", "tasks"} =>
       LET k == parquet[writer.index].task + 1
       IN  k \in DOMAIN writer.tasks /\ writer.tasks[k] = PromptOf[child.save.plan]

\* A vocabulary that a death has truncated resolves nothing any more.
Resolved(i) == DiedIn("tasks") \/ ResolvesPrompt(i, Row(i))

\* Every row has its data, and its prompt too once tasks.jsonl is rewritten.
RowsHeld ==
  \A i \in 0 .. Len(Rows) - 1 :
    /\ HoldsData(i, Row(i))
    /\ Resolved(i) \/ (child.stage = "tasks" /\ i = writer.index)

IsRow(p, record) ==
  /\ record.index \in 0 .. Len(Rows) - 1
  /\ Row(record.index) = [plan |-> p, attempt |-> record.attempts]

\* A record of a success, on disk or in memory, names a row of that attempt.
RecordsTrue ==
  \A p \in Plan : /\ stats[p].success => IsRow(p, stats[p])
                  /\ mem[p].success => IsRow(p, mem[p])

\* A live task process works on a plan that is not recorded as done.
SaverUnrecorded ==
  Live => /\ ~ stats[child.save.plan].success
          /\ coll.pc \in Stopped \cup {"wait"}

(***************************************************************************)
(* The save of an episode is always at the stage its files, the memory of  *)
(* the writer and the records say it is: what makes a recorded success     *)
(* safe, step by step, from new_episode (episode.py:162-167) to the        *)
(* statistics (collect_randomized_pick_place_dataset.py:385).              *)
(***************************************************************************)
SaveInv ==
  /\ RowsProgress
  /\ DataProgress
  /\ VocabularyProgress
  /\ RowsHeld
  /\ RecordsTrue
  /\ SaverUnrecorded

(***************************************************************************)
(* The books of a collection without deaths inside saves: how the rows of  *)
(* the dataset, the metadata, info.json, the schema and the manifest stand *)
(* to the records of the collector, from the spawn of an attempt to its    *)
(* place in the statistics.  It is what a resume reasons about when it     *)
(* compares two counts (collect_randomized_pick_place_dataset.py:330-336). *)
(***************************************************************************)

\* A task process that nobody waits for was left behind by a crash.
Attended ==
  /\ Live => coll.pc \in {"wait", "crashed"}
  /\ coll.pc = "crashed" => crashes > 0

\* Memory and file differ in the record of the attempt that just ended.
MemoryAhead ==
  /\ coll.pc \notin {"manifest", "stats"} => mem = stats
  /\ coll.pc \in {"manifest", "stats"} =>
       /\ child.stage = "exited" /\ child.save.plan = coll.plan
       /\ ~ stats[coll.plan].success
       /\ mem[coll.plan].success = child.ok
       /\ \A p \in Plan \ {coll.plan} : mem[p] = stats[p]
  /\ coll.pc = "manifest" => child.ok

\* The one row that may be missing in the records is that of the last episode,
\* while its attempt is waited for or after a crash.
MayBeOpen == IsListed /\ (coll.pc = "wait" \/ (coll.pc \in Stopped /\ crashes > 0))

RowsAccounted ==
  \A k \in DOMAIN Rows : mem[Rows[k].plan].success \/ (k = Len(Rows) /\ MayBeOpen)

\* info.json counts the rows, one ahead of episodes.jsonl between their rewrites.
InfoFollows ==
  /\ info.st # "torn"
  /\ info.st = "absent" => Rows = << >> /\ child.stage # "episodes"
  /\ info.st = "whole" =>
       info.total = IF child.stage = "episodes" THEN Len(Rows) + 1 ELSE Len(Rows)

SchemaFollows ==
  /\ schema # "torn"
  /\ KeepsMetadata /\ schema = "absent" /\ episodes.exists => child.stage \in {"tasks", "schema"}

MetadataFollows ==
  KeepsMetadata =>
    /\ Len(metadata) = IF child.stage \in {"tasks", "schema", "row"}
                       THEN Len(Rows) - 1 ELSE Len(Rows)
    /\ \A k \in DOMAIN metadata : metadata[k] = [save |-> Rows[k], index |-> k - 1]

Listing(p, records) == [plan |-> p, index |-> records[p].index]

\* A plan in the manifest is in the statistics, or was the last one listed.
ManifestFollows ==
  /\ \A j, k \in DOMAIN manifest : manifest[j].plan = manifest[k].plan => j = k
  /\ \A k \in DOMAIN manifest :
       /\ manifest[k].index \in 0 .. Len(Rows) - 1
       /\ Row(manifest[k].index).plan = manifest[k].plan
       /\ \/ stats[manifest[k].plan].success
          \/ coll.pc \in Stopped \cup {"stats"} /\ IsListed /\ manifest[k].plan = child.save.plan
  /\ \A p \in Succeeded(stats) : \E k \in DOMAIN manifest : manifest[k] = Listing(p, stats)
  /\ coll.pc = "stats" /\ child.ok =>
       \E k \in DOMAIN manifest : manifest[k] = Listing(coll.plan, mem)

\* What a stopped or finishing collector has found out.
VerdictTrue ==
  /\ coll.pc = "refused" => crashes > 0 /\ Len(Rows) = Cardinality(Succeeded(stats)) + 1
  /\ coll.pc \in {"finalize", "splits", "complete"} => Succeeded(stats) = Plan

\* The ranges of the randomized collector are those of the metadata rows.
RangesFollow ==
  kind = "randomized" =>
    /\ coll.pc = "splits" \/ Finalized =>
         Contiguous(RowSplits(metadata)) /\ info.ranges = FinalRanges
    /\ Finalized => splits = info.ranges

BooksInv ==
  /\ NoPlanTwice
  /\ Attended
  /\ MemoryAhead
  /\ RowsAccounted
  /\ InfoFollows
  /\ SchemaFollows
  /\ MetadataFollows
  /\ ManifestFollows
  /\ VerdictTrue
  /\ RangesFollow
=============================================================================
