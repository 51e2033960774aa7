-------------------------- MODULE DatasetValidators --------------------------
(***************************************************************************)
(* The two read-only validators that decide whether a collected dataset    *)
(* goes to training: data/validate_randomized_pick_place_dataset.py and    *)
(* data/validate_atomic_dataset.py, both on the dataset of a full plan and *)
(* without --check-video-frames.                                           *)
(*                                                                         *)
(* Only what a validator can see counts.  A Parquet file that cannot be    *)
(* read stops it and a video is only counted; the frame count of a file is *)
(* compared with the rows, but two saves may have the same length, so the  *)
(* comparison tells no save from another.  Checks of the scene, the phases *)
(* and the fixed schema fields do not depend on the state modelled here.   *)
(***************************************************************************)
EXTENDS CollectorProperties

FilesPresent ==
  /\ info.st = "whole"
  /\ episodes.exists /\ ~ episodes.torn
  /\ schema = "whole"
  /\ metadata # << >>
  /\ splits # NoSplits

CountsAgree ==
  /\ Len(Rows) = info.total
  /\ Len(metadata) = info.total
  /\ Cardinality(DOMAIN parquet) = info.total
  /\ Cardinality(DOMAIN videos) = info.total * NumCameras

\* Every Parquet file is readable and belongs to a row of episodes.jsonl.
ParquetReadable ==
  \A i \in DOMAIN parquet : parquet[i].st = "whole" /\ i < Len(Rows)

IndexesConsecutive == \A k \in DOMAIN metadata : metadata[k].index = k - 1

(***************************************************************************)
(* The randomized validator resolves the task_index of each episode to the *)
(* prompt of its metadata row, and on a full dataset wants the episodes in *)
(* the order of the plan and the split ranges of the plan.                 *)
(***************************************************************************)
AcceptsRandomized ==
  /\ FilesPresent
  /\ CountsAgree
  /\ info.total = NumPlans
  /\ ParquetReadable
  /\ \A i \in DOMAIN parquet : ResolvesPrompt(i, metadata[i + 1].save)
  /\ IndexesConsecutive
  /\ \A k \in DOMAIN metadata : metadata[k].save.plan = k - 1
  /\ info.ranges = RangesIn(Schedule, Split)
  /\ splits = RangesIn(Schedule, Split)

(***************************************************************************)
(* The atomic validator compares the recorded ranges with the runs of      *)
(* equal splits in the metadata rows (split_ranges), and on a full dataset *)
(* the number of episodes of each split with the plan.                     *)
(***************************************************************************)
MetadataSplits == RowSplits(metadata)
PresentSplits == {MetadataSplits[k] : k \in DOMAIN metadata}

\* The splits present are the first ones of SPLIT_ORDER.
SplitsFromTheFirst ==
  \A sp \in PresentSplits : Earlier(sp) \subseteq PresentSplits

\* A plausible bug: the ranges are compared with the plan, not with the rows.
AcceptsPlanRanges ==
  /\ FilesPresent
  /\ CountsAgree
  /\ ParquetReadable
  /\ IndexesConsecutive
  /\ info.ranges = RangesIn(Schedule, Split)
  /\ splits = RangesIn(Schedule, Split)

AcceptsAtomic ==
  /\ FilesPresent
  /\ CountsAgree
  /\ ParquetReadable
  /\ IndexesConsecutive
  /\ Contiguous(MetadataSplits)
  /\ SplitsFromTheFirst
  /\ info.ranges = RangesIn(MetadataSplits, PresentSplits)
  /\ splits = RangesIn(MetadataSplits, PresentSplits)
  /\ info.total = NumPlans =>
       \A sp \in Split : Occurrences(MetadataSplits, {sp}) = Occurrences(Schedule, {sp})

Accepts ==
  \/ kind = "randomized" /\ AcceptsRandomized
  \/ kind = "atomic" /\ AcceptsAtomic

(***************************************************************************)
(* What training assumes of a dataset: each row of episodes.jsonl has its  *)
(* own data under its own prompt, a metadata row that describes it, and a  *)
(* place in the range of its split.                                        *)
(***************************************************************************)
DatasetTrue ==
  /\ \A i \in 0 .. Len(Rows) - 1 :
       /\ HoldsData(i, Row(i))
       /\ ResolvesPrompt(i, Row(i))
       /\ metadata[i + 1] = [save |-> Row(i), index |-> i]
  /\ SplitsTrue

(***************************************************************************)
(* A validator that accepts the dataset of a stopped collection is right   *)
(* about it, wherever the one death of the run tore the save, and a full   *)
(* plan that is accepted holds every plan once.                            *)
(***************************************************************************)
ValidatorSound ==
  coll.pc \in Stopped /\ ~ Live /\ Accepts =>
    /\ DatasetTrue
    /\ info.total = NumPlans => NoPlanTwice
=============================================================================
