--------------------------- MODULE SplitFinalizer ---------------------------
(***************************************************************************)
(* data/finalize_atomic_dataset.py beside the atomic collector.  The       *)
(* collector writes split ranges only after a full collection; this tool   *)
(* gives ranges to what there is, counted from the metadata rows, and      *)
(* lists the plans that are missing.  The operator runs it while nothing   *)
(* else runs, and may resume the collection afterwards.                    *)
(***************************************************************************)
EXTENDS DatasetValidators

CONSTANT MaxRepairs    \* bound on the times the tool is run

ASSUME RepairAssumption == MaxRepairs \in Nat

VARIABLE fx    \* the tool: where it is, what it computed, how often it ran

FinalizerInit == fx = [pc |-> "idle", ranges |-> NoSplits, missing |-> {}, runs |-> 0]

\* A plausible bug: the ranges of the plan, as the collector writes them.
RangesOfPlan == RangesIn(Schedule, Split)

\* split_ranges: the runs of equal splits in the metadata rows.
RangesOfRows == RangesIn(MetadataSplits, PresentSplits)

\* Rows numbered from zero, in runs that follow SPLIT_ORDER from its first split.
SplitsRanged ==
  /\ metadata # << >>
  /\ IndexesConsecutive
  /\ Contiguous(MetadataSplits)
  /\ SplitsFromTheFirst

\* The plans no metadata row names.
MissingPlans == Plan \ {metadata[k].save.plan : k \in DOMAIN metadata}

\* Everything is read and computed before anything is written.
StartFinalizer ==
  /\ fx.pc \in {"idle", "raised", "done"}
  /\ fx.runs < MaxRepairs
  /\ coll.pc \in Stopped
  /\ ~ Live
  /\ IF info.st = "whole" /\ info.total = Len(metadata) /\ SplitsRanged
     THEN fx' = [pc |-> "info", ranges |-> RangesOfRows, missing |-> MissingPlans,
                 runs |-> fx.runs + 1]
     ELSE fx' = [fx EXCEPT !.pc = "raised", !.runs = @ + 1]
  /\ UNCHANGED vars

\* Both files are replaced in one step each, info.json first.
RepairInfo ==
  /\ fx.pc = "info"
  /\ info' = [info EXCEPT !.ranges = fx.ranges]
  /\ fx' = [fx EXCEPT !.pc = "splits"]
  /\ UNCHANGED <<episodes, tasks, parquet, videos, childVars, deaths, kind, collectorVars>>

RepairSplits ==
  /\ fx.pc = "splits"
  /\ splits' = fx.ranges
  /\ fx' = [fx EXCEPT !.pc = "done"]
  /\ UNCHANGED <<stats, mem, manifest, coll, starts, crashes>>
  /\ DatasetUnchanged

\* Killed between the two, it leaves the ranges in info.json alone.
KillFinalizer ==
  /\ fx.pc \in {"info", "splits"}
  /\ fx' = [fx EXCEPT !.pc = "idle"]
  /\ UNCHANGED vars

\* A collection that goes on leaves the ranges behind.
Resumed ==
  /\ fx.pc \in {"idle", "raised", "done"}
  /\ Next
  /\ fx' = [fx EXCEPT !.pc = "idle"]

FinalizerNext == Resumed \/ StartFinalizer \/ RepairInfo \/ RepairSplits \/ KillFinalizer

-----------------------------------------------------------------------------
(***************************************************************************)
(* Whatever the collection went through (plans given up, kills, one death  *)
(* inside a save, an earlier repair cut short), the ranges this tool       *)
(* writes put every episode into its own split and no other, both files    *)
(* say the same, the missing plans are those without data, and a partial   *)
(* dataset whose files are there passes the validator's split rules too.   *)
(***************************************************************************)
RepairedSplitsTrue ==
  fx.pc = "done" =>
    /\ SplitsTrue
    /\ splits = info.ranges
    /\ fx.missing = Plan \ {Rows[k].plan : k \in DOMAIN Rows}
    /\ FilesPresent /\ CountsAgree /\ ParquetReadable /\ info.total < NumPlans =>
         AcceptsAtomic
=============================================================================
