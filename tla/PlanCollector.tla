---------------------------- MODULE PlanCollector ----------------------------
(***************************************************************************)
(* The three collectors that fill a dataset from a fixed plan:             *)
(* data/collect_randomized_pick_place_dataset.py,                          *)
(* data/collect_atomic_transport_dataset.py and                            *)
(* data/collect_transport_dataset.py.  They share one loop: take the first *)
(* unfinished plan, run the task process on it, record its outcome in the  *)
(* statistics file, and stop when no plan is left to try.  The statistics  *)
(* file is what a later start resumes from; the dataset itself belongs to  *)
(* the task process (AtomicTransportChild).                                *)
(*                                                                         *)
(* A start is the operator running the command.  As the resume rules of    *)
(* the documentation ask, it is run only when no task process is left.     *)
(***************************************************************************)
EXTENDS AtomicTransportChild, FiniteSets

CONSTANTS
  SplitOf,       \* the split of each plan
  SplitOrder,    \* SPLITS
  Budgets,       \* the values --max-attempts is given
  MaxStarts,     \* bound on the times the command is run
  MaxCrashes     \* bound on the crashes of a collector

Split == {SplitOrder[k] : k \in DOMAIN SplitOrder}

ASSUME CollectorAssumption ==
  /\ SplitOf \in [Plan -> Split]
  /\ SplitOrder \in Seq(Split)
  /\ Budgets \subseteq 1 .. MaxAttempt
  /\ MaxStarts \in Nat
  /\ MaxCrashes \in Nat

VARIABLES
  coll,      \* the collector process: where it is, its plan and its arguments
  stats,     \* *_collection_stats.json, one record per plan
  mem,       \* the same records in the memory of the collector
  manifest,  \* *_collection_manifest.jsonl, append only
  splits,    \* meta/*_splits.json, once written
  starts,    \* how often the command was run
  crashes    \* how often a collector was killed or interrupted

collectorVars == <<coll, stats, mem, manifest, splits, starts, crashes>>
vars == <<datasetVars, childVars, deaths, kind, collectorVars>>

NoIndex == -1
NoSplits == [sp \in {} |-> <<0, 0>>]

Stopped == {"idle", "crashed", "refused", "raised", "exhausted", "complete"}
Running == {"loop", "wait", "manifest", "stats", "finalize", "splits"}

Init ==
  /\ DatasetInit
  /\ ChildInit
  /\ coll = [pc |-> "idle", plan |-> 0, budget |-> 1, defer |-> FALSE]
  /\ stats = [p \in Plan |-> [attempts |-> 0, success |-> FALSE, index |-> NoIndex]]
  /\ mem = stats
  /\ manifest = << >>
  /\ splits = NoSplits
  /\ starts = 0
  /\ crashes = 0

GoTo(pc) == coll' = [coll EXCEPT !.pc = pc]
DatasetUnchanged == UNCHANGED <<datasetVars, childVars, deaths, kind>>

Succeeded(records) == {p \in Plan : records[p].success}

(***************************************************************************)
(* Start.  The run is refused when info.json disagrees with the successes  *)
(* of the statistics file or cannot be parsed; the atomic collector also   *)
(* checks the schema of the root first.                                    *)
(***************************************************************************)
\* A plausible bug: the dataset is not compared with the statistics.
ResumeUnchecked ==
  \/ kind = "atomic" /\ SchemaRefused
  \/ info.st = "torn"

ResumeRefused ==
  \/ kind = "atomic" /\ SchemaRefused
  \/ info.st = "torn"
  \/ info.st = "whole" /\ info.total # Cardinality(Succeeded(stats))

Start(budget, defer) ==
  /\ coll.pc \in Stopped
  /\ starts < MaxStarts
  /\ ~ Live
  /\ defer => kind = "randomized"
  /\ coll' = [coll EXCEPT !.pc = IF ResumeRefused THEN "refused" ELSE "loop",
                          !.budget = budget, !.defer = defer]
  /\ mem' = stats
  /\ starts' = starts + 1
  /\ UNCHANGED <<stats, manifest, splits, crashes>>
  /\ DatasetUnchanged

(***************************************************************************)
(* The loop over the schedule: a plan is retried until it succeeds or its  *)
(* attempts are used up, and the plans are taken in order, so the plan of  *)
(* the next attempt is the first one with attempts left.                   *)
(***************************************************************************)
\* Plausible bugs: a plan that succeeded is not skipped; one attempt too many.
PendingOrDone == {p \in Plan : mem[p].attempts < coll.budget}
PendingOnceMore == {p \in Plan : ~ mem[p].success /\ mem[p].attempts <= coll.budget}

Pending == {p \in Plan : ~ mem[p].success /\ mem[p].attempts < coll.budget}

Spawn ==
  /\ coll.pc = "loop"
  /\ \E p \in Pending :
       /\ \A q \in Pending : p <= q
       /\ coll' = [coll EXCEPT !.pc = "wait", !.plan = p]
       /\ child' = [stage |-> "guard", cam |-> 1, ok |-> FALSE,
                    save |-> [plan |-> p, attempt |-> mem[p].attempts + 1]]
  /\ UNCHANGED <<datasetVars, writer, schema, metadata, deaths, kind>>
  /\ UNCHANGED <<stats, mem, manifest, splits, starts, crashes>>

\* A plausible bug: a success is not written to the manifest.
ReapSkippingManifest ==
  /\ coll.pc = "wait"
  /\ child.stage = "exited"
  /\ mem' = [mem EXCEPT ![coll.plan] =
               [attempts |-> child.save.attempt,
                success  |-> child.ok,
                index    |-> IF child.ok THEN writer.index ELSE @.index]]
  /\ GoTo("stats")
  /\ UNCHANGED <<stats, manifest, splits, starts, crashes>>
  /\ DatasetUnchanged

\* subprocess.run returns: the outcome of the attempt goes into the record.
\* A success prints the index of its episode, which the record keeps.
Reap ==
  /\ coll.pc = "wait"
  /\ child.stage = "exited"
  /\ mem' = [mem EXCEPT ![coll.plan] =
               [attempts |-> child.save.attempt,
                success  |-> child.ok,
                index    |-> IF child.ok THEN writer.index ELSE @.index]]
  /\ GoTo(IF child.ok THEN "manifest" ELSE "stats")
  /\ UNCHANGED <<stats, manifest, splits, starts, crashes>>
  /\ DatasetUnchanged

\* A plausible bug: the rollout is not covered by the timeout.
TimeoutWhileStarting ==
  /\ coll.pc = "wait"
  /\ child.stage \in {"guard", "load"}
  /\ Die
  /\ UNCHANGED <<kind, collectorVars>>

\* TimeoutExpired: the task process is killed; Reap then records the failure.
Timeout ==
  /\ coll.pc = "wait"
  /\ Die
  /\ UNCHANGED <<kind, collectorVars>>

AppendManifest ==
  /\ coll.pc = "manifest"
  /\ manifest' = Append(manifest, [plan  |-> coll.plan,
                                   index |-> mem[coll.plan].index])
  /\ GoTo("stats")
  /\ UNCHANGED <<stats, mem, splits, starts, crashes>>
  /\ DatasetUnchanged

\* _write_json replaces the file in one step.
WriteStats ==
  /\ coll.pc = "stats"
  /\ stats' = mem
  /\ GoTo("loop")
  /\ UNCHANGED <<mem, manifest, splits, starts, crashes>>
  /\ DatasetUnchanged

\* A plausible bug: exhausted plans do not keep the collection from finishing.
EndLoopRegardless ==
  /\ coll.pc = "loop"
  /\ Pending = {}
  /\ GoTo(IF kind = "transport" \/ coll.defer THEN "complete" ELSE "finalize")
  /\ UNCHANGED <<stats, mem, manifest, splits, starts, crashes>>
  /\ DatasetUnchanged

EndLoop ==
  /\ coll.pc = "loop"
  /\ Pending = {}
  /\ GoTo(IF Succeeded(mem) # Plan THEN "exhausted"
          ELSE IF kind = "transport" \/ coll.defer THEN "complete"
          ELSE "finalize")
  /\ UNCHANGED <<stats, mem, manifest, splits, starts, crashes>>
  /\ DatasetUnchanged

(***************************************************************************)
(* Split finalization.  The randomized collector counts the splits of the  *)
(* metadata rows it finds on disk, the atomic collector those of its       *)
(* schedule; either raises when they are not contiguous.  An episode i     *)
(* belongs to split sp when ranges[sp] = <<first, last + 1>> holds i.      *)
(***************************************************************************)
Schedule == [k \in 1 .. NumPlans |-> SplitOf[k - 1]]
RowSplits(rows) == [k \in DOMAIN rows |-> SplitOf[rows[k].save.plan]]

Occurrences(seq, S) == Cardinality({k \in DOMAIN seq : seq[k] \in S})
Earlier(sp) == {SplitOrder[k] : k \in {j \in DOMAIN SplitOrder :
                                  \A i \in 1 .. j : SplitOrder[i] # sp}}

RangeIn(seq, sp) ==
  LET start == Occurrences(seq, Earlier(sp))
  IN  <<start, start + Occurrences(seq, {sp})>>

RangesIn(seq, S) == [sp \in S |-> RangeIn(seq, sp)]

\* A plausible bug: the rows are counted and their order is not looked at.
AnyOrder(seq) == DOMAIN seq = 1 .. Len(seq)

Contiguous(seq) ==
  \A k \in DOMAIN seq :
    LET r == RangeIn(seq, seq[k]) IN r[1] < k /\ k <= r[2]

\* The splits the collector counts, and those that get a range.
CountedSplits == IF kind = "randomized" THEN RowSplits(metadata) ELSE Schedule
RangedSplits ==
  IF kind = "randomized" THEN {CountedSplits[k] : k \in DOMAIN CountedSplits} ELSE Split

FinalRanges == RangesIn(CountedSplits, RangedSplits)

FinalizeInfo ==
  /\ coll.pc = "finalize"
  /\ IF ~ Contiguous(CountedSplits) \/ info.st # "whole"
     THEN GoTo("raised") /\ UNCHANGED info
     ELSE GoTo("splits") /\ info' = [info EXCEPT !.ranges = FinalRanges]
  /\ UNCHANGED <<episodes, tasks, parquet, videos, childVars, deaths, kind>>
  /\ UNCHANGED <<stats, mem, manifest, splits, starts, crashes>>

FinalizeSplits ==
  /\ coll.pc = "splits"
  /\ splits' = FinalRanges
  /\ GoTo("complete")
  /\ UNCHANGED <<stats, mem, manifest, starts, crashes>>
  /\ DatasetUnchanged

(***************************************************************************)
(* Crashes of the collector.  Killed on its own it leaves the task process *)
(* running as an orphan; an interrupt or a host failure ends both.  Only   *)
(* the records in its memory are lost.                                     *)
(***************************************************************************)
Crash ==
  /\ coll.pc \in Running
  /\ crashes < MaxCrashes
  /\ crashes' = crashes + 1
  /\ GoTo("crashed")
  /\ mem' = stats
  /\ UNCHANGED <<stats, manifest, splits, starts, kind>>

CrashAlone == Crash /\ UNCHANGED <<datasetVars, childVars, deaths>>
CrashTogether == Crash /\ coll.pc = "wait" /\ Die

\* An orphan that prints to its closed pipe, or is killed by hand, dies too.
OrphanDies ==
  /\ coll.pc \in Stopped
  /\ Die
  /\ UNCHANGED <<kind, collectorVars>>

Operator == \E budget \in Budgets, defer \in BOOLEAN : Start(budget, defer)

CollectorStep ==
  \/ Spawn \/ Reap \/ Timeout \/ AppendManifest \/ WriteStats
  \/ EndLoop \/ FinalizeInfo \/ FinalizeSplits

ChildStep == (ChildEarly \/ ChildSave) /\ UNCHANGED <<kind, collectorVars>>
Saving == ChildSave /\ UNCHANGED <<kind, collectorVars>>

\* The command has been run as often as it will be, and every process ended.
Done ==
  /\ coll.pc \in Stopped
  /\ starts = MaxStarts
  /\ ~ Live
  /\ UNCHANGED vars

Next ==
  \/ Operator \/ CollectorStep \/ ChildStep
  \/ CrashAlone \/ CrashTogether \/ OrphanDies
  \/ Done

(***************************************************************************)
(* The collector is scheduled and its timeout fires; a task process that   *)
(* has reached its save is scheduled.  Nothing is assumed of a rollout.    *)
(***************************************************************************)
Fairness == WF_vars(CollectorStep) /\ WF_vars(Saving)

Spec == Init /\ [][Next]_vars
FairSpec == Spec /\ Fairness
=============================================================================
