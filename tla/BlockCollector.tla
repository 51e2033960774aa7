---------------------------- MODULE BlockCollector ----------------------------
(***************************************************************************)
(* The block collector, data/collect_dataset.py: a number of successful    *)
(* episodes for each of a list of configurations, collected into one       *)
(* dataset by the block tasks (tasks/block_pick.py and the two handoffs).  *)
(*                                                                         *)
(* A block task saves an episode the way the task process of               *)
(* AtomicTransportChild does for a root without schema and metadata.  It   *)
(* prints its success marker before it saves, and this collector reads the *)
(* marker and not the exit code.  Unlike the plan collectors it keeps      *)
(* counters, not plans: the plan of a Save is here the configuration, its  *)
(* attempt the offset of the seed plus one.                                *)
(***************************************************************************)
EXTENDS AtomicTransportChild, FiniteSets

CONSTANTS
  PerConfig,      \* --per-config
  MaxTries,       \* int(per_config * max_attempts_mult), per configuration and run
  MaxStarts,      \* bound on the times the command is run
  MaxCrashes      \* bound on the crashes of the collector

ASSUME BlockAssumption ==
  /\ PerConfig \in Nat \ {0}
  /\ MaxTries \in Nat
  /\ MaxStarts \in Nat
  /\ MaxCrashes \in Nat
  /\ MaxTries * MaxStarts <= MaxAttempt

VARIABLES
  coll,      \* the collector: where it is, its configuration and its tries
  counts,    \* collect_dataset_stats.json, or "torn"
  mem,       \* the same counters in memory
  marker,    \* the captured stdout of the task process has the marker
  raised,    \* how many task processes raised after printing the marker
  starts,
  crashes

blockVars == <<coll, counts, mem, starts, crashes>>
vars == <<datasetVars, childVars, deaths, kind, marker, raised, blockVars>>

Config == Plan
Fresh == [c \in Config |-> [success |-> 0, fail |-> 0, offset |-> 0]]
TornCounts == << >>

Stopped == {"idle", "crashed", "unreadable", "done"}

Init ==
  /\ DatasetInit
  /\ ChildInit
  /\ kind = "transport"
  /\ coll = [pc |-> "idle", config |-> 0, tries |-> 0]
  /\ counts = Fresh
  /\ mem = Fresh
  /\ marker = FALSE
  /\ raised = 0
  /\ starts = 0
  /\ crashes = 0

GoTo(pc) == coll' = [coll EXCEPT !.pc = pc]
TaskUnchanged == UNCHANGED <<datasetVars, childVars, deaths, kind, marker, raised>>

\* A statistics file that cannot be parsed ends the command.
Start ==
  /\ coll.pc \in Stopped
  /\ starts < MaxStarts
  /\ ~ Live
  /\ starts' = starts + 1
  /\ IF counts = TornCounts
     THEN GoTo("unreadable") /\ UNCHANGED mem
     ELSE coll' = [pc |-> "loop", config |-> 0, tries |-> 0] /\ mem' = counts
  /\ UNCHANGED <<counts, crashes>>
  /\ TaskUnchanged

\* The configuration has its episodes or has used up the tries of this run.
Settled == mem[coll.config].success >= PerConfig \/ coll.tries >= MaxTries

NextConfig ==
  /\ coll.pc = "loop"
  /\ Settled
  /\ coll' = IF coll.config + 1 \in Config
             THEN [coll EXCEPT !.config = coll.config + 1, !.tries = 0]
             ELSE [coll EXCEPT !.pc = "done"]
  /\ UNCHANGED <<counts, mem, starts, crashes>>
  /\ TaskUnchanged

Spawn ==
  /\ coll.pc = "loop"
  /\ ~ Settled
  /\ coll' = [coll EXCEPT !.pc = "wait", !.tries = coll.tries + 1]
  /\ child' = [stage |-> "load", cam |-> 1, ok |-> FALSE,
               save |-> [plan |-> coll.config, attempt |-> mem[coll.config].offset + 1]]
  /\ marker' = FALSE
  /\ UNCHANGED <<datasetVars, writer, schema, metadata, deaths, kind, raised>>
  /\ UNCHANGED <<counts, mem, starts, crashes>>

\* check_success holds: the marker is printed, then the episode is saved.
PrintMarker ==
  /\ RolloutSucceeds
  /\ marker' = TRUE
  /\ UNCHANGED <<kind, raised, blockVars>>

TaskStep ==
  /\ OpenWriter \/ RolloutFails \/ ChildSave
  /\ UNCHANGED <<kind, marker, raised, blockVars>>

\* An exception while saving (encoder, disk): stdout is still delivered.
SaveRaises ==
  /\ child.stage \in SaveStages
  /\ Die
  /\ raised' = raised + 1
  /\ UNCHANGED <<kind, marker, blockVars>>

\* Plausible bugs: the stdout captured before the timeout counts; the rollout
\* is not covered by the timeout.
TimeoutKeepingMarker ==
  /\ coll.pc = "wait"
  /\ Die
  /\ UNCHANGED <<kind, marker, raised, blockVars>>

TimeoutWhileStarting ==
  /\ coll.pc = "wait"
  /\ child.stage = "load"
  /\ Die
  /\ marker' = FALSE
  /\ UNCHANGED <<kind, raised, blockVars>>

\* The timeout kills the task process, and its stdout is not looked at.
Timeout ==
  /\ coll.pc = "wait"
  /\ Die
  /\ marker' = FALSE
  /\ UNCHANGED <<kind, raised, blockVars>>

\* A plausible bug: only a failure moves the seed.
ReapKeepingSeed ==
  /\ coll.pc = "wait"
  /\ child.stage = "exited"
  /\ mem' = [mem EXCEPT ![coll.config] =
               [success |-> IF marker THEN @.success + 1 ELSE @.success,
                fail    |-> IF marker THEN @.fail ELSE @.fail + 1,
                offset  |-> IF marker THEN @.offset ELSE @.offset + 1]]
  /\ GoTo("stats")
  /\ UNCHANGED <<counts, starts, crashes>>
  /\ TaskUnchanged

Reap ==
  /\ coll.pc = "wait"
  /\ child.stage = "exited"
  /\ mem' = [mem EXCEPT ![coll.config] =
               [success |-> IF marker THEN @.success + 1 ELSE @.success,
                fail    |-> IF marker THEN @.fail ELSE @.fail + 1,
                offset  |-> @.offset + 1]]
  /\ GoTo("stats")
  /\ UNCHANGED <<counts, starts, crashes>>
  /\ TaskUnchanged

WriteStats ==
  /\ coll.pc = "stats"
  /\ counts' = mem
  /\ GoTo("loop")
  /\ UNCHANGED <<mem, starts, crashes>>
  /\ TaskUnchanged

\* The statistics file is truncated before it is written again.
Crash ==
  /\ coll.pc \notin Stopped
  /\ crashes < MaxCrashes
  /\ crashes' = crashes + 1
  /\ GoTo("crashed")
  /\ counts' \in {counts, IF coll.pc = "stats" THEN TornCounts ELSE counts}
  /\ UNCHANGED <<mem, starts>>
  /\ TaskUnchanged

Done ==
  /\ coll.pc \in Stopped
  /\ starts = MaxStarts
  /\ ~ Live
  /\ UNCHANGED vars

CollectorStep == NextConfig \/ Spawn \/ Timeout \/ Reap \/ WriteStats

Next ==
  \/ Start \/ CollectorStep \/ PrintMarker \/ TaskStep
  \/ SaveRaises \/ Crash \/ Done

Saving == ChildSave /\ UNCHANGED <<kind, marker, raised, blockVars>>

Spec == Init /\ [][Next]_vars /\ WF_vars(CollectorStep) /\ WF_vars(Saving)

-----------------------------------------------------------------------------
EpisodesOf(c) == Cardinality({k \in DOMAIN episodes.rows : episodes.rows[k].plan = c})
DiedIn(stages) == \E k \in DOMAIN deaths : deaths[k] \in stages
Idle == coll.pc \in Stopped \cup {"loop"} /\ ~ Live

(***************************************************************************)
(* Every success this collector counts is an episode of the dataset, as    *)
(* collect_dataset.py:108-109 says of the marker.                          *)
(***************************************************************************)
MarkerIsTruth ==
  Idle /\ counts # TornCounts => \A c \in Config : counts[c].success <= EpisodesOf(c)

(***************************************************************************)
(* Where the counters and the dataset may part: a counted success has no   *)
(* episode only if a task process raised while saving, or one died         *)
(* rewriting episodes.jsonl; and an episode is not counted only if a task  *)
(* process died after its rows were written, or the collector crashed      *)
(* before it wrote the counters.                                           *)
(***************************************************************************)
DriftHasACause ==
  Idle /\ counts # TornCounts => \A c \in Config :
    /\ counts[c].success > EpisodesOf(c) => raised > 0 \/ DiedIn({"episodes"})
    /\ counts[c].success < EpisodesOf(c) => crashes > 0 \/ DiedIn({"tasks", "exit"})

(***************************************************************************)
(* No rollout is in the dataset twice, unless the collector crashed and    *)
(* resumed at the seed of an attempt it had not yet recorded.              *)
(***************************************************************************)
SeedReuseNeedsCrash ==
  (\E j, k \in DOMAIN episodes.rows : j # k /\ episodes.rows[j] = episodes.rows[k])
    => crashes > 0

(***************************************************************************)
(* A run reaches its end: tries are finite, and each of them ends.         *)
(***************************************************************************)
BlockRunEnds == coll.pc \notin Stopped ~> coll.pc \in Stopped
=============================================================================
