# A verification of the data collection of pi05_TO_hybrid

The repository collects demonstrations of the RB-Y1 robot in MuJoCo, trains a
pi0.5 policy on them and runs the policy. Everything that is trained on comes
out of one pipeline: a collector starts a task process per attempt, the task
process appends a successful episode to a LeRobot v2 dataset, the collector
records the outcome, and a later start of the same command resumes from that
record. A full collection is 2000 episodes and takes days, so processes do
time out, crash and get restarted, and a dataset that is silently wrong is
trained on. That pipeline is the core modelled here; around it stand the
scripted programs that produce an episode, the schedules and scenes they start
from, the tools that repair a dataset and start a training, and, on the other
side of the training, the loop that runs the policy and the experiments that
judge it.

Paths below are relative to `rby1_manipulation/src/rby1_manipulation/` unless
they start with `rby1_bringup/`, `docs/` or `scripts/`.

## 1. Inventory

| Component | State | Operations | Talks to |
|---|---|---|---|
| Dataset writer `data/episode.py` | rows and vocabulary in memory; `info.json`, `episodes.jsonl`, `tasks.jsonl`, Parquet and MP4 files | load, `new_episode`, `save_episode`, `finalize` | the files of the dataset root |
| Task process `tasks/transport_atomic.py`, `tasks/transport_pack_lift.py`, `data/recording.py` | one rollout, its recorder, the schema file, the metadata file | schema check, rollout, `finish`, schema, metadata row, exit code | writer (calls), collector (stdout, exit code) |
| Plan collectors `data/collect_randomized_pick_place_dataset.py`, `collect_atomic_transport_dataset.py`, `collect_transport_dataset.py` | plan, statistics, manifest, split files | resume check, loop, `subprocess.run`, record, finalize splits | task process, dataset files (reads `info.json`, rewrites its splits) |
| Block collector `data/collect_dataset.py` with `tasks/block_pick.py` and the handoffs | counters and seed offset per configuration | loop, `run_one_episode`, rewrite counters | task process (stdout only) |
| Batch collector `data/collect_batch.py` | one writer for many seeds | save per seed, finalize once | writer |
| Validators `data/validate_*.py` | none | read the dataset, accept or list errors | dataset files |
| Split finalizer `data/finalize_atomic_dataset.py` | none | range the rows, rewrite `info.json`, rewrite the split file | dataset files |
| Reindexer `data/reindex_randomized_pick_place_dataset.py` | a new root | copy episodes in plan order | dataset files |
| Schedules and scenes `simulation/`, `data/preflight_*.py`, the builders of the collectors | counters of the assignment, tries of a scene | balanced plans, scenes dealt to units, rejection sampling, preflight | collectors, task process |
| Scripted tasks `tasks/`, with `control/`, `planning/`, `evaluation/` | phase, events, frames, contacts seen, checks, arms out | motions, grasps and retries, monitors, judgement | recorder (callbacks per step), writer |
| Inference `rby1_bringup/pi05_infer.py` | chunk and its row, last command, hold, feedback, buffers, deadline | observe, infer, hold or apply, simulate, save | policy server (`SafeRemoteClient`), simulation |
| Experiments `rby1_bringup/pi05_ex_infer.py` | list of trials, `results.jsonl`, files of a trial, report | choose trials, resume, run, verdict, save, report | inference, SEAM server, readers `scripts/compare_grid_conditions.py`, `scripts/replay_trial.py` |
| Training gate `scripts/patch_dataset_timestamps.py`, `preflight_atomic_finetune.py`, `launch_*_train_after_norm.sh` | copies of episodes, tmux sessions, statistics file | patch in place, wait, check, launch | dataset files, external sessions |
| Viewers, plots, vendored packages | - | - | - |

What must be right, per component:

* **Writer**: an index names one episode; the rows, the files and the
  vocabulary describe the same episode; what was written stays.
* **Task process**: nothing is written unless the attempt succeeded; the
  metadata row describes the episode whose index it carries.
* **Plan collectors**: a success that is recorded is on disk (the plan is never
  tried again); a plan is in the dataset once; statistics only move forward;
  split ranges are true of the episodes; a run ends; a refusal has a cause.
* **Block collector**: the counters count episodes of the dataset.
* **Batch collector**: a run that dies loses its own episodes only.
* **Validators, finalizer, reindexer**: a dataset that is accepted is true; the
  ranges a repair writes are those of the episodes; a published copy holds the
  same episodes in plan order.
* **Schedules and scenes**: the quotas of a plan, and what the shuffle decides
  of it (scenes, layouts, slots); a linked sequence keeps its scene and its
  order; a scene can be worked in.
* **Scripted tasks**: a success saved is the whole of what the prompt asks, was
  watched, passes the validator, and its events point at their frames; the
  arms and grippers follow each other so that nothing collides and nothing is
  let go too early.
* **Inference**: a row is applied at the step it was predicted for; nothing of
  a chunk that may not run is commanded, through any hold; feedback and saved
  arrays say what happened; a delay is never caught up.
* **Experiments**: a finished trial is not run again across restarts; files and
  readers speak of the attempt they name, and it is known what a report counts;
  a contact stops the trial.
* **Training gate**: what was recorded survives the patch; a training starts on
  what was checked, or it is known what got past the checks.

Hard behaviours: a task process killed by the timeout at any line of its save;
files rewritten in place; a collector killed with or without its child; an
orphan that finishes its save later; a restart with other arguments
(`--max-attempts`, `--defer-finalize`, another grid revision or condition); two
files that must agree and are written one after the other; callbacks that look
at the world at their own rate while a program goes on; an answer of the policy
server that is late, lost or unsafe; Ctrl-C between two statements.
`PROJECT.json` lists each at its line.

## 2. Modules

```
 LeRobotWriter          dataset directory, writer memory, torn writes
   ^ EXTENDS
 AtomicTransportChild   one task process            BatchCollector
   ^              ^                                 (LeRobotWriter on its own)
 PlanCollector   BlockCollector      a collector around the task process
   ^                ^
 CollectorProperties  MCBlockCollector
   |  INSTANCE CollectionLedger (abstract specification)
   ^           ^                 ^
 DatasetValidators  CollectorInvariants  CollectorProofs
   ^         ^          ^         ^             ^
   |   MCPlanCollector--+      RecordedSuccessProofs
   |                                ^
 Reindexer, SplitFinalizer      LedgerProofs
   ^                                ^
 MCDatasetTools <------------- DatasetProofs
   |
   +-- INSTANCE BatchCollector, Schedules, SceneSampling, AtomicSuite, TrainingGate

 BlockCollector <- BlockProofs
 FruitGrid <- Schedules, SceneSampling
 TaskRollout <- MCTasks <- TaskProofs
                   +-- INSTANCE PackTasks, HandoffTasks
 InferenceLoop <- InferenceLoopProofs
 Experiments <- MCExperiments, ExperimentProofs
```

**LeRobotWriter** (`data/episode.py`). `info`, `episodes`, `tasks`, `parquet`
and `videos` are the files, `writer` the memory of the `LeRobotWriter` object.
A file is absent, torn or whole; an episode's data is the pair of plan and
attempt that fixes the seed of its rollout. `LoadExistingState` is `__init__`
plus `new_episode`; `WriteParquet` and `WriteVideo` are `save_episode`;
`WriteInfo`, `WriteEpisodes`, `WriteTasks` are the three rewrites of
`finalize`. `Torn*` is what a death inside each of them can leave: a file
small enough for one buffer is untouched or empty, `episodes.jsonl` keeps any
prefix of its rows, the last possibly cut.

**AtomicTransportChild** (`tasks/transport_atomic.py`, `transport_pack_lift.py`,
`data/recording.py`). `child.stage` walks `guard`, `load`, `rollout`,
`parquet`, `video` (once per camera), `info`, `episodes`, `tasks`, `schema`,
`row`, `exit`, `exited`. The rollout is one nondeterministic choice between
success and failure: nothing is written before it succeeds. `Die` ends the
process at any stage, tears the file of that stage and never reports exit code
zero; `deaths` remembers in which stages a save was interrupted.
`kind` tells the three plan collectors apart (schema, metadata and
finalization differ).

**PlanCollector** (the three `main` functions). `coll.pc` is the position in
`main`; `mem` is the dictionary in memory, `stats` the file. `Start` is
everything up to the loop, including the refusals; `Spawn` picks the first
plan with attempts left; `Reap` is the return of `subprocess.run` and
`record.update`; `AppendManifest` and `WriteStats` follow in the code's order;
`EndLoop` ends the run as exhausted, complete, or through `FinalizeInfo` and
`FinalizeSplits`. `CrashAlone` leaves the child running, `CrashTogether` (an
interrupt, a host failure) ends both; `OrphanDies` ends the child of a dead
collector. The spawned process sees the plan, not the collector's state.
The three collectors write their statistics through a temporary file and a
rename, which is one step.

**CollectionLedger** is the abstract promise: commit a plan at most once and
only while nothing waits for its acknowledgement, acknowledge, complete. The
refinement maps the rows of `episodes.jsonl` to the commits and the recorded
successes to the acknowledgements (`RefinesLedger`).

**DatasetValidators** states what the two validators accept as predicates on
the files and compares it with what training assumes (`DatasetTrue`).

**BlockCollector** composes the same task process with the older collector:
counters instead of plans, stdout marker instead of exit code, statistics
written in place.

**BatchCollector** (`data/collect_batch.py`) is the writer used once for many
seeds: `OpenRoot` loads the rows, `RolloutOfSeed`, `SaveSeedParquet` and
`SaveSeedVideo` follow for each seed, `FinalizeBatch` once at the end, and
`BatchDies` anywhere. `finished` is what the runs that ended left.

**Reindexer** composes the randomized collector, crashes and torn saves
included, with `rebuild_dataset`: `StartBuild` makes all the checks that come
before anything is copied, `CopyEpisode` follows the plan, `WriteMeta` and
`WriteManifest` write what is counted last, `Publish` renames the directory.
The copy is judged by the definitions of a collected dataset, through
`INSTANCE DatasetValidators` on its files.

**SplitFinalizer** does the same for the atomic collector and
`finalize_atomic_dataset.py`: ranges from the rows, two files replaced one after
the other, a kill between them, and collections that go on afterwards
(`Resumed`).

**FruitGrid**, **Schedules**, **SceneSampling**. `FruitGrid` reads the two
JSON files of the layout in millimetres, with the loaders' validation.
`Schedules` has the three builders and their validators as operators evaluated
at the real sizes (no seed changes which episodes there are), and
`_assign_scenes` as a state machine, a unit at a time in any shuffled order. The
randomized and the transport builder deal slots, arms and layouts in turn, so
that they are even under any shuffle and are checked at 2000 and 1200 episodes.
The atomic one deals scenes along the shuffle: whether each fruit is taken from
each slot 120 times depends on the seed, and `ValidatePlan` refuses a plan in
which it is not. What holds under any shuffle is checked on small plans: layouts
stay within the longest sequence of each other, slots within one of each other
but for the sequences. That a shuffle of the 1880 units of the real plan passes
is not shown; the program looks, and raises.
`SceneSampling` has the three ways a scene is drawn (the transport layout, the
jittered grid with fruits in the basket, rejection sampling) and the preflight
over them; a draw is an end or the middle of its range, and a check of the
physics has any outcome.

**TaskRollout** (`tasks/transport_atomic.py`) counts physics steps: each motion
takes a number of them; every `Look` steps the callback looks at the contacts
and through the wrist camera, every `Every` steps at the fruits, and records a
frame. `look` and `clock` go on over the motions, as `monitor_step` does. What
goes wrong in the world takes any steps of one motion, and a fruit may stay
where it fell: `happened` has its kind, its phase, whether anything looked for
it (`LookedFor`) and whether it was shorter than the time between two looks
(`brief`); the program knows only `seen`.
Recovery prefixes, verified grasps with their retry, events latched by the
first motion that names them, the judgement, and the phases after it are
actions of their own.

**PackTasks** (`transport_pack_lift.py`, `transport_crate.py`,
`transport_load_and_carry.py`) has the motion and the test that follows it as
one step, with fruits that roll, fall or leave the crate between two tests.
**HandoffTasks** (`handoff_left_to_right.py`, its mirror image,
`block_pick.py`) has the shared script of giver and receiver; the giver's
return runs on behind the receiver's motions as a ramp that counts down. Every
close may miss, and in every motion the block may slip out of any gripper that
has it (`Keeps`), which the docstring warns of for the reorientation
(`handoff_left_to_right.py:41-45`). What is assumed of the physics is where it
falls: onto the floor, or from the second waypoint of the delivery on into the
container, which from the fourth on is below it. The delivery is modelled as
`run` performs it; the comment at `handoff_left_to_right.py:524-525` that it is
currently disabled is an old one.
`MCTasks` runs one program of the three families at a time.

**InferenceLoop** (`rby1_bringup/pi05_infer.py`) has one action per part of
`main` and `loop_body`: set-up, warm-up, observation and inference, the
decision of the gate, hold or row, physics, the appends to the buffers, the
wait for the deadline, and the saves of `finally`. A command is known by where
it came from: the observation and row of a chunk, a measurement, or a stop. The
classes of the safety client belong to another repository; what the loop relies
on is modelled from its calls and comments and marked external.

**Experiments** (`rby1_bringup/pi05_ex_infer.py`) keeps what a directory keeps
(`results`, `artifact`, `config`), what a command has in memory, and `attempts`,
every attempt ever made, which no code reads: records and files are compared by
the attempt they belong to. A line may be cut by a full disk; the next joins it
and both are lost (`AppendLine`, `Cut`). The
operators `LoadCondition`, `TrajectoryMetrics` and `Replays` are what the
readers in `scripts/` make of the directory. **AtomicSuite** is how the trials
of an atomic experiment are chosen and their scenes drawn; scores are whole
numbers, multiplied by a common multiple (`ScoreScale`) of what they divide by.

**TrainingGate** (`scripts/`) has the patch of the timestamps, with a copy and
a rewrite as an opening, which tears the file, and a write; the two launch
scripts, step by step as `set -e` runs them, twice at the same time; and the
external sessions they wait for and start. A file starts with either kind of
times: `EpisodeRecorder` records nominal ones (`data/recording.py:176`), so the
atomic dataset passes the preflight unpatched, as
`docs/ATOMIC_BASKET_DATASET_14D_KO.md:284-285` says; the block programs and the
batch collector record those of the simulation.

**CollectorProperties**, **CollectorInvariants**: the properties of the
collectors, and the inductive invariants behind them (`SaveInv` for what is on
disk, `BooksInv` for how the records of it agree). **MC** modules give the
small instances; section 5 goes through the proof modules.

## 3. Runs

| Run | Bounds | States | Shows |
|---|---|---|---|
| `collector_no_torn_save` | 3 plans, 2 cameras, 2 attempts, budgets 1 and 2, 3 starts, 2 crashes | 47 thousand | Dataset, metadata, manifest and statistics agree; recorded successes are on disk; no plan twice; a refusal is exactly one unrecorded episode; the randomized collector's ranges are true; the ledger is implemented. |
| `collector_torn_save` | the same with 2 starts, 1 crash, 1 death inside a save | 297 thousand | The validators are right about what they accept; a recorded success is lost only to a death in `episodes.jsonl` or `tasks.jsonl`; statistics only move forward; runs end. |
| `block_counts` | 2 configurations of 2 episodes, 2 tries, 2 starts, 1 crash, 1 death | 515 thousand | Counters and dataset part only for the named causes; a rollout is in the dataset twice only after a crash; runs end. |
| `dataset_tools` | 3 plans, 2 starts, 1 crash, 1 death, 2 builds, 2 repairs; schedules at their real sizes and plans of 5 units; 2 tries per scene; 4 records; 2 episodes, 2 patches, 2 launches | 3.4 million | A published copy is true and in plan order, and a complete collection is rebuilt; repaired ranges are true; finished batches stay; the quotas of schedules, their sequences and the suites hold, and slots and layouts are dealt evenly but for the sequences; scenes can be worked in; a patch loses nothing recorded, and a training starts on what passed but for what a patch has just opened. |
| `task_rollout` | 3 physics steps per frame, 2 per look at the contacts, holds of 6 and 7, motions of 3 or 4, 1 mishap; 3 fruits | 264 thousand | A success saved passes the validator, hides nothing that lasted from one look to the next, and its events mark their frames; one arm is out at a time; a crate success is whole; the block falls only where it was missed or slipped. |
| `inference_loop` | horizon 2, 5 steps, hold limit 1, delays up to 2 actions | 5.9 million | Rows are applied at their step; nothing blocked is commanded; a fixed hold stands; feedback adds up; saved arrays fit; delays are not caught up. |
| `experiments` | 2 trials, one of them a lift, 2 revisions, 2 conditions, 2 starts, horizon 1, 2 actions | 3.1 million | No finished trial twice; files and readers speak of their attempt; the report has each finished trial in one line and interrupted ones beside it; SEAM sessions start fresh; contacts stop. |
| `collector_resume` | as the first, smaller | violated | The same command does not resume after a crash between save and statistics. |
| `collector_splits` | as the first, smaller | violated | The atomic collector's ranges are not those of the episodes. |
| `collector_index` | one death | violated | A death while `episodes.jsonl` is rewritten makes the next process overwrite a recorded episode. |
| `block_marker` | as `block_counts` | violated | The marker counts episodes whose save raised. |
| `task_success` | as `task_rollout`, one program | violated | The other fruits are not judged over the whole episode. |

Why the bounds suffice for the questions asked. *Collectors*: the plan
interactions are "same prompt", "same split" and "other split, other prompt",
and three plans have all of them; two attempts and two budgets let a plan be
exhausted in one run and collected in the next, out of order; two cameras
separate the first video from the last, which appends the row; with three
starts and two crashes a crash can hit a resumed run. *Tasks*: with looks every
two steps and frames every three, motions of three and four steps start and end
anywhere between two looks and two frames, and a mishap lasts for fewer, as many
or more steps than each; one mishap is enough since each is judged on its own.
Three fruits give a pick in which the arm must change and another in which it
must not. *Inference*: a horizon of two has a first and a last row;
five steps are three requests, so that a hold can start, last over a chunk
boundary and be released, and the feedback of a held chunk can precede that of
an executed one; the proofs below do without the bound. *Experiments*: two
starts let each command be resumed by another of any revision and condition;
the second trial is reached after any end of the first. *Tools*: two builds,
repairs and patches let the second meet what the first one left when it was
killed; two episodes let one be patched and the other not, and be of different
recorders.

Two deaths inside saves were tried with a budget of three (2.25 million
states): `LossHasACause`, `StatsMonotone` and `RunEnds` still hold,
`ValidatorSound` does not. One death may drop the row of a recorded episode and
another let a plan that shares its prompt be saved in its place: the counts
agree again, the metadata row says one plan and the frames are of the other,
and neither validator compares them. This is why `ValidatorSound` is stated for
one death.

Deadlock is checked in every run. `Done` marks the states where the command
has been run `MaxStarts` times and every process has ended; the other modules
name their ends in the same way (`ScheduleDone`, `TaskEnded`, `GateDone`, ...).

### Fairness

`FairSpec` assumes weak fairness of the collector's own steps (a single thread
that the system schedules; the timeout of `subprocess.run` is a step of it, so
a rollout that never ends is killed) and of a task process that has begun its
save (straight-line code). Nothing is assumed of a rollout, of the operator,
of crashes or of deaths. `RunEnds` therefore holds because attempts are finite
and each is ended by its exit or by the timeout; without `Timeout` covering the
rollout it fails.

Deaths inside saves are bounded (`MaxSaveDeaths`), so in this run a save whose
process is killed each time still comes to an end: the attempts of a plan are
finite either way.

## 4. Findings

* **Resume** (`collector_resume`). `RANDOMIZED_PICK_PLACE_16D_KO.md:394` says to
  run the same command again after the process has ended. A crash between the
  save and the statistics makes every later start raise `resume state
  mismatch`. `RefusalHasACause` shows that without torn saves this is the only
  cause, and that exactly one whole episode is ahead.
* **Splits** (`collector_splits`). The atomic collector computes ranges from
  its schedule; after an exhausted plan is collected in a later run they are
  wrong. The randomized collector counts rows and raises.
* **Index** (`collector_index`). `episodes.jsonl` is rewritten in place, so the
  very loss that loading it is meant to prevent happens after a kill.
* **Marker** (`block_marker`). The marker precedes the save.
* **Undisturbed fruits** (`task_success`). The data set's document asks that no
  other fruit moves, enters or leaves the basket over the whole episode; they
  are judged before the arm returns. `SuccessWasWatched` bounds what a success
  may hide: what is shorter than the time between two looks (10 ms for contacts,
  a frame for fruits), a contact where nothing looks for it (the table before
  the approach and after the close, other fruits in the gripper outside the
  grasp and the carry), a fruit moved after the last frame before the judgement,
  and what happens to a fruit after it. In a lift the fruits are looked at only
  at the end.
* **Warning of the batch collector**, a disagreement that needs no run of its
  own. `collect_batch.py:153` warns that in a root that exists "new episodes
  will be appended-with-index-collision". `BatchKeepsFinished`, which
  `dataset_tools` checks over several runs on one root and `DatasetProofs`
  proves, says they do not collide: the writer loads the rows and counts on
  (`data/episode.py:133-138`), a fix the warning is older than. What can still
  collide is left to a death inside `finalize`, as in the finding above
  (`collector_index`).

## 5. Proofs

The theorems hold for every plan, prompt assignment, number of cameras,
attempts, starts and crashes, and in the other modules for every horizon,
condition, list of fruits and so on. What they assume of the constants is named
in the module that declares them (`WriterAssumption`, `CollectorAssumption`,
`LoopAssumption`, `ExperimentAssumption`, ...), and TLC evaluates it in the runs
of those modules. Three assumptions are not only about types and are written in
the theorems that need them. `MaxSaveDeaths = 0`, that no process dies inside a
save, and `MaxSaveDeaths <= 1`: where they stand, the property is false without
them and TLC shows it (`collector_index`, and the two deaths described in
section 3). And `Contiguous(Schedule)`, that the plans of a split lie together
in the order of `SPLITS`: `validate_schedule` refuses any other schedule
(`collect_randomized_pick_place_dataset.py:114-117`), and the literal
`SPLIT_RANGES` of the reindexer (line 16) are the ranges of such a one. So is the
plan of `dataset_tools`.

**Collectors.**

* `TypeCorrect` (`CollectorProofs`): `Spec => []TypeOK`. `TypeOK` alone is not
  inductive: the `task_index` that `WriteParquet` stores is a `CHOOSE` over the
  vocabulary, so `TypeInv` adds that the prompt of the episode is registered
  from `new_episode` to the Parquet file (`PromptKnown`).
* `StatsOnlyMoveForward` (`CollectorProofs`): `Spec => StatsMonotone`, with any
  number of deaths in saves. The file only ever becomes the memory, so the
  invariant `AheadInv` says that memory is ahead of the file and that the
  process being waited for works on the next attempt of an unfinished plan.
* `RecordedSuccessSafe` (`RecordedSuccessProofs`), if no process dies inside a
  save. `SaveInv` follows an episode through its save: the writer's index is
  the length of `episodes.jsonl` until the rewrite, so the files written before
  it belong to no row (`RowsProgress`, `DataProgress`); the vocabulary on disk
  is a prefix of the one in memory, so stored task indexes keep their meaning
  (`VocabularyProgress`); every row has its data, and its prompt except between
  the rewrites of `episodes.jsonl` and `tasks.jsonl` (`RowsHeld`); a record
  names a row of its attempt (`RecordsTrue`); and the plan being saved is not
  recorded, which closes that gap (`SaverUnrecorded`).
* `LossesAreCaused`, for any number of deaths: `SaveInv` survives a death
  everywhere but in the rewrite of `episodes.jsonl` (`LossInv`), and what one
  in `tasks.jsonl` takes is the prompts and nothing else.
* `LedgerProofs`, if no process dies inside a save: `NoPlanIsCollectedTwice`,
  `MetadataIsInStep`, `ManifestIsTrue`, `RefusalsAreExplained`,
  `RandomizedSplitsAreTrue`, and `CollectionImplementsLedger`, the refinement
  step by step. `BooksInv` is what they share. At most one row is missing in
  the records, the last, and only while its attempt is waited for or after a
  crash (`RowsAccounted`, `MayBeOpen`): that is what a start compares two counts
  for, so a plan is never spawned again while its row waits. Memory and file
  differ in one record, between `Reap` and `WriteStats` (`MemoryAhead`);
  metadata, `info.json`, schema and manifest lag by what the stage of the save
  says; what a finishing collector has found out stays true until it has
  written its ranges (`VerdictTrue`, `RangesFollow`), for which
  `RangesSeparate` proves that contiguous splits are determined by their ends.

**Datasets and tools** (`DatasetProofs`).

* `ValidatorsAreSound`, if at most one process dies inside a save. The idea is
  `OneDeathInv`: the dataset is either `Straight` (`SaveInv`, and every count in
  step with the rows) or `Skewed`, the number of rows and that of metadata rows
  apart, and no later step of any process closes that gap, because each episode
  adds one to both. A validator compares the two, so what it accepts is
  straight. `FinishInv` adds what a finishing collector knows, and `AllOnce`, a
  pigeonhole argument, that as many rows as plans with each plan among them are
  each plan once.
* `RepairedSplitsAreTrue`, under the same assumption: `RepairInv` says that the
  finalizer still holds the ranges of the rows it has read.
* `RebuiltDatasetsAreTrue` and `RebuildsAreComplete`, for a contiguous plan and
  at most one death inside a save, with any number of runs of the reindexer and
  any starts and crashes of the collector before, between and during them. The
  reindexer checks counts and a set of plans before its first copy and then
  reads a source that a collector may be started on. `Settled` says what it has
  found: the metadata rows and the dataset rows as many as the plans, each plan
  among them, and nothing under way. `SettledStays` proves that no later step of
  a collector changes a file it copies, because every plan is recorded and there
  is nothing left to spawn. Why the rows it found hold their own data is again
  `OneDeathInv`: equal counts rule out `Skewed`. `SourceInv` adds what only the
  reindexer needs, the schema (`SchemaFirst`) and the manifest (`LinesFollow`):
  each recorded plan has one line, and a line that is not recorded belongs to
  the attempt being recorded or was left by a crash between the two files, after
  which `info.json` and the statistics differ for good and no start gets past
  the comparison (`Stuck`). `LinesFollow` is claimed only of a `Straight`
  dataset, which is what lets a death and a crash in one collection pass. Then
  `BuildInv` says what lies in the directory at each step (`Partial` while it
  copies, `Rebuilt` from the meta files on, `InOrder` once the manifest is
  sorted), and `OutputHolds` that such a directory is what a validator accepts.
  `FreshInv`, the books of a collection without a death, is what makes a
  complete collection pass the checks of the first step.
* `BatchesKeepFinished`: for any number of runs. `BatchInv` says of the running
  process what `SaveInv` says of a task process, over all its seeds; the
  lemma `EarlierKept`, that a write at the index after the saved episodes
  touches none of them, is what loses a dead run only its own work.
* `TrainingsStartOnWhatPassed`: for any number of episodes, recorded with either
  kind of times, runs and deaths of the patch, and launch scripts beside it.
  `GateInv` says which copies an episode still has (`Backed`) and what each
  script has seen of the dataset by the step it is at (`GuardTrue`). What has
  passed stays nominal unless a patch opens it afterwards (`Passed`), which a
  single run during the launch does: it rewrites nominal files too, and one that
  dies there leaves the training a torn file. So the theorem does not say that
  the training gets a whole dataset; it says which files it may get torn, those
  in `train.opened`.
* `ScenesCanBeWorkedIn`: for any bounds on the draws and any number of samples,
  with the two layout files as they are. `SceneInv` has one part for each way a
  scene is drawn. On the jittered grid the fruits placed so far are `Clear`, and
  the lemma `OneMore` adds one; `LayoutPlaces` says that in each of the 16
  layouts the four slots are 75 mm apart and farther from the middle than a
  jitter reaches, `FirstOrder` and `OwnSlots` that no two fruits share one.
  In the transport layout nothing is checked and nothing needs to be:
  `QuartersApart` gives the 78 mm for every draw. For the preflight, the draws
  that are not in the report are those of samples that were given up, and one
  that passes gave up none.
* `SuitesAreBalanced`: for any records, any number of trials asked for and any
  draws. `SuiteInv` says that the episodes chosen so far are candidates, each
  once (`SuiteChoice`), which of the scenes drawn belongs to which trial
  (`SceneFits`), and how often each layout has been used: as often as every
  other that is left in the round, and once less than those that are not
  (`Rounds`). Three facts carry it. `BestEpisode`: equal scores are told apart by
  a number drawn for each episode, so of the candidates that remain exactly one
  is the best. `Ranks`: counting the trials that place a fruit numbers them
  without a gap, so no dealt side is used twice and none is left over.
  `SidesEven`: a shuffle of sides dealt in turn keeps them within one.
  `AllScenesHold` is this and the theorem before it, as the run checks them.

**Block collector** (`BlockProofs`): `SeedsAreNotReused` and `DriftIsCaused`, for
any number of deaths and crashes. The counters and the dataset are compared in
both directions, each with its own excuses (`CountedInv`, `KnownInv`), and
`SeedInv` says that the seeds in the dataset lie below the offset that the
memory of the collector has reached.

**Inference loop** (`InferenceLoopProofs`), for every horizon, number of steps
and hold limit: `BlockedIsNeverCommanded`, `RowsStayFresh`, `FeedbackIsComplete`
and `FixedHoldStands` share `LoopInv`. `ChunkInv` ties the chunk to the step it
was asked for and to the rows applied of it (`chunk.obs + cs = t`), which
`RowsAreFresh` needs and does not say; `VerdictInv` says that without the safety
server no chunk is ruled out; `RowInv` and `HoldInv` say where the last command
and the target of a hold came from, also after an obstacle stop; `LogInv` says
that the tally of a chunk has counted the steps applied so far and either
executed or held them, which is what makes the next feedback add up.
`ThePaceIsKept` needs only that the deadline is never behind the last step by
more than the loop believes (`ClockInv`). `TheSavedArraysFit` needs `ArraysInv`:
at each statement how many entries each buffer is ahead of the others, so that
an interrupt between two appends is the one way to leave them uneven.

**Experiments** (`ExperimentProofs`): all six properties from one invariant, of
the records on disk (`RecordsInv`: lines and attempts, one finished line per
trial not replaced on purpose, files, report) and of the command in progress
(`CommandInv`: the trial it is at, what it has read to skip, the buffers and
contacts of the loop, what it has saved so far). `TheReportAddsUp` needs two
more: that an interrupted line is the last of its command and that after a line
that was cut no command that resumes tries anything (`EndInv`, `StartInv`). It is
stated as the program counts, in lines: a trial that was interrupted and tried
again is in the denominator of the success rate once for every time.

**Scripted tasks** (`TaskProofs`): `SuccessesWereWatched`, `PackingUsesOneArm`,
`PackingSuccessIsWhole`, `TheBlockIsHandedOver`, and the two below. Each invariant says what a
program may rely on at a step of its script, which is more than it looks at
there: `ArmsInv` (only the arm at work is out), `JudgedInv` (the fruits behind
the current one are packed or were missed), `RouteInv` (which phases a program
has), `GripInv`, `TakenInv`, `MissInv` and `FallInv` (which gripper has the
block, missed it or lost it, and where it is then), `SeenInv` (what lasted until
the next look has been noticed, and a fruit that stays away is by the next
frame). For `SeenInv` the arithmetic of the looks is proved: among as many steps
in a row as a period has there is a look (`LooksRecur`, `LongIsNoticed`),
whatever the counters were when the motion began.

`SavedRolloutsValidate` and `EventsPointAtTheirFrames` are about a whole
recording at once, for every sampling rate, hold, pace and number of mishaps.
`FrameInv` says what it holds at each step of the script: the recording begins
with the frames of the initial hold (`HeadInv`), the events of the grasp bound
its close and its look (`GraspInv`), there are as many runs of closing frames
as attempts (`ClosesInv`), each later event bounds a run of frames of the phase it names
(`PlaceMarks`, `HoldMarks`), and the checks of a phase that is behind are there
(`PlaceChecks`, `LiftChecks`). Two facts about a motion carry the proof:
however it falls on the sampling grid it gives a frame to its phase
(`MotionFilms`), because no pace is quicker than the grid, and a hold of a
second gives a second of frames (`HoldsFillASecond`). The rest is about
sequences that only grow: what was `Between` two events stays so
(`BetweenStays`), and a close after another phase is one more run of closes
(`RunsCount`, `RunEndsExtended`).

Three definitions were changed because a proof could not be found for them:
`LiftCrate` and `InitialHold` were written with overlapping `CASE` guards, whose
value TLC takes from the first guard that holds and TLA+ leaves open. They are
now exact alternatives, which is what the `if`/`elif` of the code is. And the
manifest of the reindexer was sorted with a library operator that chooses some
sorted arrangement; `ByPlan` says which one a stable `sort` gives.

Only model-checked: `SchedulesHold`, which is about what folds over the real
schedules compute and about small plans under any shuffle, and the properties of
the runs that are violated. Liveness
under fairness (`RunEnds`, `BlockRunEnds`) and ENABLED are beyond the proof
system and stay with TLC.

## 6. What is left out

* `--save-failed` (no plan collector passes it), `--dry-run`, smoke schedules,
  the attempts log, and the comparison of the stored plan file.
* A `.jsonl` append cut in the middle: a killed process has handed its one
  buffered line to the system or not. Only a host failure could cut it.
* Power failure and write-back order of the file system.
* Two collectors at once, and a start while an orphan lives: section 7.2 of
  `RANDOMIZED_PICK_PLACE_16D_KO.md` asks the operator to look for a living
  process first, so `Start` requires that there is none.
* Contents of frames and videos, and everything physical: poses, inverse
  kinematics, trajectories, wheel speeds, grasp forces. A check of the physics
  has any outcome. The length of an episode is not modelled in the collectors,
  so a check of lengths tells no save from another there.
* Schedules: the reduced reference schedule (a mixed integer program solved by
  SciPy), a schedule built from a manifest, the smoke schedule, the kinds of a
  recovery, and the real atomic plan under its shuffle (its slots). Scenes: the basket clearance offset and the drift of settling.
* Inference: `--trajopt`, a SEAM policy inside the process, the AG3S recorder,
  the `legacy` gate, the rendering of observations. Experiments: a single
  rollout without a grid, and the arithmetic of the metrics.
* That an atomic experiment's directory does not record its condition is
  modelled (`Experiments.Counts`) without a property about it.
* Two collectors on one root, and a power failure in an append: see above; no
  property speaks of them.
* Viewers, camera previews, mesh generation and plots, which keep no state; and
  the vendored RealSense, ZED and robot description packages, which are not
  this program's logic.

## 7. Plan

1. Liveness of the inference loop under the fairness of its own steps (every
   rollout reaches `done` when answers or their timeouts come), and of a list
   of trials.
2. `--trajopt` and the session of a SEAM policy inside the process, as a
   second kind of chunk source of `InferenceLoop`.
3. A composition of `InferenceLoop` with `Experiments`, in which the loop of a
   trial is the detailed one, and a refinement of `Experiments` to an abstract
   list of trials that only grows.
