----------------------------- MODULE Experiments -----------------------------
(***************************************************************************)
(* The evaluation experiments of rby1_bringup/pi05_ex_infer.py: commands   *)
(* that run a list of trials and keep one line per trial in results.jsonl, *)
(* so that the same command, started again, goes on where it stopped.      *)
(*                                                                         *)
(* The variables are what a directory keeps from one command to the next   *)
(* (config, results, artifact), what the command in progress has in        *)
(* memory, and the list of all attempts ever made in the directory, which  *)
(* no code reads: an attempt is known by its position in it.               *)
(***************************************************************************)
EXTENDS Integers, Sequences

CONSTANTS
  NTrials,      \* trials of the list
  Lifts,        \* trials of an atomic experiment that lift the basket
  Revisions,    \* grid revisions, or sets of options of an atomic experiment
  Conditions,   \* [seam, obstacle]: guided chunks or the plain policy, obstacles or none
  Horizon,      \* OPEN_LOOP_HORIZON
  MaxSteps,     \* --trial-max-steps
  HoldSteps,    \* stable steps a success takes
  MaxStarts     \* bound on the commands of a behaviour

ASSUME ExperimentAssumption ==
  /\ NTrials \in Nat \ {0}
  /\ Lifts \subseteq 1 .. NTrials
  /\ Conditions \subseteq [seam : BOOLEAN, obstacle : BOOLEAN]
  /\ Horizon \in Nat \ {0}
  /\ MaxSteps \in Nat \ {0}
  /\ HoldSteps \in Nat \ {0}
  /\ MaxStarts \in Nat

VARIABLES
  kind,       \* "grid" or "atomic": what the directory is used for
  config,     \* experiment_config.json, or the grid_config file of each revision
  results,    \* results.jsonl
  artifact,   \* the attempt in each video, trajectory and input file
  attempts,   \* every attempt: its trial and the command that made it
  cmd,        \* the command: options, place in the list, trials to skip, viewer
  pc,
  report,     \* the lines counted by summary.json
  loop,       \* the variables of loop_body, its stop check and the buffers
  seam,       \* the attempt the SEAM server was last reset for, 0 for none
  starts

vars == <<kind, config, results, artifact, attempts, cmd, pc,
          report, loop, seam, starts>>

Trials == 1 .. NTrials
Commands == [rev : Revisions, cond : Conditions, resume : BOOLEAN, todo : {1},
             skip : {{}}, closed : {FALSE}]
AnyCondition == [any |-> TRUE]
Files == (Conditions \cup {AnyCondition}) \X Trials
NoFiles == [video |-> 0, trajectory |-> 0, inputs |-> 0]
NoCommand == [rev |-> "none", todo |-> 1, skip |-> {}, closed |-> FALSE]
NoLoop == [step |-> 0, chunk |-> 0, cs |-> 0, stable |-> 0, near |-> FALSE,
           late |-> FALSE, buffer |-> {}, status |-> "none"]

Init ==
  /\ kind \in {"grid", "atomic"}
  /\ config = [r \in Revisions |-> "absent"]
  /\ results = << >>
  /\ artifact = [f \in Files |-> NoFiles]
  /\ attempts = << >>
  /\ cmd = NoCommand
  /\ pc = "off"
  /\ report = {}
  /\ loop = NoLoop
  /\ seam = 0
  /\ starts = 0

Id == Len(attempts)
Lines == {results[i] : i \in DOMAIN results}

\* A line that was cut has no end: what follows joins it, and is lost with it.
TornLine == [id |-> Id, status |-> "torn", file |-> FALSE, metrics |-> {}]
Cut(r) == r.status \in {"torn", "spoilt"}
Legible == \A r \in Lines : ~ Cut(r)

\* A plausible bug: every file is named by its trial alone.
FileByTrial(a) == <<AnyCondition, a.trial>>

\* Trajectories of a grid are named by condition and trial, those of an atomic
\* experiment by the episode.
File(a) == <<IF kind = "grid" THEN a.cond ELSE AnyCondition, a.trial>>

\* A plausible bug: both kinds retry what could not be set up.
FinishedInBoth(r) == ~ Cut(r) /\ r.status \notin {"interrupted", "setup_error"}

\* What a resumed command does not try again.
Finished(r) ==
  /\ ~ Cut(r)
  /\ r.status # "interrupted"
  /\ kind = "grid" => r.status # "setup_error"

\* Results of another grid revision or condition do not count.
Counts(a) == kind = "grid" => a.rev = cmd.rev /\ a.cond = cmd.cond

FinishedTrials(lines) ==
  {attempts[r.id].trial : r \in {q \in lines : Finished(q) /\ Counts(attempts[q.id])}}

\* A plausible bug: only successes count as done.
CompletedSuccesses == FinishedTrials({r \in Lines : r.status = "success"})

Completed == FinishedTrials(Lines)

directory == <<kind, config, results, artifact, report>>

\* The process ends, and its memory with it.
Exit == pc' = "off" /\ cmd' = NoCommand /\ loop' = NoLoop

Launch ==
  /\ pc = "off"
  /\ starts < MaxStarts
  /\ cmd' \in Commands
  /\ starts' = starts + 1
  /\ pc' = "setup"
  /\ UNCHANGED <<directory, attempts, loop, seam>>

\* The scene, the obstacles, the policy and the empty buffers.  An obstacle that
\* is too close from the start ends the command.
SetUp ==
  /\ pc = "setup"
  /\ \/ pc' = "config" /\ UNCHANGED <<cmd, loop>>
     \/ /\ cmd.cond.obstacle
        /\ Exit
  /\ UNCHANGED <<directory, attempts, seam, starts>>

\* experiment_config.json is written once and compared by every later command.
\* It holds the trials and the scenes, not the condition.
GuardConfig ==
  /\ pc = "config"
  /\ kind = "atomic"
  /\ LET others == {r \in Revisions : config[r] # "absent"} \ {cmd.rev}
     IN  IF others = {} /\ config[cmd.rev] # "torn"
         THEN config' = [config EXCEPT ![cmd.rev] = "whole"] /\ pc' = "read" /\ UNCHANGED <<cmd, loop>>
         ELSE Exit /\ UNCHANGED config
  /\ UNCHANGED <<kind, results, artifact, report, attempts, seam, starts>>

\* The file of a grid is named by its contents, and never looked into.
SnapshotGrid ==
  /\ pc = "config"
  /\ kind = "grid"
  /\ config' = [config EXCEPT ![cmd.rev] = IF @ = "absent" THEN "whole" ELSE @]
  /\ pc' = "read"
  /\ UNCHANGED <<kind, results, artifact, report, attempts, cmd, loop, seam, starts>>

\* A plausible bug: a line that is not JSON is passed over.
PassesOver == FALSE

\* A line that is not JSON ends a command that resumes.
Refuses == cmd.resume /\ ~ Legible

ReadResults ==
  /\ pc = "read"
  /\ IF Refuses
     THEN Exit
     ELSE /\ pc' = "next"
          /\ cmd' = [cmd EXCEPT !.skip = IF cmd.resume THEN Completed ELSE {}]
          /\ UNCHANGED loop
  /\ UNCHANGED <<directory, attempts, seam, starts>>

Skip ==
  /\ pc = "next"
  /\ cmd.todo \in cmd.skip
  /\ cmd' = [cmd EXCEPT !.todo = @ + 1]
  /\ UNCHANGED <<directory, attempts, pc, loop, seam, starts>>

\* Only an atomic experiment writes a report.
Leave == IF kind = "atomic" THEN pc' = "report" /\ UNCHANGED <<cmd, loop>> ELSE Exit

EndOfList ==
  /\ pc = "next"
  /\ cmd.todo \notin cmd.skip
  /\ cmd.todo > NTrials \/ cmd.closed
  /\ Leave
  /\ UNCHANGED <<directory, attempts, seam, starts>>

\* clear_episode_buffers, obstacle_manager.activate and the locals of loop_body.
FreshLoop == NoLoop

Begin ==
  /\ pc = "next"
  /\ cmd.todo \in Trials \ cmd.skip
  /\ ~ cmd.closed
  /\ attempts' = Append(attempts, [trial |-> cmd.todo, rev |-> cmd.rev,
                                   cond |-> cmd.cond, resume |-> cmd.resume,
                                   start |-> starts])
  /\ pc' = (IF kind = "atomic" THEN "arrange" ELSE "place")
  /\ loop' = FreshLoop
  /\ UNCHANGED <<directory, cmd, seam, starts>>

\* A scene that is not as asked is recorded without being run.
SetupError == pc' = "append" /\ loop' = [loop EXCEPT !.status = "setup_error"]

\* validate_grid_setup: a block that slid, fell or touches another, or an
\* obstacle too close.  The scene is reset a second time before it is given up.
PlaceBlocks ==
  /\ pc \in {"place", "place_again"}
  /\ \/ pc' = "step" /\ UNCHANGED loop
     \/ pc = "place" /\ pc' = "place_again" /\ UNCHANGED loop
     \/ pc = "place_again" /\ SetupError
  /\ UNCHANGED <<directory, attempts, cmd, seam, starts>>

\* reset_atomic_scene: refused when other fruits than asked lie in the basket.
ArrangeFruits ==
  /\ pc = "arrange"
  /\ \/ pc' = "wait" /\ UNCHANGED loop
     \/ SetupError
  /\ UNCHANGED <<directory, attempts, cmd, seam, starts>>

Wait ==
  /\ pc = "wait"
  /\ IF cmd.closed
     THEN pc' = "append" /\ loop' = [loop EXCEPT !.status = "interrupted"]
     ELSE pc' = "step" /\ UNCHANGED loop
  /\ UNCHANGED <<directory, attempts, cmd, seam, starts>>

NeedsChunk == loop.chunk = 0 \/ loop.cs >= Horizon

\* A plausible bug: the server is told of the first trial only.
GuideUnreset == IF cmd.todo = 1 /\ loop.step = 0 THEN Id ELSE seam

\* The first request of a trial tells the server to start a fresh episode.
Guide == IF loop.step = 0 THEN Id ELSE seam

\* The images and joints of the scene as it is now: that of the last attempt.
Observation == Id

\* A chunk stands for the attempt it was computed for.
Infer ==
  /\ pc = "step"
  /\ NeedsChunk
  /\ loop' = [loop EXCEPT !.chunk = Observation, !.cs = 0]
  /\ seam' = IF cmd.cond.seam THEN Guide ELSE seam
  /\ UNCHANGED <<directory, attempts, cmd, pc, starts>>

\* An observation or a chunk of the wrong shape, or not finite, is an exception
\* that nobody catches: the trial leaves no record.
RefuseChunk ==
  /\ pc = "step"
  /\ NeedsChunk
  /\ Exit
  /\ seam' = IF cmd.cond.seam THEN Guide ELSE seam
  /\ UNCHANGED <<directory, attempts, starts>>

\* The row sent to the actuators, and kept as executed.
Row == loop.chunk

\* A plausible bug: a contact seen between two looks is forgotten.
SeenNow(x) == x = "seen"

\* Contact and clearance are looked at in every fifth physics step from the first;
\* a contact after the last look is still known at the first of the next action.
Seen(x) == x = "seen" \/ loop.near

Contacts == IF cmd.cond.obstacle THEN {"none", "seen", "late"} ELSE {"none"}

\* An obstacle stop is reported before the stop check is asked.
Act ==
  /\ pc = "step"
  /\ ~ NeedsChunk
  /\ \E x \in Contacts :
       /\ loop' = [loop EXCEPT !.step = @ + 1,
                               !.buffer = @ \cup {Row},
                               !.near = @ \/ x = "late",
                               !.late = x = "late",
                               !.status = IF Seen(x) THEN "obstacle_stop" ELSE @]
       /\ pc' = IF Seen(x) THEN "video" ELSE "check"
  /\ UNCHANGED <<directory, attempts, cmd, seam, starts>>

\* The block at rest in the container, or out of reach.
GridVerdict(stable, lost) ==
  IF stable >= HoldSteps THEN "success" ELSE IF lost THEN "failure" ELSE "none"

\* The fruit released, at rest and in the basket with the arm back and the others
\* untouched, or the basket held up and still; only a fruit can get out of reach.
AtomicVerdict(stable, lost) == GridVerdict(stable, lost /\ attempts[Id].trial \notin Lifts)

\* Nothing reads "failure" and "timeout" apart.
Verdict(stable, lost) ==
  LET asked == IF kind = "grid" THEN GridVerdict(stable, lost) ELSE AtomicVerdict(stable, lost)
  IN  IF cmd.closed THEN "interrupted"
      ELSE IF asked = "none" /\ loop.step = MaxSteps THEN "failure"
      ELSE asked

Check ==
  /\ pc = "check"
  /\ \E core, lost \in BOOLEAN :
       LET stable  == IF core THEN loop.stable + 1 ELSE 0
           verdict == Verdict(stable, lost)
       IN  /\ loop' = [loop EXCEPT !.cs = @ + 1, !.stable = stable, !.status = verdict]
           /\ pc' = IF verdict = "none" THEN "step" ELSE "video"
  /\ UNCHANGED <<directory, attempts, cmd, seam, starts>>

\* The files are saved one after the other, before the record that names them.
SaveFile(which, next) ==
  /\ pc = which
  /\ artifact' = [artifact EXCEPT ![File(attempts[Id])][which] = Id]
  /\ pc' = next
  /\ UNCHANGED <<kind, config, results, report, attempts, cmd, loop, seam, starts>>

SaveVideo == SaveFile("video", "trajectory")
SaveTrajectory == SaveFile("trajectory", IF kind = "grid" THEN "inputs" ELSE "append")
SaveInputs == SaveFile("inputs", "append")

AppendLine(line) ==
  LET last == results[Len(results)]
  IN  results' = IF results = << >> \/ last.status # "torn" THEN Append(results, line)
                 ELSE IF Cut(line) THEN results
                 ELSE [results EXCEPT ![Len(results)] = [last EXCEPT !.status = "spoilt"]]

\* Smoothness of the rows kept since the trial began: the attempts they are of.
Metrics == loop.buffer

Record == [id |-> Id, file |-> loop.step > 0, status |-> loop.status, metrics |-> Metrics]

AppendRecord ==
  /\ pc = "append"
  /\ AppendLine(Record)
  /\ IF loop.status = "interrupted"
     THEN Leave
     ELSE pc' = "next" /\ cmd' = [cmd EXCEPT !.todo = @ + 1] /\ UNCHANGED loop
  /\ UNCHANGED <<kind, config, artifact, report, attempts, seam, starts>>

\* The report counts every line, retried trials included; a line that is not JSON
\* leaves the last one in place.
WriteReport ==
  /\ pc = "report"
  /\ report' = IF Legible THEN Lines ELSE report
  /\ Exit
  /\ UNCHANGED <<kind, config, results, artifact, attempts, seam, starts>>

CloseViewer ==
  /\ pc # "off"
  /\ ~ cmd.closed
  /\ cmd' = [cmd EXCEPT !.closed = TRUE]
  /\ UNCHANGED <<directory, attempts, pc, loop, seam, starts>>

Saving == {"video", "trajectory", "inputs"}

\* Ctrl-C, an exception of the policy, a full disk or a death of
\* the host: no handler records the trial.  A file being written may be cut.
Stop ==
  /\ pc # "off"
  /\ Exit
  /\ \/ UNCHANGED <<config, results, artifact>>
     \/ /\ pc = "config" /\ config[cmd.rev] = "absent"
        /\ config' = [config EXCEPT ![cmd.rev] = "torn"]
        /\ UNCHANGED <<results, artifact>>
     \/ /\ pc \in Saving
        /\ artifact' = [artifact EXCEPT ![File(attempts[Id])][pc] = 0]
        /\ UNCHANGED <<config, results>>
     \/ /\ pc = "append"
        /\ AppendLine(TornLine)
        /\ UNCHANGED <<config, artifact>>
  /\ UNCHANGED <<kind, report, attempts, seam, starts>>

CommandStep ==
  \/ SetUp \/ GuardConfig \/ SnapshotGrid \/ ReadResults \/ Skip \/ EndOfList
  \/ Begin \/ PlaceBlocks \/ ArrangeFruits \/ Wait \/ Infer \/ RefuseChunk \/ Act \/ Check
  \/ SaveVideo \/ SaveTrajectory \/ SaveInputs \/ AppendRecord \/ WriteReport

Quiet == pc = "off" /\ starts = MaxStarts /\ UNCHANGED vars

Next == Launch \/ CommandStep \/ CloseViewer \/ Stop \/ Quiet

Spec == Init /\ [][Next]_vars

-----------------------------------------------------------------------------
\* What the scripts make of the results of a grid.  They refuse a line that is not
\* JSON, and look neither at the revision nor at the condition.
Readable == pc = "off" /\ kind = "grid" /\ Legible

FinishedOf(t) == {r \in Lines : Finished(r) /\ attempts[r.id].trial = t}

\* A plausible bug: the first line of a trial is kept.
LoadFirst(t) == {r \in FinishedOf(t) : \A q \in FinishedOf(t) : r.id <= q.id}

\* A later line of a trial takes the place of an earlier one.
LoadCondition(t) == {r \in FinishedOf(t) : \A q \in FinishedOf(t) : q.id <= r.id}

\* The attempt whose rows are measured again, 0 when the file cannot be read.
TrajectoryMetrics(r) == artifact[File(attempts[r.id])].trajectory

\* The replay takes the first line of the trial, finished or not.
FindRecord(t) ==
  {r \in Lines : /\ attempts[r.id].trial = t
                 /\ \A q \in Lines : attempts[q.id].trial = t => r.id <= q.id}

\* The recorded outcome, and the attempt whose rows are run again next to it.
Replays == {[record |-> r, rows |-> TrajectoryMetrics(r)] : r \in UNION {FindRecord(t) : t \in Trials}}

-----------------------------------------------------------------------------
Named == IF kind = "grid" THEN Saving ELSE Saving \ {"inputs"}
OwnFiles(r, names) == \A n \in names : artifact[File(attempts[r.id])][n] = r.id

SameTrial(a, b) ==
  a.trial = b.trial /\ (kind = "grid" => a.rev = b.rev /\ a.cond = b.cond)

(***************************************************************************)
(* However often the command is stopped and started, a trial that finished *)
(* gets a second finished record only from a command told not to resume.   *)
(* So does one whose record was lost with a line that was cut: from then   *)
(* on no command that resumes tries anything.                              *)
(***************************************************************************)
NoTrialTwice ==
  /\ \A r, q \in Lines :
       Finished(r) /\ Finished(q) /\ r.id < q.id /\ SameTrial(attempts[r.id], attempts[q.id])
         => ~ attempts[q.id].resume
  /\ \A r \in Lines : Cut(r) => \A i \in r.id + 1 .. Id : ~ attempts[i].resume

(***************************************************************************)
(* Nothing of one trial reaches another: the rows applied and the arrays   *)
(* its metrics are computed from are of its own attempt, and so is the     *)
(* past a SEAM session guides them by, on a server that outlives commands. *)
(***************************************************************************)
OwnTrialOnly ==
  /\ pc \in {"wait", "step", "check", "append"} \cup Saving => loop.buffer \subseteq {Id}
  /\ pc = "step" /\ ~ NeedsChunk => Row = Id /\ (cmd.cond.seam => seam = Id)
  /\ \A r \in Lines : r.metrics \subseteq {r.id}

(***************************************************************************)
(* The files a finished record names are those of its attempt, until       *)
(* a command told not to resume, or one on another grid revision under the *)
(* same condition, tries the trial again.                                  *)
(***************************************************************************)
FilesOfItsRecord ==
  \A r \in Lines :
    Finished(r) /\ r.file /\ ~ OwnFiles(r, Named) =>
      \E i \in r.id + 1 .. Id :
        /\ File(attempts[i]) = File(attempts[r.id])
        /\ \/ ~ attempts[i].resume
           \/ kind = "grid" /\ attempts[i].rev # attempts[r.id].rev

(***************************************************************************)
(* A contact with an obstacle ends the trial as an obstacle stop, with one *)
(* exception: it came after the last look of the trial's last action.      *)
(***************************************************************************)
ContactStops ==
  pc \in Saving \cup {"append"} /\ loop.near /\ loop.status # "obstacle_stop" => loop.late

(***************************************************************************)
(* The report counts lines and not trials, and divides by their number.    *)
(* As long as every command resumes it counts a finished trial in one      *)
(* line, and beside that at most one interrupted line for each command,    *)
(* the last it tried; an interrupted trial that is tried again counts      *)
(* once more each time.  It leaves out no trial that finished before the   *)
(* last it counts.                                                         *)
(***************************************************************************)
ReportCounts ==
  /\ \A r, q \in report :
       r.id < q.id /\ attempts[r.id].trial = attempts[q.id].trial =>
         r.status = "interrupted" \/ ~ attempts[q.id].resume
  /\ \A r \in report : r.status = "interrupted" =>
       \A i \in r.id + 1 .. Id : attempts[i].start # attempts[r.id].start
  /\ \A r \in Lines, q \in report : r.id < q.id => r \in report

(***************************************************************************)
(* The comparison of two conditions measures the rows of the attempt whose *)
(* outcome it counts, unless a later attempt wrote over them and never     *)
(* finished.  A replay runs the rows of the record it prints, unless the   *)
(* trial was tried again under the same condition.                         *)
(***************************************************************************)
ReadersReadTheirRecord ==
  LET Again(r) == {i \in r.id + 1 .. Id : File(attempts[i]) = File(attempts[r.id])}
      Over == {r.id : r \in {q \in Lines : Finished(q)}}
  IN  Readable =>
        /\ \A t \in Trials : \A r \in LoadCondition(t) :
             TrajectoryMetrics(r) # r.id => ~ Again(r) \subseteq Over
        /\ \A p \in Replays :
             p.record.file /\ p.rows # p.record.id => Again(p.record) # {}
=============================================================================
