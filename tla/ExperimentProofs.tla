--------------------------- MODULE ExperimentProofs ---------------------------
(***************************************************************************)
(* What an experiment directory says, for any list of trials, conditions   *)
(* and revisions and any number of commands, stopped at any point: what    *)
(* finished is tried again on purpose only, and every line has the rows,   *)
(* files and contacts of its own attempt.                                  *)
(* All properties of Experiments follow from one inductive invariant.      *)
(***************************************************************************)
EXTENDS Experiments, SequenceTheorems, TLAPS

Preparing == {"arrange", "place", "place_again", "wait"}
Trying == Preparing \cup {"step", "check", "append"} \cup Saving
\* The command has looked at the results, and knows what to skip.
Informed == Trying \cup {"next", "report"}

Status == {"none", "interrupted", "setup_error", "success", "failure", "obstacle_stop"}
Line == [id : Nat, status : Status \cup {"torn", "spoilt"}, file : BOOLEAN,
         metrics : SUBSET Nat]
Attempt == [trial : Trials, rev : Revisions, cond : Conditions, resume : BOOLEAN,
            start : Nat]
Command == [rev : Revisions, cond : Conditions, resume : BOOLEAN, todo : Nat,
            skip : SUBSET Trials, closed : BOOLEAN]

TypeInv ==
  /\ kind \in {"grid", "atomic"}
  /\ results \in Seq(Line)
  /\ artifact \in [Files -> [Saving -> Nat]]
  /\ attempts \in Seq(Attempt)
  /\ pc \in {"off", "setup", "config", "read"} \cup Informed
  /\ pc # "off" => cmd \in Command
  /\ loop \in [step : Nat, chunk : Nat, cs : Nat, stable : Nat, near : BOOLEAN,
               late : BOOLEAN, buffer : SUBSET Nat, status : Status]
  /\ starts \in Nat

\* Every line is of an attempt, with the rows of that attempt, and a trial that
\* was run to a verdict has its files; a line that was cut names none.
LineInv ==
  \A r \in Lines :
    /\ r.id \in 1 .. Id
    /\ r.metrics \subseteq {r.id}
    /\ Cut(r) => ~ r.file
    /\ Cut(r) \/ r.status \in {"interrupted", "setup_error"} \/ r.file

\* Nothing is tried after it has finished by a command that resumes.
OnceInv ==
  \A r, q \in Lines :
    Finished(r) /\ r.id < q.id /\ SameTrial(attempts[r.id], attempts[q.id])
      => ~ attempts[q.id].resume

\* Only a later attempt under the same name writes over the files of a line.
Replaced(r, i) ==
  /\ File(attempts[i]) = File(attempts[r.id])
  /\ Finished(r) => \/ ~ attempts[i].resume
                    \/ kind = "grid" /\ attempts[i].rev # attempts[r.id].rev

FilesInv ==
  \A r \in Lines :
    r.file => OwnFiles(r, Named) \/ \E i \in r.id + 1 .. Id : Replaced(r, i)

\* A line that was cut ends all resuming, and an interrupted one its command.
EndInv ==
  \A r \in Lines : \A i \in r.id + 1 .. Id :
    /\ Cut(r) => ~ attempts[i].resume
    /\ r.status = "interrupted" => attempts[i].start # attempts[r.id].start

\* A report holds the whole lines up to its last.
ReportInv ==
  /\ report # {} => kind = "atomic"
  /\ \A r \in report : r \in Lines /\ ~ Cut(r)
  /\ \A r \in Lines, q \in report : r.id < q.id => r \in report

\* What the directory holds.
RecordsInv == LineInv /\ OnceInv /\ FilesInv /\ EndInv /\ ReportInv

\* The command in progress is the last of all that made an attempt, and was not
\* interrupted yet.
StartInv ==
  /\ \A i \in 1 .. Id : attempts[i].start <= starts
  /\ pc \notin {"off", "report"} =>
       \A r \in Lines : r.status = "interrupted" => attempts[r.id].start # starts

\* The attempt in progress is the last one and has no line yet.
TrialInv ==
  pc \in Trying =>
    /\ Id # 0
    /\ attempts[Id].trial = cmd.todo /\ attempts[Id].rev = cmd.rev
    /\ attempts[Id].cond = cmd.cond /\ attempts[Id].resume = cmd.resume
    /\ \A r \in Lines : r.id < Id

\* A command that resumes could read every line, and is past what has finished, or
\* will skip it.
ResumeInv ==
  /\ pc \in Informed /\ cmd.resume => Legible
  /\ pc \in Informed /\ cmd.resume =>
       \A r \in Lines : Finished(r) /\ Counts(attempts[r.id]) =>
         attempts[r.id].trial \in cmd.skip \/ attempts[r.id].trial < cmd.todo
  /\ pc \in Trying => cmd.todo \notin cmd.skip
  /\ pc = "report" => kind = "atomic"

LoopInv ==
  /\ pc \in Preparing => loop = NoLoop
  /\ pc \in Trying => loop.buffer \subseteq {Id} /\ loop.chunk \in {0, Id}
  /\ pc \in {"step", "check"} =>
       /\ loop.step > 0 => loop.chunk = Id
       /\ loop.chunk = Id /\ cmd.cond.seam => seam = Id
  /\ pc = "check" => loop.step > 0 /\ (loop.near => loop.late)
  /\ pc \in Saving => loop.step > 0
  /\ pc \in Saving \cup {"append"} =>
       /\ loop.near /\ loop.status # "obstacle_stop" => loop.late
       /\ loop.step = 0 => loop.status \in {"interrupted", "setup_error"}

\* The files saved so far hold the attempt in progress.
Holds(which) == artifact[File(attempts[Id])][which] = Id

SavedInv ==
  loop.step > 0 =>
    /\ pc \in {"trajectory", "inputs", "append"} => Holds("video")
    /\ pc \in {"inputs", "append"} => Holds("trajectory")
    /\ pc = "append" /\ kind = "grid" => Holds("inputs")

\* What the command in progress knows.
CommandInv == TrialInv /\ ResumeInv /\ LoopInv /\ SavedInv

Inv == TypeInv /\ RecordsInv /\ StartInv /\ CommandInv

-----------------------------------------------------------------------------
(* Shapes. *)

\* The attempts and lines are what they are.
LEMMA Shapes ==
  ASSUME TypeInv
  PROVE  /\ Id \in Nat /\ DOMAIN attempts = 1 .. Id
         /\ \A i \in 1 .. Id : attempts[i] \in Attempt /\ File(attempts[i]) \in Files
         /\ \A r \in Lines : r \in Line
<1>1. /\ Id \in Nat /\ DOMAIN attempts = 1 .. Id
      /\ \A i \in 1 .. Id : attempts[i] \in Attempt
  BY LenProperties, ElementOfSeq DEF TypeInv, Id
<1>2. \A i \in 1 .. Id : File(attempts[i]) \in Files
  BY <1>1 DEF Attempt, File, Files
<1>3. \A r \in Lines : r \in Line
  <2>1. DOMAIN results = 1 .. Len(results)
    BY LenProperties DEF TypeInv
  <2> QED BY <2>1, ElementOfSeq DEF TypeInv, Lines
<1> QED BY <1>1, <1>2, <1>3

\* A step that leaves the directory and the attempts alone.
LEMMA SameRecords ==
  ASSUME RecordsInv, UNCHANGED <<kind, results, attempts, artifact, report>>
  PROVE  RecordsInv'
<1>1. Id' = Id /\ Lines' = Lines
  BY DEF Id, Lines
<1>2. LineInv'
  BY <1>1 DEF RecordsInv, LineInv
<1>3. OnceInv'
  BY <1>1 DEF RecordsInv, OnceInv, Finished, SameTrial
<1>4. FilesInv'
  BY <1>1 DEF RecordsInv, FilesInv, OwnFiles, Named, Replaced, File, Finished
<1>5. EndInv'
  BY <1>1 DEF RecordsInv, EndInv
<1>6. ReportInv'
  BY <1>1 DEF RecordsInv, ReportInv
<1> QED BY <1>2, <1>3, <1>4, <1>5, <1>6 DEF RecordsInv

\* No attempt and no line is new, and the command in progress is the same.
LEMMA SameStart ==
  ASSUME StartInv, UNCHANGED <<results, attempts, starts>>,
         pc' \in {"off", "report"} \/ pc \notin {"off", "report"}
  PROVE  StartInv'
<1>1. Id' = Id /\ Lines' = Lines
  BY DEF Id, Lines
<1> QED BY <1>1 DEF StartInv

\* A command that has not read the results, or has ended, knows nothing.
LEMMA Uninformed ==
  ASSUME pc' \notin Informed
  PROVE  CommandInv'
BY DEF CommandInv, TrialInv, ResumeInv, LoopInv, SavedInv, Informed, Trying, Preparing, Saving

\* An empty directory.
LEMMA InvInit == Init => Inv
<1> SUFFICES ASSUME Init PROVE Inv
  OBVIOUS
<1>1. TypeInv
  BY EmptySeq DEF Init, TypeInv, NoFiles, NoLoop, Saving, Status
<1>2. Lines = {}
  BY EmptySeq DEF Init, Lines
<1>3. RecordsInv
  BY <1>2 DEF Init, RecordsInv, LineInv, OnceInv, FilesInv, EndInv, ReportInv
<1>4. CommandInv
  BY DEF Init, CommandInv, TrialInv, ResumeInv, LoopInv, SavedInv, Informed, Trying,
         Preparing, Saving
<1>5. StartInv
  BY EmptySeq DEF Init, StartInv, Id
<1> QED BY <1>1, <1>3, <1>4, <1>5 DEF Inv

-----------------------------------------------------------------------------
(* Steps that leave the directory alone. *)

\* The directory, the list of attempts and the number of commands.
Kept == UNCHANGED <<kind, results, attempts, artifact, report, starts>>

\* Keeping them, the types are a matter of the command.
LEMMA KeptTypes ==
  ASSUME TypeInv, Kept,
         pc' \in {"off", "setup", "config", "read"} \cup Informed,
         pc' # "off" => cmd' \in Command,
         loop' \in [step : Nat, chunk : Nat, cs : Nat, stable : Nat, near : BOOLEAN,
                    late : BOOLEAN, buffer : SUBSET Nat, status : Status]
  PROVE  TypeInv'
BY DEF TypeInv, Kept

\* What is empty is of its type.
LEMMA EmptyLoop ==
  NoLoop \in [step : Nat, chunk : Nat, cs : Nat, stable : Nat, near : BOOLEAN,
              late : BOOLEAN, buffer : SUBSET Nat, status : Status]
BY DEF NoLoop, Status

\* Nor do the lines and the number of attempts change.
LEMMA KeptLines ==
  ASSUME Kept
  PROVE  /\ Lines' = Lines /\ Id' = Id
         /\ Legible' = Legible
         /\ \A r : Finished(r)' = Finished(r)
         /\ \A a : File(a)' = File(a)
BY DEF Kept, Lines, Id, Legible, Finished, File

\* A command that ends and leaves the directory alone.
LEMMA ExitStep ==
  ASSUME Inv, Kept, Exit
  PROVE  Inv'
<1>1. TypeInv'
  BY KeptTypes, EmptyLoop DEF Inv, Exit
<1>2. RecordsInv'
  BY SameRecords DEF Inv, Kept
<1>3. CommandInv'
  BY Uninformed DEF Exit, Informed, Trying, Preparing, Saving
<1>4. StartInv'
  BY SameStart DEF Inv, Kept, Exit
<1> QED BY <1>1, <1>2, <1>3, <1>4 DEF Inv

\* A step of the preparation.
LEMMA EarlyStep ==
  ASSUME Inv, Kept, pc \in {"setup", "config"}, pc' \in {"setup", "config", "read"},
         UNCHANGED loop, cmd' \in Command
  PROVE  Inv'
<1>1. TypeInv'
  BY KeptTypes DEF Inv, TypeInv
<1>2. RecordsInv'
  BY SameRecords DEF Inv, Kept
<1>3. CommandInv'
  BY Uninformed DEF Informed, Trying, Preparing, Saving
<1>4. StartInv'
  BY SameStart DEF Inv, Kept
<1> QED BY <1>1, <1>2, <1>3, <1>4 DEF Inv

\* A command starts, and prepares its scene and its policy.
LEMMA StartStep ==
  ASSUME ExperimentAssumption, Inv, Launch \/ SetUp \/ GuardConfig \/ SnapshotGrid
  PROVE  Inv'
<1>1. CASE Launch
  <2>1. cmd' \in Commands
    BY <1>1 DEF Launch
  <2>2. cmd' \in Command
    <3> SUFFICES ASSUME NEW c \in Commands PROVE c \in Command
      BY <2>1
    <3>1. c = [rev |-> c.rev, cond |-> c.cond, resume |-> c.resume, todo |-> c.todo,
               skip |-> c.skip, closed |-> c.closed]
      BY DEF Commands
    <3>2. /\ c.rev \in Revisions /\ c.cond \in Conditions /\ c.resume \in BOOLEAN
          /\ c.todo = 1 /\ c.skip = {} /\ c.closed = FALSE
      BY DEF Commands
    <3>3. c.todo \in Nat
      BY <3>2
    <3>4. c.closed \in BOOLEAN
      <4>1. c.closed \in {FALSE}
        BY DEF Commands
      <4>2. {FALSE} \subseteq BOOLEAN
        BY Zenon
      <4> QED BY <4>1, <4>2, Zenon
    <3>5. c.skip \subseteq Trials
      BY <3>2
    <3> QED BY <3>1, <3>2, <3>3, <3>4, <3>5 DEF Command
  <2>3. /\ UNCHANGED <<kind, results, artifact, report, attempts, loop>>
        /\ pc' = "setup" /\ starts' = starts + 1 /\ starts \in Nat
    BY <1>1 DEF Launch, directory, Inv, TypeInv
  <2>4. TypeInv'
    BY <2>2, <2>3 DEF Inv, TypeInv
  <2>5. RecordsInv'
    BY <2>3, SameRecords DEF Inv
  <2>6. CommandInv'
    BY <2>3, Uninformed DEF Informed, Trying, Preparing, Saving
  <2>7. StartInv'
    <3>1. Id' = Id /\ Lines' = Lines
      BY <2>3 DEF Id, Lines
    <3>2. ASSUME NEW i \in 1 .. Id PROVE attempts[i].start <= starts' /\ attempts[i].start # starts'
      BY <2>3, Shapes DEF Inv, StartInv, Attempt
    <3> QED BY <2>3, <3>1, <3>2 DEF StartInv, Inv, RecordsInv, LineInv
  <2> QED BY <2>4, <2>5, <2>6, <2>7 DEF Inv
<1>2. CASE SetUp
  <2>1. cmd \in Command
    BY <1>2 DEF SetUp, Inv, TypeInv
  <2> QED BY <1>2, <2>1, EarlyStep, ExitStep DEF SetUp, Kept, directory
<1>3. CASE GuardConfig
  <2>1. cmd \in Command
    BY <1>3 DEF GuardConfig, Inv, TypeInv
  <2> QED BY <1>3, <2>1, EarlyStep, ExitStep DEF GuardConfig, Kept
<1>4. CASE SnapshotGrid
  <2>1. cmd \in Command
    BY <1>4 DEF SnapshotGrid, Inv, TypeInv
  <2> QED BY <1>4, <2>1, EarlyStep DEF SnapshotGrid, Kept
<1> QED BY <1>1, <1>2, <1>3, <1>4

\* The command reads the results: what it will not try again is what counts as
\* finished.
LEMMA ReadStep ==
  ASSUME Inv, ReadResults
  PROVE  Inv'
<1>1. Kept
  BY DEF ReadResults, directory, Kept
<1>2. CASE Exit
  BY <1>1, <1>2, ExitStep
<1>3. CASE ~ Exit
  <2>1. /\ pc' = "next" /\ UNCHANGED loop
        /\ cmd' = [cmd EXCEPT !.skip = IF cmd.resume THEN Completed ELSE {}]
    BY <1>3 DEF ReadResults
  <2>2. pc = "read" /\ cmd \in Command
    BY DEF ReadResults, Inv, TypeInv
  <2>3. Completed \subseteq Trials
    <3> SUFFICES ASSUME NEW r \in Lines, Finished(r)
                 PROVE  attempts[r.id].trial \in Trials
      BY DEF Completed, FinishedTrials
    <3>1. r.id \in 1 .. Id
      BY DEF Inv, RecordsInv, LineInv, Finished
    <3> QED BY <3>1, Shapes DEF Inv, Attempt
  <2>4. cmd' \in Command
    BY <2>1, <2>2, <2>3 DEF Command
  <2>5. TypeInv'
    BY <1>1, <2>1, <2>4, KeptTypes DEF Inv, TypeInv, Informed
  <2>6. RecordsInv'
    BY <1>1, SameRecords DEF Inv, Kept
  <2>7. ResumeInv'
    <3> SUFFICES ASSUME cmd'.resume
                 PROVE  /\ Legible'
                        /\ \A r \in Lines' : Finished(r)' /\ Counts(attempts[r.id])' =>
                             attempts'[r.id].trial \in cmd'.skip
      BY <2>1 DEF ResumeInv, Trying, Preparing, Saving
    <3>0. Legible'
      BY <1>1, <1>3, <2>1, <2>2, KeptLines DEF ReadResults, Refuses, Command
    <3> SUFFICES ASSUME NEW r \in Lines', Finished(r)', Counts(attempts[r.id])'
                 PROVE  attempts'[r.id].trial \in cmd'.skip
      BY <3>0
    <3>1. /\ cmd.resume /\ cmd'.skip = Completed
          /\ cmd'.rev = cmd.rev /\ cmd'.cond = cmd.cond
      BY <2>1, <2>2 DEF Command
    <3>2. r \in Lines /\ Finished(r) /\ Counts(attempts[r.id])
      BY <1>1, <3>1 DEF Kept, Lines, Finished, Counts
    <3> QED BY <1>1, <3>1, <3>2 DEF Completed, FinishedTrials, Kept
  <2>8. TrialInv' /\ LoopInv' /\ SavedInv'
    BY <2>1 DEF TrialInv, LoopInv, SavedInv, Trying, Preparing, Saving
  <2>9. StartInv'
    BY <1>1, <2>2, SameStart DEF Inv, Kept
  <2> QED BY <2>5, <2>6, <2>7, <2>8, <2>9 DEF Inv, CommandInv
<1> QED BY <1>2, <1>3

\* What the command asks for, its place in the list and what it skips.
SameCommand ==
  /\ cmd'.rev = cmd.rev /\ cmd'.cond = cmd.cond /\ cmd'.resume = cmd.resume
  /\ cmd'.todo = cmd.todo /\ cmd'.skip = cmd.skip

\* Within a trial, the command and the directory stay what they are.
LEMMA SameTrialStep ==
  ASSUME Inv, Kept, SameCommand, pc' \in Trying => pc \in Trying,
         pc' \in Informed => pc \in Informed, pc' = "report" => kind = "atomic",
         pc' \in {"off", "report"} \/ pc \notin {"off", "report"}
  PROVE  RecordsInv' /\ StartInv' /\ TrialInv' /\ ResumeInv'
<1>1. RecordsInv'
  BY SameRecords DEF Inv, Kept
<1>2. /\ Lines' = Lines /\ Id' = Id /\ attempts' = attempts /\ kind' = kind
      /\ Legible' = Legible
      /\ \A r : Finished(r)' = Finished(r)
  BY KeptLines DEF Kept
<1>3. TrialInv'
  BY <1>2 DEF Inv, CommandInv, TrialInv, SameCommand
<1>4. ResumeInv'
  BY <1>2 DEF Inv, CommandInv, ResumeInv, SameCommand, Counts
<1>5. StartInv'
  BY SameStart DEF Inv, Kept
<1> QED BY <1>1, <1>3, <1>4, <1>5

\* The list goes on past a trial that is done.
LEMMA SkipStep ==
  ASSUME Inv, Skip
  PROVE  Inv'
<1>1. Kept /\ pc = "next" /\ pc' = "next" /\ UNCHANGED loop /\ cmd \in Command
  BY DEF Skip, directory, Kept, Inv, TypeInv
<1>2. cmd' = [cmd EXCEPT !.todo = @ + 1] /\ cmd.todo \in cmd.skip
  BY DEF Skip
<1>3. cmd' \in Command
  BY <1>1, <1>2 DEF Command
<1>4. TypeInv'
  BY <1>1, <1>3, KeptTypes DEF Inv, TypeInv, Informed
<1>5. RecordsInv'
  BY <1>1, SameRecords DEF Inv, Kept
<1>6. ResumeInv'
  <2>0. cmd'.resume => Legible'
    BY <1>1, <1>2, KeptLines DEF Inv, CommandInv, ResumeInv, Informed, Command
  <2> SUFFICES ASSUME cmd'.resume, NEW r \in Lines', Finished(r)', Counts(attempts[r.id])'
               PROVE  \/ attempts'[r.id].trial \in cmd'.skip
                      \/ attempts'[r.id].trial < cmd'.todo
    BY <1>1, <2>0 DEF ResumeInv, Trying, Preparing, Saving
  <2>1. /\ cmd.resume /\ cmd'.skip = cmd.skip /\ cmd'.todo = cmd.todo + 1
        /\ cmd'.rev = cmd.rev /\ cmd'.cond = cmd.cond /\ cmd.todo \in Nat
    BY <1>1, <1>2 DEF Command
  <2>2. r \in Lines /\ Finished(r) /\ Counts(attempts[r.id])
    BY <1>1, <2>1 DEF Kept, Lines, Finished, Counts
  <2>3. attempts[r.id].trial \in cmd.skip \/ attempts[r.id].trial < cmd.todo
    BY <1>1, <2>1, <2>2 DEF Inv, CommandInv, ResumeInv, Informed
  <2>4. attempts[r.id].trial \in Nat
    <3>1. r.id \in 1 .. Id
      BY <2>2 DEF Inv, RecordsInv, LineInv, Finished
    <3> QED BY <3>1, Shapes DEF Inv, Attempt, Trials
  <2> QED BY <1>1, <2>1, <2>3, <2>4 DEF Kept
<1>7. TrialInv' /\ LoopInv' /\ SavedInv'
  BY <1>1 DEF TrialInv, LoopInv, SavedInv, Trying, Preparing, Saving
<1>8. StartInv'
  BY <1>1, SameStart DEF Inv, Kept
<1> QED BY <1>4, <1>5, <1>6, <1>7, <1>8 DEF Inv, CommandInv

\* The list ends, or the viewer was closed between two trials.
LEMMA EndStep ==
  ASSUME Inv, EndOfList
  PROVE  Inv'
<1>1. Kept /\ pc = "next"
  BY DEF EndOfList, directory, Kept
<1>2. CASE Exit
  BY <1>1, <1>2, ExitStep
<1>3. CASE ~ Exit
  <2>1. kind = "atomic" /\ pc' = "report" /\ UNCHANGED <<cmd, loop>>
    BY <1>3 DEF EndOfList, Leave
  <2>2. TypeInv'
    BY <1>1, <2>1, KeptTypes DEF Inv, TypeInv, Informed
  <2>3. RecordsInv' /\ StartInv' /\ TrialInv' /\ ResumeInv'
    BY <1>1, <2>1, SameTrialStep
       DEF SameCommand, Informed, Trying, Preparing, Saving
  <2>4. LoopInv' /\ SavedInv'
    BY <2>1 DEF LoopInv, SavedInv, Trying, Preparing, Saving
  <2> QED BY <2>2, <2>3, <2>4 DEF Inv, CommandInv
<1> QED BY <1>2, <1>3

\* The scene is arranged, or refused.
LEMMA PrepareStep ==
  ASSUME Inv, PlaceBlocks \/ ArrangeFruits \/ Wait
  PROVE  Inv'
<1>1. /\ Kept /\ UNCHANGED <<cmd, seam>>
      /\ pc \in Preparing /\ pc' \in Preparing \cup {"step", "append"}
  BY DEF PlaceBlocks, ArrangeFruits, Wait, SetupError, directory, Kept, Preparing
<1>2. loop = NoLoop /\ cmd \in Command
  BY <1>1 DEF Inv, TypeInv, CommandInv, LoopInv, Preparing
<1>3. \/ loop' = loop /\ pc' # "append"
      \/ /\ pc' = "append"
         /\ \E s \in {"setup_error", "interrupted"} : loop' = [loop EXCEPT !.status = s]
  BY DEF PlaceBlocks, ArrangeFruits, Wait, SetupError
<1>4. /\ loop'.step = 0 /\ loop'.chunk = 0 /\ loop'.buffer = {} /\ loop'.near = FALSE
      /\ pc' = "append" => loop'.status \in {"setup_error", "interrupted"}
      /\ pc' # "append" => loop' = NoLoop
  BY <1>2, <1>3 DEF NoLoop
<1>5. loop' \in [step : Nat, chunk : Nat, cs : Nat, stable : Nat, near : BOOLEAN,
                 late : BOOLEAN, buffer : SUBSET Nat, status : Status]
  BY <1>2, <1>3, EmptyLoop DEF Status
<1>6. TypeInv'
  BY <1>1, <1>2, <1>5, KeptTypes DEF Inv, Informed, Trying, Preparing
<1>7. RecordsInv' /\ StartInv' /\ TrialInv' /\ ResumeInv'
  BY <1>1, SameTrialStep
     DEF SameCommand, Informed, Trying, Preparing, Saving
<1>8. LoopInv'
  <2>1. Id' # 0
    BY <1>1, KeptLines DEF Inv, CommandInv, TrialInv, Trying
  <2> QED BY <1>1, <1>4, <2>1 DEF LoopInv, Preparing, Saving
<1>9. SavedInv'
  BY <1>4 DEF SavedInv
<1> QED BY <1>6, <1>7, <1>8, <1>9 DEF Inv, CommandInv

-----------------------------------------------------------------------------
(* A trial, from its first step to its verdict. *)

\* What is known of the lines outlives a new attempt.
LEMMA MoreAttempts ==
  ASSUME TypeInv, RecordsInv, NEW a \in Attempt, attempts' = Append(attempts, a),
         UNCHANGED <<kind, results, artifact, report>>,
         a.resume => Legible,
         \A r \in Lines : r.status = "interrupted" => attempts[r.id].start # a.start
  PROVE  /\ RecordsInv'
         /\ attempts' \in Seq(Attempt)
         /\ Id' = Id + 1 /\ attempts'[Id'] = a
         /\ \A i \in 1 .. Id : attempts'[i] = attempts[i]
<1>1. /\ attempts' \in Seq(Attempt)
      /\ Id' = Id + 1 /\ attempts'[Id'] = a
      /\ \A i \in 1 .. Id : attempts'[i] = attempts[i]
  BY AppendProperties DEF TypeInv, Id
<1>2. Lines' = Lines /\ Id \in Nat
  BY Shapes DEF Lines
<1>3. \A i \in 1 .. Id : i \in 1 .. Id'
  BY <1>1, <1>2
<1>4. LineInv'
  BY <1>2, <1>3 DEF RecordsInv, LineInv
<1>5. OnceInv'
  <2> SUFFICES ASSUME NEW r \in Lines, NEW q \in Lines, Finished(r),
                      r.id < q.id, SameTrial(attempts[r.id], attempts[q.id])'
               PROVE  ~ attempts'[q.id].resume
    BY <1>2 DEF OnceInv, Finished
  <2>1. attempts'[r.id] = attempts[r.id] /\ attempts'[q.id] = attempts[q.id]
    BY <1>1 DEF RecordsInv, LineInv
  <2> QED BY <2>1 DEF RecordsInv, OnceInv, SameTrial
<1>6. FilesInv'
  <2> SUFFICES ASSUME NEW r \in Lines, r.file
               PROVE  (OwnFiles(r, Named) \/ \E i \in r.id + 1 .. Id : Replaced(r, i))'
    BY <1>2 DEF FilesInv
  <2>1. attempts'[r.id] = attempts[r.id] /\ r.id \in 1 .. Id
    BY <1>1 DEF RecordsInv, LineInv
  <2>2. CASE OwnFiles(r, Named)
    BY <2>1, <2>2 DEF OwnFiles, Named, File
  <2>3. CASE \E i \in r.id + 1 .. Id : Replaced(r, i)
    <3>1. PICK i \in r.id + 1 .. Id : Replaced(r, i)
      BY <2>3
    <3>2. i \in 1 .. Id /\ i \in r.id + 1 .. Id'
      BY <1>1, <1>2, <2>1
    <3>3. attempts'[i] = attempts[i]
      BY <1>1, <3>2
    <3>4. Replaced(r, i)'
      BY <2>1, <3>1, <3>3 DEF Replaced, File, Finished
    <3> QED BY <3>2, <3>4
  <2> QED BY <2>2, <2>3 DEF RecordsInv, FilesInv
<1>7. EndInv'
  <2> SUFFICES ASSUME NEW r \in Lines, NEW i \in r.id + 1 .. Id + 1
               PROVE  /\ Cut(r) => ~ attempts'[i].resume
                      /\ r.status = "interrupted" => attempts'[i].start # attempts'[r.id].start
    BY <1>1, <1>2 DEF EndInv
  <2>1. r.id \in 1 .. Id /\ attempts'[r.id] = attempts[r.id]
    BY <1>1 DEF RecordsInv, LineInv
  <2>2. CASE i = Id + 1
    BY <1>1, <2>1, <2>2 DEF Legible
  <2>3. CASE i # Id + 1
    <3>1. i \in r.id + 1 .. Id /\ i \in 1 .. Id
      BY <1>2, <2>1, <2>3
    <3>2. attempts'[i] = attempts[i]
      BY <1>1, <3>1
    <3> QED BY <2>1, <3>1, <3>2 DEF RecordsInv, EndInv
  <2> QED BY <2>2, <2>3
<1>8. ReportInv'
  BY <1>2 DEF RecordsInv, ReportInv
<1> QED BY <1>1, <1>4, <1>5, <1>6, <1>7, <1>8 DEF RecordsInv

\* A trial begins.
LEMMA BeginStep ==
  ASSUME Inv, Begin
  PROVE  Inv'
<1> DEFINE a == [trial |-> cmd.todo, rev |-> cmd.rev, cond |-> cmd.cond, resume |-> cmd.resume,
                 start |-> starts]
<1>1. /\ pc = "next" /\ pc' \in {"arrange", "place"} /\ loop' = NoLoop
      /\ UNCHANGED <<kind, config, results, artifact, report, cmd, starts>>
      /\ attempts' = Append(attempts, a)
      /\ cmd.todo \in Trials \ cmd.skip
  BY DEF Begin, directory, FreshLoop
<1>2. cmd \in Command /\ starts \in Nat
  BY <1>1 DEF Inv, TypeInv
<1>3. a \in Attempt
  BY <1>1, <1>2 DEF Attempt, Command
<1>4. /\ a.trial = cmd.todo /\ a.rev = cmd.rev /\ a.cond = cmd.cond /\ a.resume = cmd.resume
      /\ a.start = starts
  OBVIOUS
<1> HIDE DEF a
<1>5. /\ RecordsInv' /\ attempts' \in Seq(Attempt)
      /\ Id' = Id + 1 /\ attempts'[Id'] = a
      /\ \A i \in 1 .. Id : attempts'[i] = attempts[i]
  <2>1. a.resume => Legible
    BY <1>1, <1>4 DEF Inv, CommandInv, ResumeInv, Informed
  <2>2. \A r \in Lines : r.status = "interrupted" => attempts[r.id].start # a.start
    BY <1>1, <1>4 DEF Inv, StartInv
  <2> QED BY <1>1, <1>3, <2>1, <2>2, MoreAttempts DEF Inv
<1>6. Lines' = Lines /\ Id \in Nat
  BY <1>1, Shapes DEF Lines, Inv
<1>7. TypeInv'
  BY <1>1, <1>2, <1>5, EmptyLoop DEF Inv, TypeInv, Informed, Trying, Preparing
<1>8. TrialInv'
  <2>1. \A r \in Lines : r.id < Id'
    BY <1>5, <1>6 DEF Inv, RecordsInv, LineInv
  <2> QED BY <1>1, <1>4, <1>5, <1>6, <2>1 DEF TrialInv
<1>9. ResumeInv'
  <2>1. ASSUME cmd'.resume, NEW r \in Lines', Finished(r)', Counts(attempts[r.id])'
        PROVE  \/ attempts'[r.id].trial \in cmd'.skip
               \/ attempts'[r.id].trial < cmd'.todo
    <3>1. r \in Lines /\ Finished(r)
      BY <1>1, <1>6, <2>1 DEF Finished
    <3>2. r.id \in 1 .. Id
      BY <3>1 DEF Inv, RecordsInv, LineInv, Finished
    <3>3. Counts(attempts[r.id])
      BY <1>1, <1>5, <2>1, <3>2 DEF Counts
    <3> QED BY <1>1, <1>5, <2>1, <3>1, <3>2, <3>3 DEF Inv, CommandInv, ResumeInv, Informed
  <2>2. cmd'.resume => Legible'
    BY <1>1, <1>6 DEF Inv, CommandInv, ResumeInv, Informed, Legible, Cut
  <2> QED BY <1>1, <2>1, <2>2 DEF ResumeInv
<1>10. LoopInv' /\ SavedInv'
  BY <1>1 DEF LoopInv, SavedInv, Preparing, Saving, NoLoop
<1>11. StartInv'
  <2>1. \A i \in 1 .. Id' : attempts'[i].start <= starts
    BY <1>2, <1>4, <1>5, <1>6 DEF Inv, StartInv
  <2>2. \A r \in Lines : r.status = "interrupted" => attempts'[r.id].start # starts
    BY <1>1, <1>5 DEF Inv, StartInv, RecordsInv, LineInv
  <2> QED BY <1>1, <1>6, <2>1, <2>2 DEF StartInv
<1> QED BY <1>5, <1>7, <1>8, <1>9, <1>10, <1>11 DEF Inv, CommandInv

\* The policy is asked, and the server told when the trial is new.
LEMMA InferStep ==
  ASSUME Inv, Infer \/ RefuseChunk
  PROVE  Inv'
<1>1. CASE RefuseChunk
  BY <1>1, ExitStep DEF RefuseChunk, directory, Kept
<1>2. CASE Infer
  <2>1. /\ Kept /\ UNCHANGED cmd /\ pc = "step" /\ pc' = "step"
        /\ loop' = [loop EXCEPT !.chunk = Id, !.cs = 0]
        /\ seam' = IF cmd.cond.seam THEN (IF loop.step = 0 THEN Id ELSE seam) ELSE seam
    BY <1>2 DEF Infer, directory, Kept, Observation, Guide
  <2>2. /\ loop \in [step : Nat, chunk : Nat, cs : Nat, stable : Nat, near : BOOLEAN,
                     late : BOOLEAN, buffer : SUBSET Nat, status : Status]
        /\ cmd \in Command /\ Id \in Nat
    BY <2>1, Shapes DEF Inv, TypeInv
  <2>3. loop' \in [step : Nat, chunk : Nat, cs : Nat, stable : Nat, near : BOOLEAN,
                   late : BOOLEAN, buffer : SUBSET Nat, status : Status]
    BY <2>1, <2>2
  <2>4. TypeInv'
    BY <2>1, <2>2, <2>3, KeptTypes DEF Inv, Informed, Trying
  <2>5. RecordsInv' /\ StartInv' /\ TrialInv' /\ ResumeInv'
    BY <2>1, SameTrialStep DEF SameCommand
  <2>6. LoopInv'
    <3>1. Id' = Id /\ Id # 0
      BY <2>1, KeptLines DEF Inv, CommandInv, TrialInv, Trying
    <3>2. loop'.chunk = Id /\ loop'.buffer = loop.buffer /\ loop'.step = loop.step
      BY <2>1, <2>2
    <3>3. /\ loop.buffer \subseteq {Id}
          /\ loop.step > 0 => loop.chunk = Id
          /\ loop.chunk = Id /\ cmd.cond.seam => seam = Id
      BY <2>1 DEF Inv, CommandInv, LoopInv, Trying
    <3>4. loop.step \in Nat
      BY <2>2
    <3> QED BY <2>1, <3>1, <3>2, <3>3, <3>4 DEF LoopInv, Preparing, Saving
  <2>7. SavedInv'
    BY <2>1 DEF SavedInv
  <2> QED BY <2>4, <2>5, <2>6, <2>7 DEF Inv, CommandInv
<1> QED BY <1>1, <1>2

\* An action is applied: a contact that is seen ends the trial at once.
LEMMA ActStep ==
  ASSUME Inv, Act
  PROVE  Inv'
<1>1. Kept /\ UNCHANGED <<cmd, seam>> /\ pc = "step" /\ pc' \in {"video", "check"}
  BY DEF Act, directory, Kept
<1>2. PICK x \in Contacts :
        /\ loop' = [loop EXCEPT !.step = @ + 1, !.buffer = @ \cup {loop.chunk},
                                !.near = @ \/ x = "late", !.late = x = "late",
                                !.status = IF x = "seen" \/ loop.near THEN "obstacle_stop" ELSE @]
        /\ pc' = IF x = "seen" \/ loop.near THEN "video" ELSE "check"
  BY DEF Act, Row, Seen
<1>3. /\ loop \in [step : Nat, chunk : Nat, cs : Nat, stable : Nat, near : BOOLEAN,
                   late : BOOLEAN, buffer : SUBSET Nat, status : Status]
      /\ cmd \in Command /\ Id \in Nat
  BY <1>1, Shapes DEF Inv, TypeInv
<1>4. loop.chunk = Id /\ Id # 0
  <2>1. loop.chunk # 0
    BY DEF Act, NeedsChunk
  <2> QED BY <1>1, <2>1 DEF Inv, CommandInv, LoopInv, TrialInv, Trying
<1>5. /\ loop'.step = loop.step + 1 /\ loop'.buffer = loop.buffer \cup {Id}
      /\ loop'.chunk = Id /\ loop'.near = (loop.near \/ x = "late") /\ loop'.late = (x = "late")
      /\ loop'.status = IF x = "seen" \/ loop.near THEN "obstacle_stop" ELSE loop.status
  BY <1>2, <1>3, <1>4
<1>6. loop' \in [step : Nat, chunk : Nat, cs : Nat, stable : Nat, near : BOOLEAN,
                 late : BOOLEAN, buffer : SUBSET Nat, status : Status]
  <2>1. "obstacle_stop" \in Status
    BY DEF Status
  <2>2. PICK seen \in Status, near \in BOOLEAN, late \in BOOLEAN, rows \in SUBSET Nat :
          loop' = [loop EXCEPT !.step = @ + 1, !.buffer = rows, !.near = near, !.late = late,
                               !.status = seen]
    BY <1>2, <1>3, <1>4, <2>1
  <2>3. loop.step + 1 \in Nat
    BY <1>3
  <2> QED BY <1>3, <2>2, <2>3
<1>7. TypeInv'
  BY <1>1, <1>3, <1>6, KeptTypes DEF Inv, Informed, Trying, Saving
<1>8. RecordsInv' /\ StartInv' /\ TrialInv' /\ ResumeInv'
  BY <1>1, SameTrialStep DEF SameCommand, Informed, Trying, Saving
<1>9. LoopInv'
  <2>1. Id' = Id
    BY <1>1, KeptLines
  <2>2. loop'.step > 0
    BY <1>3, <1>5
  <2>3. loop'.buffer \subseteq {Id}
    BY <1>1, <1>5 DEF Inv, CommandInv, LoopInv, Trying
  <2>4. cmd.cond.seam => seam = Id
    BY <1>1, <1>4 DEF Inv, CommandInv, LoopInv
  <2>5. pc' = "check" => (loop'.near => loop'.late)
    BY <1>2, <1>5
  <2>6. pc' = "video" => loop'.status = "obstacle_stop"
    BY <1>2, <1>5
  <2> QED BY <1>1, <1>4, <1>5, <2>1, <2>2, <2>3, <2>4, <2>5, <2>6 DEF LoopInv, Preparing, Saving
<1>10. SavedInv'
  BY <1>1 DEF SavedInv
<1> QED BY <1>7, <1>8, <1>9, <1>10 DEF Inv, CommandInv

\* The stop check, with its verdict.
LEMMA CheckStep ==
  ASSUME Inv, Check
  PROVE  Inv'
<1>1. Kept /\ UNCHANGED <<cmd, seam>> /\ pc = "check"
  BY DEF Check, directory, Kept
<1>2. PICK core \in BOOLEAN, lost \in BOOLEAN :
        LET stable  == IF core THEN loop.stable + 1 ELSE 0
            verdict == Verdict(stable, lost)
        IN  /\ loop' = [loop EXCEPT !.cs = @ + 1, !.stable = stable, !.status = verdict]
            /\ pc' = IF verdict = "none" THEN "step" ELSE "video"
  BY DEF Check
<1> DEFINE stable == IF core THEN loop.stable + 1 ELSE 0
<1>3. /\ loop \in [step : Nat, chunk : Nat, cs : Nat, stable : Nat, near : BOOLEAN,
                   late : BOOLEAN, buffer : SUBSET Nat, status : Status]
      /\ cmd \in Command
  BY <1>1 DEF Inv, TypeInv
<1>4. stable \in Nat
  BY <1>3
<1> HIDE DEF stable
<1>5. PICK verdict \in Status :
        /\ loop' = [loop EXCEPT !.cs = @ + 1, !.stable = stable, !.status = verdict]
        /\ pc' = IF verdict = "none" THEN "step" ELSE "video"
  <2>1. Verdict(stable, lost) \in Status
    BY DEF Verdict, GridVerdict, AtomicVerdict, Status
  <2> QED BY <1>2, <2>1 DEF stable
<1>6. loop' \in [step : Nat, chunk : Nat, cs : Nat, stable : Nat, near : BOOLEAN,
                 late : BOOLEAN, buffer : SUBSET Nat, status : Status]
  <2>1. loop.cs + 1 \in Nat
    BY <1>3
  <2> QED BY <1>3, <1>4, <1>5, <2>1
<1>7. /\ loop'.step = loop.step /\ loop'.buffer = loop.buffer /\ loop'.chunk = loop.chunk
      /\ loop'.near = loop.near /\ loop'.late = loop.late
  BY <1>3, <1>5
<1>8. pc' \in {"step", "video"}
  BY <1>5
<1>9. TypeInv'
  BY <1>1, <1>3, <1>6, <1>8, KeptTypes DEF Inv, Informed, Trying, Saving
<1>10. RecordsInv' /\ StartInv' /\ TrialInv' /\ ResumeInv'
  BY <1>1, <1>8, SameTrialStep DEF SameCommand, Informed, Trying, Saving
<1>11. LoopInv'
  <2>1. Id' = Id
    BY <1>1, KeptLines
  <2>2. /\ loop.step > 0 /\ (loop.near => loop.late) /\ loop.buffer \subseteq {Id}
        /\ loop.chunk = Id /\ (cmd.cond.seam => seam = Id)
    BY <1>1 DEF Inv, CommandInv, LoopInv, Trying
  <2>3. loop'.step # 0
    BY <1>3, <1>7, <2>2
  <2> QED BY <1>1, <1>7, <1>8, <2>1, <2>2, <2>3 DEF LoopInv, Preparing, Saving
<1>12. SavedInv'
  BY <1>8 DEF SavedInv
<1> QED BY <1>9, <1>10, <1>11, <1>12 DEF Inv, CommandInv

\* The viewer is closed, at any point.
LEMMA CloseStep ==
  ASSUME Inv, CloseViewer
  PROVE  Inv'
<1>1. Kept /\ UNCHANGED <<pc, loop, seam>> /\ cmd \in Command /\ cmd' = [cmd EXCEPT !.closed = TRUE]
  BY DEF CloseViewer, directory, Kept, Inv, TypeInv
<1>2. cmd' \in Command /\ SameCommand
  BY <1>1 DEF Command, SameCommand
<1>3. TypeInv'
  BY <1>1, <1>2, KeptTypes DEF Inv, TypeInv
<1>4. RecordsInv' /\ StartInv' /\ TrialInv' /\ ResumeInv'
  BY <1>1, <1>2, SameTrialStep DEF Inv, CommandInv, ResumeInv
<1>5. LoopInv' /\ SavedInv'
  <2>1. Id' = Id
    BY <1>1, KeptLines
  <2> QED BY <1>1, <1>2, <2>1 DEF Inv, CommandInv, LoopInv, SavedInv, Holds, File, Kept, SameCommand
<1> QED BY <1>3, <1>4, <1>5 DEF Inv, CommandInv

-----------------------------------------------------------------------------
(* The files and the line of a trial. *)

\* A line whose files the attempt in progress writes over is of an earlier
\* attempt, and one the command had a reason to try again.
LEMMA WrittenOver ==
  ASSUME Inv, pc \in Saving, NEW r \in Lines,
         File(attempts[Id]) = File(attempts[r.id])
  PROVE  Id \in r.id + 1 .. Id /\ Replaced(r, Id)
<1>1. /\ pc \in Trying /\ pc \in Informed /\ Id \in Nat /\ r.id \in 1 .. Id /\ r.id < Id
  BY Shapes DEF Inv, CommandInv, TrialInv, RecordsInv, LineInv, Informed, Trying
<1>3. /\ attempts[Id].trial = cmd.todo /\ attempts[Id].rev = cmd.rev
      /\ attempts[Id].cond = cmd.cond /\ attempts[Id].resume = cmd.resume
  BY <1>1 DEF Inv, CommandInv, TrialInv
<1>4. /\ attempts[r.id].trial = cmd.todo
      /\ kind = "grid" => attempts[r.id].cond = cmd.cond
  BY <1>3 DEF File
<1>5. ASSUME Finished(r), cmd.resume
      PROVE  kind = "grid" /\ attempts[Id].rev # attempts[r.id].rev
  <2>1. ~ Counts(attempts[r.id])
    <3> SUFFICES ASSUME Counts(attempts[r.id]) PROVE FALSE
      OBVIOUS
    <3>1. attempts[r.id].trial \in cmd.skip \/ attempts[r.id].trial < cmd.todo
      BY <1>1, <1>5 DEF Inv, CommandInv, ResumeInv
    <3>2. cmd.todo \notin cmd.skip /\ cmd.todo \in Nat
      BY <1>1, Shapes DEF Inv, TypeInv, CommandInv, ResumeInv, Command, Saving
    <3> QED BY <1>4, <3>1, <3>2
  <2> QED BY <1>3, <1>4, <2>1 DEF Counts
<1> QED BY <1>1, <1>3, <1>5 DEF Replaced

\* Writing a file of the trial, whole or not.
LEMMA FileWritten ==
  ASSUME Inv, pc \in Saving, NEW v \in Nat,
         artifact' = [artifact EXCEPT ![File(attempts[Id])][pc] = v],
         UNCHANGED <<kind, results, attempts, report>>
  PROVE  /\ RecordsInv'
         /\ artifact' \in [Files -> [Saving -> Nat]]
         /\ artifact'[File(attempts[Id])][pc] = v
         /\ \A n \in Saving \ {pc} :
              artifact'[File(attempts[Id])][n] = artifact[File(attempts[Id])][n]
<1>1. File(attempts[Id]) \in Files /\ artifact \in [Files -> [Saving -> Nat]]
  BY SMTT(60), Shapes DEF Inv, TypeInv, CommandInv, TrialInv, Trying
<1>2. /\ artifact' \in [Files -> [Saving -> Nat]]
      /\ artifact'[File(attempts[Id])][pc] = v
      /\ \A n \in Saving \ {pc} :
           artifact'[File(attempts[Id])][n] = artifact[File(attempts[Id])][n]
      /\ \A f \in Files \ {File(attempts[Id])} : artifact'[f] = artifact[f]
  BY <1>1
<1>3. Lines' = Lines /\ Id' = Id /\ Named' = Named
  BY DEF Lines, Id, Named
<1>4. LineInv' /\ OnceInv' /\ EndInv' /\ ReportInv'
  BY <1>3 DEF Inv, RecordsInv, LineInv, OnceInv, EndInv, ReportInv, Finished, SameTrial
<1>5. FilesInv'
  <2> SUFFICES ASSUME NEW r \in Lines, r.file
               PROVE  (OwnFiles(r, Named) \/ \E i \in r.id + 1 .. Id : Replaced(r, i))'
    BY <1>3 DEF FilesInv
  <2>1. \A i : Replaced(r, i)' <=> Replaced(r, i)
    BY DEF Replaced, File, Finished
  <2>2. CASE File(attempts[Id]) = File(attempts[r.id])
    BY <1>3, <2>1, <2>2, WrittenOver
  <2>3. CASE File(attempts[Id]) # File(attempts[r.id])
    <3>1. File(attempts[r.id]) \in Files
      BY Shapes DEF Inv, RecordsInv, LineInv
    <3>2. artifact'[File(attempts[r.id])] = artifact[File(attempts[r.id])]
      BY <1>2, <2>3, <3>1
    <3>3. OwnFiles(r, Named) => OwnFiles(r, Named)'
      BY <1>3, <3>2 DEF OwnFiles, File
    <3> QED BY <1>3, <2>1, <3>3 DEF Inv, RecordsInv, FilesInv
  <2> QED BY <2>2, <2>3
<1> QED BY <1>2, <1>4, <1>5 DEF RecordsInv

\* The video, the trajectory and the inputs are saved in turn.
LEMMA SavingStep ==
  ASSUME Inv, SaveVideo \/ SaveTrajectory \/ SaveInputs
  PROVE  Inv'
<1>1. PICK which \in Saving, next \in {"trajectory", "inputs", "append"} :
        /\ SaveFile(which, next)
        /\ \/ which = "video" /\ next = "trajectory"
           \/ which = "trajectory" /\ next = (IF kind = "grid" THEN "inputs" ELSE "append")
           \/ which = "inputs" /\ next = "append"
  <2>1. CASE SaveVideo
    BY <2>1 DEF SaveVideo, Saving
  <2>2. CASE SaveTrajectory
    <3> DEFINE after == IF kind = "grid" THEN "inputs" ELSE "append"
    <3>1. SaveFile("trajectory", after) /\ after \in {"trajectory", "inputs", "append"}
      BY <2>2 DEF SaveTrajectory
    <3> HIDE DEF after
    <3>2. after = (IF kind = "grid" THEN "inputs" ELSE "append")
      BY DEF after
    <3> QED BY <3>1, <3>2 DEF Saving
  <2>3. CASE SaveInputs
    BY <2>3 DEF SaveInputs, Saving
  <2> QED BY <2>1, <2>2, <2>3
<1>2. /\ pc = which /\ pc' = next
      /\ artifact' = [artifact EXCEPT ![File(attempts[Id])][pc] = Id]
      /\ UNCHANGED <<kind, config, results, report, attempts, cmd, loop, seam, starts>>
  BY <1>1 DEF SaveFile
<1>3. Id \in Nat /\ pc \in Saving /\ pc \in Trying
  BY <1>2, Shapes DEF Inv, Trying
<1>4. /\ RecordsInv'
      /\ artifact' \in [Files -> [Saving -> Nat]]
      /\ artifact'[File(attempts[Id])][pc] = Id
      /\ \A n \in Saving \ {pc} :
           artifact'[File(attempts[Id])][n] = artifact[File(attempts[Id])][n]
  BY <1>2, <1>3, FileWritten
<1>5. TypeInv'
  BY <1>2, <1>4 DEF Inv, TypeInv, Informed, Trying, Saving
<1>6. Lines' = Lines /\ Id' = Id /\ File(attempts[Id])' = File(attempts[Id])
  BY <1>2 DEF Lines, Id, File
<1>7. TrialInv'
  BY <1>2, <1>3, <1>6 DEF Inv, CommandInv, TrialInv
<1>8. ResumeInv'
  BY <1>2, <1>3, <1>6 DEF Inv, CommandInv, ResumeInv, Counts, Finished, Legible, Informed, Trying
<1>9. LoopInv'
  BY <1>2, <1>3, <1>6 DEF Inv, CommandInv, LoopInv, Preparing, Saving, Trying
<1>10. SavedInv'
  <2>1. Holds(which)' /\ \A n \in Saving \ {which} : Holds(n) => Holds(n)'
    BY <1>2, <1>4, <1>6 DEF Holds
  <2>2. /\ loop' = loop /\ kind' = kind /\ pc' = next
        /\ loop.step > 0 => /\ which # "video" => Holds("video")
                            /\ which = "inputs" => Holds("trajectory")
    BY <1>1, <1>2 DEF Inv, CommandInv, SavedInv, Saving
  <2> QED BY <1>1, <2>1, <2>2 DEF SavedInv, Saving
<1>11. StartInv'
  BY <1>2, <1>3, SameStart DEF Inv, Saving
<1> QED BY <1>4, <1>5, <1>7, <1>8, <1>9, <1>10, <1>11 DEF Inv, CommandInv

\* What a line that was cut becomes when something joins it.
Spoils(n, r) ==
  /\ Cut(r) /\ n.status = "spoilt"
  /\ n.id = r.id /\ n.metrics = r.metrics /\ n.file = r.file

\* A line is added, or joins one that was cut.
LEMMA LineAdded ==
  ASSUME TypeInv, NEW line \in Line, AppendLine(line)
  PROVE  /\ results' \in Seq(Line)
         /\ \A r \in Lines : r \in Lines' \/ Cut(r)
         /\ \A n \in Lines' : n \in Lines \/ n = line \/ \E r \in Lines : Spoils(n, r)
<1> DEFINE last == results[Len(results)]
           lost == [last EXCEPT !.status = "spoilt"]
<1>0. DOMAIN results = 1 .. Len(results) /\ Len(results) \in Nat
  BY LenProperties DEF TypeInv
<1>1. CASE results' = results
  BY <1>1 DEF TypeInv, Lines
<1>2. CASE results' = Append(results, line)
  <2>1. /\ results' \in Seq(Line) /\ Len(results') = Len(results) + 1
        /\ results'[Len(results) + 1] = line
        /\ \A i \in 1 .. Len(results) : results'[i] = results[i]
    BY <1>2, AppendProperties DEF TypeInv
  <2>2. DOMAIN results' = 1 .. Len(results')
    BY <2>1, LenProperties
  <2>3. DOMAIN results' = DOMAIN results \cup {Len(results) + 1}
    BY <1>0, <2>1, <2>2
  <2>4. \A i \in DOMAIN results : results'[i] = results[i]
    BY <1>0, <2>1
  <2>5. Lines' = Lines \cup {line}
    BY <2>1, <2>3, <2>4 DEF Lines
  <2> QED BY <2>1, <2>5
<1>3. CASE /\ results # << >> /\ last.status = "torn"
           /\ results' = [results EXCEPT ![Len(results)] = lost]
  <2>1. Len(results) \in DOMAIN results
    BY <1>0, <1>3, EmptySeq DEF TypeInv
  <2>2. last \in Line /\ last \in Lines
    BY <1>0, <2>1, ElementOfSeq DEF TypeInv, Lines
  <2>3. Spoils(lost, last) /\ lost \in Line
    BY <1>3, <2>2 DEF Spoils, Cut, Line
  <2> HIDE DEF last, lost
  <2>4. results' \in Seq(Line)
    BY <1>0, <1>3, <2>1, <2>3, ExceptSeq DEF TypeInv
  <2>5. /\ DOMAIN results' = DOMAIN results
        /\ \A i \in DOMAIN results :
             results'[i] = IF i = Len(results) THEN lost ELSE results[i]
    BY <1>3, <2>1
  <2>6. \A n \in Lines' : n \in Lines \/ n = lost
    BY <2>5 DEF Lines
  <2>7. \A r \in Lines : r \in Lines' \/ r = last
    <3> SUFFICES ASSUME NEW i \in DOMAIN results, i # Len(results) PROVE results[i] \in Lines'
      BY DEF Lines, last
    <3>1. results'[i] = results[i] /\ i \in DOMAIN results'
      BY <2>5
    <3> QED BY <3>1 DEF Lines
  <2> QED BY <2>2, <2>3, <2>4, <2>6, <2>7 DEF Spoils
<1> QED BY <1>1, <1>2, <1>3 DEF AppendLine

\* The line of the attempt in progress, whole or cut.
LEMMA LineRecorded ==
  ASSUME Inv, pc = "append", NEW line \in Line,
         line.id = Id, line.metrics \subseteq {Id}, Cut(line) => ~ line.file,
         Cut(line) \/ line.status \in {"interrupted", "setup_error"} \/ line.file,
         line.file => OwnFiles(line, Named),
         AppendLine(line), UNCHANGED <<kind, artifact, report, attempts>>
  PROVE  RecordsInv'
<1>1. /\ \A r \in Lines : r \in Lines' \/ Cut(r)
      /\ \A n \in Lines' : n \in Lines \/ n = line \/ \E r \in Lines : Spoils(n, r)
  BY LineAdded DEF Inv
<1>2. /\ Id' = Id /\ attempts' = attempts /\ kind' = kind /\ report' = report
      /\ \A r : Finished(r)' = Finished(r)
      /\ \A r, i : Replaced(r, i)' = Replaced(r, i)
      /\ \A r : OwnFiles(r, Named)' = OwnFiles(r, Named)
  BY DEF Id, Finished, Replaced, File, OwnFiles, Named
<1>3. \A r \in Lines : r.id < Id /\ r.id \in 1 .. Id
  BY DEF Inv, CommandInv, TrialInv, Trying, RecordsInv, LineInv
<1>4. Id \in Nat /\ Id # 0
  BY Shapes DEF Inv, CommandInv, TrialInv, Trying
<1>5. \A n, r : Spoils(n, r) => Cut(n) /\ ~ Finished(n)
  BY DEF Spoils, Cut, Finished
<1>6. LineInv'
  <2> SUFFICES ASSUME NEW n \in Lines'
               PROVE  /\ n.id \in 1 .. Id
                      /\ n.metrics \subseteq {n.id}
                      /\ Cut(n) => ~ n.file
                      /\ Cut(n) \/ n.status \in {"interrupted", "setup_error"} \/ n.file
    BY <1>2 DEF LineInv
  <2>1. CASE n \in Lines
    BY <2>1 DEF Inv, RecordsInv, LineInv
  <2>2. CASE n = line
    BY <1>4, <2>2
  <2>3. ASSUME NEW r \in Lines, Spoils(n, r)
        PROVE  n.id \in 1 .. Id /\ n.metrics \subseteq {n.id} /\ Cut(n) /\ ~ n.file
    BY <1>5, <2>3 DEF Inv, RecordsInv, LineInv, Spoils
  <2> QED BY <1>1, <2>1, <2>2, <2>3
<1>7. OnceInv'
  <2> SUFFICES ASSUME NEW r \in Lines', NEW q \in Lines', Finished(r),
                      r.id < q.id, SameTrial(attempts[r.id], attempts[q.id])
               PROVE  ~ attempts[q.id].resume
    BY <1>2 DEF OnceInv, SameTrial
  <2>1. r \in Lines
    <3>1. r \in Lines \/ r = line
      BY <1>1, <1>5
    <3>2. r # line
      BY <1>1, <1>3, <1>4 DEF Spoils
    <3> QED BY <3>1, <3>2
  <2>2. CASE q \in Lines
    BY <2>1, <2>2 DEF Inv, RecordsInv, OnceInv
  <2>3. CASE q = line
    <3>1. /\ attempts[Id].trial = cmd.todo /\ attempts[Id].rev = cmd.rev
          /\ attempts[Id].cond = cmd.cond /\ attempts[Id].resume = cmd.resume
      BY DEF Inv, CommandInv, TrialInv, Trying
    <3>2. /\ cmd.todo \notin cmd.skip /\ cmd.todo \in Nat
          /\ cmd.resume /\ Counts(attempts[r.id]) =>
               attempts[r.id].trial \in cmd.skip \/ attempts[r.id].trial < cmd.todo
      BY <2>1 DEF Inv, TypeInv, CommandInv, ResumeInv, Command, Trying, Informed
    <3>3. Counts(attempts[r.id]) /\ attempts[r.id].trial = cmd.todo
      BY <2>3, <3>1 DEF SameTrial, Counts
    <3> QED BY <2>3, <3>1, <3>2, <3>3
  <2>4. ASSUME NEW p \in Lines, Spoils(q, p) PROVE ~ attempts[q.id].resume
    BY <2>1, <2>4 DEF Inv, RecordsInv, OnceInv, Spoils
  <2> QED BY <1>1, <2>2, <2>3, <2>4
<1>8. FilesInv'
  <2> SUFFICES ASSUME NEW n \in Lines', n.file
               PROVE  OwnFiles(n, Named) \/ \E i \in n.id + 1 .. Id : Replaced(n, i)
    BY <1>2 DEF FilesInv
  <2>1. n \in Lines \/ n = line
    BY <1>1 DEF Inv, RecordsInv, LineInv, Spoils
  <2> QED BY <2>1 DEF Inv, RecordsInv, FilesInv
<1>9. EndInv'
  <2> SUFFICES ASSUME NEW n \in Lines', NEW i \in n.id + 1 .. Id
               PROVE  /\ Cut(n) => ~ attempts[i].resume
                      /\ n.status = "interrupted" => attempts[i].start # attempts[n.id].start
    BY <1>2 DEF EndInv
  <2>1. CASE n \in Lines
    BY <2>1 DEF Inv, RecordsInv, EndInv
  <2>2. CASE n = line
    BY <1>4, <2>2
  <2>3. ASSUME NEW r \in Lines, Spoils(n, r)
        PROVE  ~ attempts[i].resume /\ n.status # "interrupted"
    BY <2>3 DEF Inv, RecordsInv, EndInv, Spoils
  <2> QED BY <1>1, <2>1, <2>2, <2>3
<1>10. ReportInv'
  <2>1. \A r \in report : r \in Lines' /\ ~ Cut(r)
    BY <1>1 DEF Inv, RecordsInv, ReportInv
  <2>2. ASSUME NEW n \in Lines', NEW q \in report, n.id < q.id PROVE n \in report
    <3>1. q \in Lines /\ \A r \in Lines : r.id < q.id => r \in report
      BY DEF Inv, RecordsInv, ReportInv
    <3>2. n # line
      BY <1>3, <1>4, <2>2, <3>1
    <3>3. ASSUME NEW r \in Lines, Spoils(n, r) PROVE FALSE
      BY <2>2, <3>1, <3>3 DEF Inv, RecordsInv, ReportInv, Spoils
    <3> QED BY <1>1, <2>2, <3>1, <3>2, <3>3
  <2> QED BY <1>2, <2>1, <2>2 DEF Inv, RecordsInv, ReportInv
<1> QED BY <1>6, <1>7, <1>8, <1>9, <1>10 DEF RecordsInv

\* The line of the trial that just ended.
LEMMA RecordLine ==
  ASSUME Inv, pc = "append"
  PROVE  /\ Record \in Line /\ ~ Cut(Record) /\ Record.id = Id /\ Id \in Nat \ {0}
         /\ Record.metrics \subseteq {Id} /\ Record.status = loop.status
         /\ loop.status \in {"interrupted", "setup_error"} \/ Record.file
         /\ Record.file => OwnFiles(Record, Named)
<1>1. /\ Id \in Nat \ {0} /\ pc \in Trying
      /\ loop \in [step : Nat, chunk : Nat, cs : Nat, stable : Nat, near : BOOLEAN,
                   late : BOOLEAN, buffer : SUBSET Nat, status : Status]
  BY Shapes DEF Inv, TypeInv, CommandInv, TrialInv, Trying
<1>2. /\ Record.id = Id /\ Record.metrics = loop.buffer /\ Record.status = loop.status
      /\ Record.file = (loop.step > 0)
  BY DEF Record, Metrics
<1>3. Record \in Line
  BY <1>1 DEF Record, Metrics, Line
<1>4. ~ Cut(Record)
  BY <1>1, <1>2 DEF Cut, Status
<1>5. loop.buffer \subseteq {Id}
  BY <1>1 DEF Inv, CommandInv, LoopInv
<1>6. loop.status \in {"interrupted", "setup_error"} \/ loop.step > 0
  BY <1>1 DEF Inv, CommandInv, LoopInv
<1>7. loop.step > 0 => OwnFiles(Record, Named)
  <2> SUFFICES ASSUME loop.step > 0, NEW n \in Named
               PROVE  artifact[File(attempts[Id])][n] = Id
    BY <1>2 DEF OwnFiles
  <2> QED BY DEF Inv, CommandInv, SavedInv, Holds, Named, Saving
<1> QED BY <1>1, <1>2, <1>3, <1>4, <1>5, <1>6, <1>7

\* The trial is recorded.
LEMMA AppendStep ==
  ASSUME Inv, AppendRecord
  PROVE  Inv'
<1>1. /\ AppendLine(Record) /\ pc = "append"
      /\ UNCHANGED <<kind, config, artifact, report, attempts, seam, starts>>
  BY DEF AppendRecord
<1>2. /\ Record \in Line /\ ~ Cut(Record) /\ Record.id = Id /\ Id \in Nat \ {0}
      /\ Record.metrics \subseteq {Id} /\ Record.status = loop.status
      /\ loop.status \in {"interrupted", "setup_error"} \/ Record.file
      /\ Record.file => OwnFiles(Record, Named)
  BY <1>1, RecordLine
<1> DEFINE rec == Record
<1> HIDE DEF rec
<1>3. /\ results' \in Seq(Line)
      /\ \A n \in Lines' : n \in Lines \/ n = rec \/ \E r \in Lines : Spoils(n, r)
  BY <1>1, <1>2, LineAdded DEF Inv, rec
<1>4. \A r \in Lines : r.id < Id /\ r.id \in 1 .. Id
  BY <1>1 DEF Inv, CommandInv, TrialInv, Trying, RecordsInv, LineInv
<1>5. rec.id = Id /\ ~ Cut(rec) /\ rec.status = loop.status
  BY <1>2 DEF rec
<1>6. /\ Id' = Id /\ attempts' = attempts /\ kind' = kind
      /\ \A r : Finished(r)' = Finished(r)
  BY <1>1 DEF Id, Finished
<1>7. /\ attempts[Id].trial = cmd.todo /\ attempts[Id].rev = cmd.rev
      /\ attempts[Id].cond = cmd.cond /\ attempts[Id].resume = cmd.resume
  BY <1>1 DEF Inv, CommandInv, TrialInv, Trying
<1>8. /\ cmd.todo \notin cmd.skip /\ cmd.todo \in Nat /\ cmd \in Command
      /\ cmd.resume =>
           \A r \in Lines : Finished(r) /\ Counts(attempts[r.id]) =>
             attempts[r.id].trial \in cmd.skip \/ attempts[r.id].trial < cmd.todo
  BY <1>1 DEF Inv, TypeInv, CommandInv, ResumeInv, Command, Trying, Informed
<1>9. RecordsInv'
  BY <1>1, <1>2, LineRecorded
<1>10. \A n \in Lines' : Finished(n) => n \in Lines \/ n = rec
  BY <1>3 DEF Spoils, Finished, Cut
<1>11. cmd.resume => Legible'
  BY <1>1, <1>3, <1>5 DEF Inv, CommandInv, ResumeInv, Informed, Trying, Legible, Spoils, Cut
<1>12. \A i \in 1 .. Id' : attempts'[i].start <= starts'
  BY <1>1, <1>6 DEF Inv, StartInv
<1>13. CASE loop.status = "interrupted" /\ kind = "atomic"
  <2>1. pc' = "report" /\ UNCHANGED <<cmd, loop>>
    BY <1>13 DEF AppendRecord, Leave
  <2>2. TypeInv'
    BY <1>1, <1>3, <2>1 DEF Inv, TypeInv, Informed
  <2>3. ResumeInv'
    <3> SUFFICES ASSUME cmd.resume, NEW r \in Lines', Finished(r), Counts(attempts[r.id])
                 PROVE  attempts[r.id].trial \in cmd.skip \/ attempts[r.id].trial < cmd.todo
      BY <1>6, <1>13, <1>11, <2>1 DEF ResumeInv, Counts, Trying, Preparing, Saving
    <3>1. r \in Lines
      BY <1>5, <1>13, <1>10 DEF Finished
    <3> QED BY <1>8, <3>1
  <2>4. TrialInv' /\ LoopInv' /\ SavedInv'
    BY <2>1 DEF TrialInv, LoopInv, SavedInv, Trying, Preparing, Saving
  <2>5. StartInv'
    BY <1>12, <2>1 DEF StartInv
  <2> QED BY <1>9, <2>2, <2>3, <2>4, <2>5 DEF Inv, CommandInv
<1>14. CASE loop.status = "interrupted" /\ kind # "atomic"
  <2>1. Exit
    BY <1>14 DEF AppendRecord, Leave
  <2>2. TypeInv'
    BY <1>1, <1>3, <2>1, EmptyLoop DEF Inv, TypeInv, Exit
  <2>3. CommandInv'
    BY <2>1, Uninformed DEF Exit, Informed, Trying, Preparing, Saving
  <2>4. StartInv'
    BY <1>12, <2>1 DEF StartInv, Exit
  <2> QED BY <1>9, <2>2, <2>3, <2>4 DEF Inv
<1>15. CASE loop.status # "interrupted"
  <2>1. pc' = "next" /\ cmd' = [cmd EXCEPT !.todo = @ + 1] /\ UNCHANGED loop
    BY <1>15 DEF AppendRecord
  <2>2. cmd' \in Command
    BY <1>8, <2>1 DEF Command
  <2>3. /\ cmd'.resume = cmd.resume /\ cmd'.skip = cmd.skip /\ cmd'.todo = cmd.todo + 1
        /\ cmd'.rev = cmd.rev /\ cmd'.cond = cmd.cond
    BY <1>8, <2>1 DEF Command
  <2>4. TypeInv'
    BY <1>1, <1>3, <2>1, <2>2 DEF Inv, TypeInv, Informed
  <2>5. ResumeInv'
    <3> SUFFICES ASSUME cmd.resume, NEW r \in Lines', Finished(r), Counts(attempts[r.id])
                 PROVE  attempts[r.id].trial \in cmd.skip \/ attempts[r.id].trial < cmd.todo + 1
      BY <1>6, <1>11, <2>1, <2>3 DEF ResumeInv, Counts, Trying, Preparing, Saving
    <3>1. CASE r \in Lines
      <4>1. attempts[r.id].trial \in Nat
        BY <1>4, <3>1, Shapes DEF Inv, Attempt, Trials, Finished
      <4> QED BY <1>8, <3>1, <4>1
    <3>2. CASE r = rec
      BY <1>5, <1>7, <1>8, <3>2
    <3> QED BY <1>10, <3>1, <3>2
  <2>6. TrialInv' /\ LoopInv' /\ SavedInv'
    BY <2>1 DEF TrialInv, LoopInv, SavedInv, Trying, Preparing, Saving
  <2>7. StartInv'
    <3>1. \A r \in Lines' : r.status = "interrupted" => r \in Lines
      BY <1>3, <1>5, <1>15 DEF Spoils
    <3> QED BY <1>1, <1>6, <1>12, <3>1 DEF Inv, StartInv
  <2> QED BY <1>9, <2>4, <2>5, <2>6, <2>7 DEF Inv, CommandInv
<1> QED BY <1>13, <1>14, <1>15

-----------------------------------------------------------------------------
(* The end of a command, and every step. *)

\* The report of an atomic experiment.
LEMMA ReportStep ==
  ASSUME Inv, WriteReport
  PROVE  Inv'
<1>1. /\ pc = "report" /\ Exit /\ UNCHANGED <<kind, config, results, artifact, attempts, seam, starts>>
      /\ report' = IF Legible THEN Lines ELSE report
  BY DEF WriteReport
<1>2. TypeInv'
  BY <1>1, EmptyLoop DEF Inv, TypeInv, Exit
<1>3. CommandInv'
  BY <1>1, Uninformed DEF Exit, Informed, Trying, Preparing, Saving
<1>4. Lines' = Lines /\ Id' = Id /\ kind = "atomic"
  BY <1>1 DEF Lines, Id, Inv, CommandInv, ResumeInv
<1>5. LineInv' /\ OnceInv' /\ FilesInv' /\ EndInv'
  BY <1>1, <1>4 DEF Inv, RecordsInv, LineInv, OnceInv, FilesInv, EndInv, OwnFiles, Named,
                    Replaced, File, Finished, SameTrial
<1>6. ReportInv'
  BY <1>1, <1>4 DEF Inv, RecordsInv, ReportInv, Legible
<1>7. StartInv'
  BY <1>1, SameStart DEF Inv, Exit
<1> QED BY <1>2, <1>3, <1>5, <1>6, <1>7 DEF Inv, RecordsInv

\* The command is stopped at any point; what it was writing may be cut.
LEMMA StopStep ==
  ASSUME Inv, Stop
  PROVE  Inv'
<1>1. Exit /\ UNCHANGED <<kind, report, attempts, seam, starts>>
  BY DEF Stop
<1>2. CommandInv'
  BY <1>1, Uninformed DEF Exit, Informed, Trying, Preparing, Saving
<1>3. \A i \in 1 .. Id : attempts[i].start <= starts
  BY DEF Inv, StartInv
<1>4. StartInv'
  BY <1>1, <1>3 DEF StartInv, Exit, Id
<1>5. CASE UNCHANGED <<results, artifact>>
  BY <1>1, <1>5, ExitStep DEF Kept
<1>6. CASE /\ pc \in Saving
           /\ artifact' = [artifact EXCEPT ![File(attempts[Id])][pc] = 0]
           /\ UNCHANGED results
  <2>1. RecordsInv' /\ artifact' \in [Files -> [Saving -> Nat]]
    BY <1>1, <1>6, FileWritten
  <2>2. TypeInv'
    BY <1>1, <1>6, <2>1, EmptyLoop DEF Inv, TypeInv, Exit
  <2> QED BY <1>2, <1>4, <2>1, <2>2 DEF Inv
<1>7. CASE pc = "append" /\ AppendLine(TornLine) /\ UNCHANGED artifact
  <2>1. /\ TornLine.id = Id /\ TornLine.metrics = {} /\ TornLine.file = FALSE
        /\ Cut(TornLine) /\ TornLine \in Line
    BY Shapes DEF Inv, TornLine, Cut, Line
  <2>2. RecordsInv'
    BY <1>1, <1>7, <2>1, LineRecorded
  <2>3. results' \in Seq(Line)
    BY <1>7, <2>1, LineAdded DEF Inv
  <2>4. TypeInv'
    BY <1>1, <1>7, <2>3, EmptyLoop DEF Inv, TypeInv, Exit
  <2> QED BY <1>2, <1>4, <2>2, <2>4 DEF Inv
<1> QED BY <1>5, <1>6, <1>7 DEF Stop

\* Nothing changes.
LEMMA StutterStep ==
  ASSUME Inv, UNCHANGED vars
  PROVE  Inv'
<1>1. Kept /\ SameCommand /\ UNCHANGED <<pc, cmd, loop, seam>>
  BY DEF vars, Kept, SameCommand
<1>2. TypeInv'
  BY <1>1, KeptTypes DEF Inv, TypeInv
<1>3. RecordsInv' /\ StartInv' /\ TrialInv' /\ ResumeInv'
  BY <1>1, SameTrialStep DEF Inv, CommandInv, ResumeInv
<1>4. LoopInv' /\ SavedInv'
  <2>1. Id' = Id
    BY <1>1, KeptLines
  <2> QED BY <1>1, <2>1 DEF Inv, CommandInv, LoopInv, SavedInv, Holds, File, Kept
<1> QED BY <1>2, <1>3, <1>4 DEF Inv, CommandInv

\* Every step of every command keeps the invariant.
LEMMA InvStep ==
  ASSUME ExperimentAssumption, Inv, [Next]_vars
  PROVE  Inv'
<1>1. CASE Launch \/ SetUp \/ GuardConfig \/ SnapshotGrid
  BY <1>1, StartStep
<1>2. CASE ReadResults
  BY <1>2, ReadStep
<1>3. CASE Skip
  BY <1>3, SkipStep
<1>4. CASE EndOfList
  BY <1>4, EndStep
<1>5. CASE Begin
  BY <1>5, BeginStep
<1>6. CASE PlaceBlocks \/ ArrangeFruits \/ Wait
  BY <1>6, PrepareStep
<1>7. CASE Infer \/ RefuseChunk
  BY <1>7, InferStep
<1>8. CASE Act
  BY <1>8, ActStep
<1>9. CASE Check
  BY <1>9, CheckStep
<1>10. CASE SaveVideo \/ SaveTrajectory \/ SaveInputs
  BY <1>10, SavingStep
<1>11. CASE AppendRecord
  BY <1>11, AppendStep
<1>12. CASE WriteReport
  BY <1>12, ReportStep
<1>13. CASE CloseViewer
  BY <1>13, CloseStep
<1>14. CASE Stop
  BY <1>14, StopStep
<1>15. CASE Quiet \/ UNCHANGED vars
  BY <1>15, StutterStep DEF Quiet
<1> QED BY <1>1, <1>2, <1>3, <1>4, <1>5, <1>6, <1>7, <1>8, <1>9, <1>10, <1>11, <1>12, <1>13,
           <1>14, <1>15 DEF Next, CommandStep

\* The inductive invariant of the experiments.
LEMMA Invariant == Spec => []Inv
<1>1. Init => Inv
  BY InvInit
<1>2. Inv /\ [Next]_vars => Inv'
  BY InvStep, ExperimentAssumption
<1> QED BY <1>1, <1>2, PTL DEF Spec

-----------------------------------------------------------------------------
(* The properties of the runs. *)

\* completed_grid_trial_ids: a trial that finished is tried again only by a command
\* told not to resume, however often commands were stopped before, and after a
\* line was cut nothing is.
THEOREM NoTrialIsRecordedTwice == Spec => []NoTrialTwice
<1>1. Inv => NoTrialTwice
  BY DEF Inv, RecordsInv, OnceInv, EndInv, NoTrialTwice
<1> QED BY <1>1, Invariant, PTL

\* clear_episode_buffers, fresh locals and the reset of the first request: rows,
\* metrics and the guidance of the server are of the trial in progress.
THEOREM TrialsDoNotMix == Spec => []OwnTrialOnly
<1>1. ASSUME Inv PROVE OwnTrialOnly
  <2>1. pc \in {"wait", "step", "check", "append"} \cup Saving => loop.buffer \subseteq {Id}
    BY <1>1 DEF Inv, CommandInv, LoopInv, Trying, Preparing
  <2>2. pc = "step" /\ ~ NeedsChunk => Row = Id /\ (cmd.cond.seam => seam = Id)
    BY <1>1 DEF Inv, CommandInv, LoopInv, Trying, NeedsChunk, Row
  <2>3. \A r \in Lines : r.metrics \subseteq {r.id}
    BY <1>1 DEF Inv, RecordsInv, LineInv
  <2> QED BY <2>1, <2>2, <2>3 DEF OwnTrialOnly
<1> QED BY <1>1, Invariant, PTL

\* The video, trajectory and inputs that a finished record names are its own until
\* the trial is tried again on purpose.
THEOREM RecordsKeepTheirFiles == Spec => []FilesOfItsRecord
<1>1. ASSUME Inv PROVE FilesOfItsRecord
  <2> SUFFICES ASSUME NEW r \in Lines, Finished(r), r.file, ~ OwnFiles(r, Named)
               PROVE  \E i \in r.id + 1 .. Id :
                        /\ File(attempts[i]) = File(attempts[r.id])
                        /\ \/ ~ attempts[i].resume
                           \/ kind = "grid" /\ attempts[i].rev # attempts[r.id].rev
    BY DEF FilesOfItsRecord
  <2>1. PICK i \in r.id + 1 .. Id : Replaced(r, i)
    BY <1>1 DEF Inv, RecordsInv, FilesInv, Finished
  <2> QED BY <2>1 DEF Replaced
<1> QED BY <1>1, Invariant, PTL

\* loop_body with obstacles: a trial that touched one is an obstacle stop, save for
\* a contact after its last look.
THEOREM ContactsEndTheTrial == Spec => []ContactStops
<1>1. Inv => ContactStops
  BY DEF Inv, CommandInv, LoopInv, ContactStops
<1> QED BY <1>1, Invariant, PTL

\* write_atomic_experiment_report: the totals are of lines, and none is left out.
\* After a line of a trial that finished, only a command told not to resume adds
\* one; the rest are interruptions, the last attempts of their commands.
THEOREM TheReportAddsUp == Spec => []ReportCounts
<1>1. ASSUME Inv PROVE ReportCounts
  <2>1. \A r \in report : r \in Lines /\ ~ Cut(r) /\ kind = "atomic"
    BY <1>1 DEF Inv, RecordsInv, ReportInv
  <2>2. ASSUME NEW r \in report, NEW q \in report, r.id < q.id,
               attempts[r.id].trial = attempts[q.id].trial, r.status # "interrupted"
        PROVE  ~ attempts[q.id].resume
    <3>1. Finished(r) /\ SameTrial(attempts[r.id], attempts[q.id])
      BY <2>1, <2>2 DEF Finished, SameTrial
    <3> QED BY <1>1, <2>1, <2>2, <3>1 DEF Inv, RecordsInv, OnceInv
  <2>3. \A r \in report : r.status = "interrupted" =>
          \A i \in r.id + 1 .. Id : attempts[i].start # attempts[r.id].start
    BY <1>1, <2>1 DEF Inv, RecordsInv, EndInv
  <2>4. \A r \in Lines, q \in report : r.id < q.id => r \in report
    BY <1>1 DEF Inv, RecordsInv, ReportInv
  <2> QED BY <2>2, <2>3, <2>4 DEF ReportCounts
<1> QED BY <1>1, Invariant, PTL

\* load_condition and find_record: the rows that the analyses measure and replay are
\* those of the record they stand beside.
THEOREM ReadersFindTheirRows == Spec => []ReadersReadTheirRecord
<1> DEFINE Again(r) == {i \in r.id + 1 .. Id : File(attempts[i]) = File(attempts[r.id])}
           Over == {r.id : r \in {q \in Lines : Finished(q)}}
<1>1. ASSUME Inv, Readable PROVE \A r \in Lines :
        r.file /\ TrajectoryMetrics(r) # r.id => \E i \in Again(r) : TRUE
  <2> SUFFICES ASSUME NEW r \in Lines, r.file, TrajectoryMetrics(r) # r.id
               PROVE  \E i \in Again(r) : TRUE
    OBVIOUS
  <2>1. ~ OwnFiles(r, Named)
    BY <1>1 DEF OwnFiles, Named, TrajectoryMetrics, Readable, Saving
  <2>2. PICK i \in r.id + 1 .. Id : Replaced(r, i)
    BY <1>1, <2>1 DEF Inv, RecordsInv, FilesInv, Readable
  <2> QED BY <2>2 DEF Replaced
<1>2. ASSUME Inv, Readable, NEW t \in Trials, NEW r \in LoadCondition(t),
             TrajectoryMetrics(r) # r.id
      PROVE  ~ Again(r) \subseteq Over
  <2>1. /\ r \in Lines /\ Finished(r) /\ attempts[r.id].trial = t
        /\ \A q \in FinishedOf(t) : q.id <= r.id
    BY <1>2 DEF LoadCondition, FinishedOf
  <2>2. r.file
    BY <1>2, <2>1 DEF Inv, RecordsInv, LineInv, Finished, Readable
  <2>3. PICK i \in Again(r) : TRUE
    BY <1>1, <1>2, <2>1, <2>2
  <2>4. i \in r.id + 1 .. Id /\ attempts[i].trial = t
    BY <2>1, <2>3 DEF File
  <2>5. ASSUME i \in Over PROVE FALSE
    <3>1. PICK q \in Lines : Finished(q) /\ q.id = i
      BY <2>5
    <3>2. q.id <= r.id
      BY <2>1, <2>4, <3>1 DEF FinishedOf
    <3>3. r.id \in 1 .. Id /\ Id \in Nat
      BY <1>2, <2>1, Shapes DEF Inv, RecordsInv, LineInv, Finished
    <3> QED BY <2>4, <3>1, <3>2, <3>3
  <2> QED BY <2>3, <2>5
<1>3. ASSUME Inv, Readable, NEW p \in Replays, p.record.file, p.rows # p.record.id
      PROVE  Again(p.record) # {}
  <2>1. PICK r \in UNION {FindRecord(t) : t \in Trials} :
          p = [record |-> r, rows |-> TrajectoryMetrics(r)]
    BY <1>3 DEF Replays
  <2>2. p.record = r /\ p.rows = TrajectoryMetrics(r) /\ r \in Lines
    BY <2>1 DEF FindRecord
  <2> QED BY <1>1, <1>3, <2>2
<1>4. Inv => ReadersReadTheirRecord
  BY <1>2, <1>3 DEF ReadersReadTheirRecord
<1> QED BY <1>4, Invariant, PTL
=============================================================================
