---------------------------- MODULE TrainingGate ----------------------------
(***************************************************************************)
(* From a finished dataset to the training of a policy (scripts/).         *)
(* patch_dataset_timestamps.py rewrites the timestamps of every episode in *)
(* place, with a copy beside the dataset.  launch_atomic_train_after_norm  *)
(* and launch_train_after_norm wait in a shell for the session that        *)
(* computes the normalization, check what it left, have                    *)
(* preflight_atomic_finetune.py look at the dataset, and start the         *)
(* training in a tmux session of its own.  They may be started twice, and  *)
(* the operator may patch the dataset at any time.                         *)
(*                                                                         *)
(* What a file holds is "raw" (simulation times), "nominal" (frame / fps), *)
(* or "torn": being written, or left so by a death.  The block programs    *)
(* and collect_batch record simulation times; EpisodeRecorder, with which  *)
(* the atomic dataset is collected, records nominal ones.                  *)
(***************************************************************************)
EXTENDS Integers

CONSTANTS
  NumFiles,     \* episodes of the dataset
  Guards,       \* shells that run a launch script
  MaxPatches    \* bound on the times the patch is run

VARIABLES
  files,   \* every episode as recorded, its file and its backup, and what else
           \* preflight finds
  patch,   \* the patch tool
  norm,    \* the session that computes the normalization, its log and its file
  guard,   \* where every launch script is
  train    \* the training, with what it was given

gateVars == <<files, patch, norm, guard, train>>

Files == 0 .. NumFiles - 1
Whole == {"raw", "nominal"}

\* A dataset has episodes of one recorder, or of both.  What the script that is run
\* does not look at is as it should be.
GateInit ==
  \E script \in {"atomic", "transport"}, sound, leftover, examples \in BOOLEAN,
     old \in {"absent", "old"}, recorded \in [Files -> Whole] :
    /\ IF script = "atomic" THEN examples ELSE sound /\ ~ leftover
    /\ files = [recorded |-> recorded, file |-> recorded,
                backup |-> [e \in Files |-> "absent"],
                sound |-> sound, leftover |-> leftover]
    /\ patch = [pc |-> "idle", at |-> 0, backup |-> FALSE, runs |-> 0, deaths |-> 0,
                bare |-> {}]
    /\ norm = [pc |-> "none", log |-> FALSE, file |-> old, examples |-> examples]
    /\ guard = [g \in Guards |-> [script |-> script, pc |-> "idle", at |-> 0,
                                   opened |-> {}]]
    /\ train = [pc |-> "none", checkpoint |-> FALSE, file |-> << >>, stats |-> "absent",
                opened |-> {}]

-----------------------------------------------------------------------------
(* The patch. *)

Patches(pc) ==
  /\ patch.pc = pc
  /\ UNCHANGED <<norm, guard, train>>

StartPatch ==
  /\ patch.pc \in {"idle", "died", "raised", "aborted", "done"}
  /\ patch.runs < MaxPatches
  /\ \E backup \in BOOLEAN :
       patch' = [patch EXCEPT !.pc = "preview", !.at = 0, !.backup = backup, !.runs = @ + 1]
  /\ UNCHANGED <<files, norm, guard, train>>

\* The first, the middle and the last episode are read before the operator is asked.
Preview ==
  /\ Patches("preview")
  /\ \E answer \in {"confirmed", "aborted"} :
       patch' = [patch EXCEPT !.pc =
         IF \E e \in {0, NumFiles \div 2, NumFiles - 1} : files.file[e] = "torn"
         THEN "raised" ELSE IF answer = "confirmed" THEN "read" ELSE answer]
  /\ UNCHANGED files

\* A plausible bug: the copy is made in every run.
AlwaysBackup(e) == patch.backup

\* A copy that exists is not made again.
NeedsBackup(e) == patch.backup /\ files.backup[e] = "absent"

ReadEpisode ==
  /\ Patches("read")
  /\ LET e == patch.at IN
     \/ /\ files.file[e] = "torn"
        /\ patch' = [patch EXCEPT !.pc = "raised"]
        /\ UNCHANGED files
     \/ /\ files.file[e] \in Whole /\ NeedsBackup(e)
        /\ patch' = [patch EXCEPT !.pc = "copying"]
        /\ files' = [files EXCEPT !.backup[e] = "torn"]
     \/ /\ files.file[e] \in Whole /\ ~ NeedsBackup(e)
        /\ patch' = [patch EXCEPT !.pc = "write"]
        /\ UNCHANGED files

CopyBackup ==
  /\ Patches("copying")
  /\ files' = [files EXCEPT !.backup[patch.at] = files.file[patch.at]]
  /\ patch' = [patch EXCEPT !.pc = "write"]

\* guard[g].opened: what was opened since the guard's preflight last read it.
OpenEpisode ==
  /\ patch.pc = "write"
  /\ guard' = [g \in Guards |-> [guard[g] EXCEPT !.opened = @ \cup {patch.at}]]
  /\ files' = [files EXCEPT !.file[patch.at] = "torn"]
  /\ patch' = [patch EXCEPT
       !.pc = "writing",
       !.bare = IF files.backup[patch.at] = "absent" THEN @ \cup {patch.at} ELSE @]
  /\ UNCHANGED <<norm, train>>

WriteEpisode ==
  /\ Patches("writing")
  /\ files' = [files EXCEPT !.file[patch.at] = "nominal"]
  /\ patch' = IF patch.at + 1 < NumFiles
              THEN [patch EXCEPT !.pc = "read", !.at = @ + 1]
              ELSE [patch EXCEPT !.pc = "done"]

KillPatch ==
  /\ patch.pc \in {"copying", "write", "writing"}
  /\ patch' = [patch EXCEPT !.pc = "died", !.deaths = @ + 1]
  /\ UNCHANGED <<files, norm, guard, train>>

-----------------------------------------------------------------------------
(* The normalization, a program of another repository: it says that it     *)
(* writes, and writes.                                                     *)

NormAlive == norm.pc \in {"compute", "announced", "writing"}

NormRuns ==
  /\ \/ norm.pc = "none" /\ norm' = [norm EXCEPT !.pc = "compute"]
     \/ norm.pc = "compute" /\ norm' = [norm EXCEPT !.pc = "announced", !.log = TRUE]
     \/ norm.pc = "announced" /\ norm' = [norm EXCEPT !.pc = "writing", !.file = "torn"]
     \/ norm.pc = "writing" /\ norm' = [norm EXCEPT !.pc = "ended", !.file = "new"]
     \/ NormAlive /\ norm' = [norm EXCEPT !.pc = "died"]
  /\ UNCHANGED <<files, patch, guard, train>>

-----------------------------------------------------------------------------
(* The launch scripts, under set -e: what fails ends them. *)

Goes(g, ok, next) == guard' = [guard EXCEPT ![g].pc = IF ok THEN next ELSE "refused", ![g].at = 0]
Guarding(g, pc) == guard[g].pc = pc /\ UNCHANGED <<files, patch, norm>>

\* The link to the dataset may point elsewhere.
StartGuard(g) ==
  /\ Guarding(g, "idle")
  /\ \E linked \in BOOLEAN : Goes(g, linked \/ guard[g].script = "transport", "wait")
  /\ UNCHANGED train

WaitForNorm(g) ==
  /\ Guarding(g, "wait")
  /\ ~ NormAlive
  /\ Goes(g, norm.log /\ (guard[g].script = "transport" => norm.examples), "stats")
  /\ UNCHANGED train

\* Present, not empty, and JSON.
CheckStats(g) ==
  /\ Guarding(g, "stats")
  /\ Goes(g, norm.file \in {"old", "new"},
          IF guard[g].script = "atomic" THEN "preflight" ELSE "checkpoint")
  /\ UNCHANGED train

\* A plausible bug: the times are asked of the first episode only.
InOrderAtFirst(e) == files.sound /\ ~ files.leftover /\ (e = 0 => files.file[e] = "nominal")

\* Totals, splits and videos at the start, then the timestamps episode by episode; a file
\* that cannot be read raises.
InOrder(e) == files.sound /\ ~ files.leftover /\ files.file[e] = "nominal"

Preflight(g) ==
  /\ Guarding(g, "preflight")
  /\ LET e == guard[g].at
         left == guard[g].opened \ {e}
     IN  guard' = [guard EXCEPT ![g] =
           IF ~ InOrder(e) THEN [@ EXCEPT !.pc = "refused"]
           ELSE IF e + 1 < NumFiles THEN [@ EXCEPT !.at = e + 1, !.opened = left]
           ELSE [@ EXCEPT !.pc = "checkpoint", !.at = 0, !.opened = left]]
  /\ UNCHANGED train

CheckDestination(g) ==
  /\ Guarding(g, "checkpoint")
  /\ Goes(g, ~ train.checkpoint /\ train.pc # "running", "launch")
  /\ UNCHANGED train

\* tmux refuses a second session of the same name.
Launch(g) ==
  /\ Guarding(g, "launch")
  /\ Goes(g, train.pc # "running", "started")
  /\ train' = IF train.pc = "running" THEN train
              ELSE [train EXCEPT !.pc = "running", !.file = files.file, !.stats = norm.file,
                                 !.opened = guard[g].opened]

TrainRuns ==
  /\ train.pc = "running"
  /\ \/ ~ train.checkpoint /\ train' = [train EXCEPT !.checkpoint = TRUE]
     \/ train' = [train EXCEPT !.pc = "ended"]
  /\ UNCHANGED <<files, patch, norm, guard>>

GuardStep(g) ==
  \/ StartGuard(g) \/ WaitForNorm(g) \/ CheckStats(g) \/ Preflight(g)
  \/ CheckDestination(g) \/ Launch(g)

GateDone ==
  /\ \A g \in Guards : guard[g].pc \in {"started", "refused"}
  /\ UNCHANGED gateVars

GateNext ==
  \/ StartPatch \/ Preview \/ ReadEpisode \/ CopyBackup \/ OpenEpisode \/ WriteEpisode
  \/ KillPatch \/ NormRuns \/ TrainRuns \/ GateDone
  \/ \E g \in Guards : GuardStep(g)

-----------------------------------------------------------------------------
(***************************************************************************)
(* However often the patch is run, with or without copies, and wherever it *)
(* dies, the timestamps an episode was recorded with are still there,      *)
(* unless it was rewritten without a copy or a death cut the copy short;   *)
(* and its rows are lost only without a copy or to a second death          *)
(* ("Idempotent: safe to run multiple times").                             *)
(***************************************************************************)
RecordingKept ==
  \A e \in Files \ patch.bare :
    /\ \/ files.recorded[e] \in {files.file[e], files.backup[e]}
       \/ files.backup[e] = "torn" /\ patch.deaths > 0
    /\ files.file[e] = "torn" /\ files.backup[e] = "torn" =>
         patch.deaths > (IF patch.pc = "writing" /\ patch.at = e THEN 0 ELSE 1)

(***************************************************************************)
(* A training gets the new normalization, or an older one if the program   *)
(* died between saying that it writes and writing; and on the atomic path  *)
(* a dataset that passed: every episode is at its nominal times, recorded  *)
(* so or patched, or a patch has opened it after preflight read it and has *)
(* left it torn.  A single run of the patch during the launch is enough    *)
(* for that; an episode nobody opens meanwhile is trained on as it passed. *)
(***************************************************************************)
TrainsOnWhatPassed ==
  train.pc # "none" =>
    /\ \/ train.stats = "new"
       \/ train.stats = "old" /\ norm.pc = "died"
    /\ (\A g \in Guards : guard[g].script = "atomic") =>
         /\ files.sound
         /\ \A e \in Files :
              \/ train.file[e] = "nominal"
              \/ train.file[e] = "torn" /\ e \in train.opened
=============================================================================
