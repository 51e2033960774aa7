------------------------------ MODULE MCTasks ------------------------------
(* One of the scripted programs, chosen at the start, for TLC. *)
EXTENDS TaskRollout

CONSTANT Fruits

VARIABLES script,
  p_job, at_step, k, arm, out, place, side, crate, touched, result,
  program, live, h_phase, wp, gripping, block, missed, slipped, moving, ramp,
  recorded, h_saved

Pack == INSTANCE PackTasks WITH job <- p_job
Handoff == INSTANCE HandoffTasks WITH phase <- h_phase, saved <- h_saved

packVars == <<p_job, at_step, k, arm, out, place, side, crate, touched, result>>
handoffVars == <<program, live, h_phase, wp, gripping, block, missed, slipped,
                 moving, ramp, recorded, h_saved>>

\* A program that does not run stays in one of its initial states.
TasksInit ==
  /\ script \in {"atomic", "pack", "handoff"}
  /\ IF script = "atomic" THEN Init
     ELSE Init /\ job = [task |-> "place_one", recovery |-> "none", pace |-> Every]
               /\ target = "table"
  /\ Pack!PackInit
  /\ script # "pack" =>
       /\ p_job = [program |-> "crate", objects |-> << >>, wheel |-> FALSE]
       /\ side = [f \in Fruits |-> "right"]
       /\ arm = "right"
  /\ Handoff!HandoffInit
  /\ script # "handoff" => program = "block_pick" /\ ~ live

TasksNext ==
  \/ script = "atomic"  /\ Next /\ UNCHANGED <<script, packVars, handoffVars>>
  \/ script = "pack"    /\ Pack!PackNext /\ UNCHANGED <<script, vars, handoffVars>>
  \/ script = "handoff" /\ Handoff!HandoffNext /\ UNCHANGED <<script, vars, packVars>>

TasksSpec == TasksInit /\ [][TasksNext]_<<script, vars, packVars, handoffVars>>

(* Packing is done with one arm at a time. *)
OneArmOut == Pack!OneArmOut

(* A success of the crate programs is the whole of what the prompt asks. *)
SuccessIsWhole == Pack!SuccessIsWhole

(* The block changes hands without being let go. *)
HandedOver == Handoff!HandedOver
=============================================================================
