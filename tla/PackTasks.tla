------------------------------ MODULE PackTasks ------------------------------
(***************************************************************************)
(* The scripted programs around the crate: tasks/transport_pack_lift.py    *)
(* (lift_only, pack_only, pack_and_lift), tasks/transport_crate.py (crate) *)
(* and tasks/transport_load_and_carry.py (carry).  A step is a motion with *)
(* the test that follows it, if the program makes one.                     *)
(*                                                                         *)
(* The world is free: between two tests a fruit may roll to the other side *)
(* of the table, fall, or leave the crate; a grasp may miss; the crate may *)
(* slip.  What is physics is only where each thing is.                     *)
(***************************************************************************)
EXTENDS Integers, Sequences, SequencesExt

CONSTANT Fruits

VARIABLES
  job,      \* [program, objects, wheel]: the command line
  at_step,  \* the motion the program is at
  k,        \* position of the object being packed
  arm,      \* arm_side
  out,      \* the arms that are not at rest
  place,    \* where each fruit is
  side,     \* the side of the table it is on, the sign of its y
  crate,    \* where the crate is
  touched,  \* what the contact monitors have seen
  result    \* "none", "success", "failure", or "raised"

packVars == <<job, at_step, k, arm, out, place, side, crate, touched, result>>

Sides == {"right", "left"}
PackLift == {"lift_only", "pack_only", "pack_and_lift"}
Programs == PackLift \cup {"crate", "carry"}

\* _unique_fruits and the checks of main().
Orders == {s \in BoundedSeq(Fruits, 3) : IsInjective(s)}
PackJobs ==
  {j \in [program : Programs, objects : Orders, wheel : BOOLEAN] :
     /\ j.program \in {"pack_only", "pack_and_lift"} => j.objects # << >>
     /\ j.program = "carry" => Len(j.objects) = 1
     /\ j.program = "crate" => j.objects = << >>
     /\ j.wheel => j.program \in {"crate", "carry"}}

Listed == {job.objects[i] : i \in DOMAIN job.objects}
Object == job.objects[k]
Judges == job.program \in PackLift

PackInit ==
  /\ job \in PackJobs
  /\ at_step = IF job.program \in {"lift_only", "crate"} THEN "crate_grasp" ELSE "pick"
  /\ k = 1
  /\ side \in [Fruits -> Sides]
  /\ arm \in Sides         \* --arm, and auto
  /\ out = {}
  /\ place = [f \in Fruits |-> IF job.program = "lift_only" /\ f \in Listed
                               THEN "crate" ELSE "table"]
  /\ crate = "table"
  /\ touched = {}
  /\ result = "none"

To(s) == at_step' = s /\ UNCHANGED result
Stop(r) == at_step' = "end" /\ result' = r

\* At most one fruit other than f is disturbed by a motion.
Disturb(f) ==
  \/ UNCHANGED <<place, side>>
  \/ \E g \in Fruits \ {f} :
       \/ place[g] # "hand" /\ place' = [place EXCEPT ![g] = "away"] /\ UNCHANGED side
       \/ place[g] = "table" /\ UNCHANGED place
          /\ side' = [side EXCEPT ![g] = IF @ = "right" THEN "left" ELSE "right"]

\* Two arms away from rest may touch; the monitor of transport_pack_lift looks
\* 100 times a second, in every motion.
Meet(arms) ==
  \/ UNCHANGED touched
  \/ Judges /\ arms = Sides /\ touched' = touched \cup {"arms"}

\* The arm is chosen by the fruit when its turn comes; the table monitor is on
\* from here to the closed gripper.
Pick ==
  /\ at_step = "pick"
  /\ arm' = IF job.program = "carry" THEN arm ELSE side[Object]
  /\ out' = out \cup {arm'}
  /\ Disturb(Object)
  /\ \/ Meet(out')
     \/ Judges /\ touched' = touched \cup {"table"}
  /\ To("close")
  /\ UNCHANGED <<job, k, crate>>

\* transport_load_and_carry looks at the grasp and goes on without it.
Close ==
  /\ at_step = "close"
  /\ \E held \in BOOLEAN :
       /\ place' = [place EXCEPT ![Object] = IF held /\ @ = "table" THEN "hand" ELSE @]
       /\ IF Judges /\ ("table" \in touched \/ place'[Object] # "hand")
          THEN Stop("failure") ELSE To("drop")
  /\ UNCHANGED <<job, k, arm, out, side, crate, touched>>

\* Over the crate, the gripper opened, the hand drawn back, and a short hold, in
\* which what is in the crate may be pushed out.
Drop ==
  /\ at_step = "drop"
  /\ \E there \in {"crate", "away"}, out_of_crate \in SUBSET Fruits :
       place' = [f \in Fruits |->
                   CASE place[f] = "hand"                             -> there
                     [] place[f] = "crate" /\ f \in out_of_crate -> "away"
                     [] OTHER                                         -> place[f]]
  /\ Meet(out)
  /\ IF Judges /\ place'[Object] # "crate" THEN Stop("failure") ELSE To("next")
  /\ UNCHANGED <<job, k, arm, out, side, crate>>

LastObject == k = Len(job.objects)

\* A plausible bug: the arm that is going to pick is sent to rest.
ArmOfNext(f) == side[f]

\* The arm that has to leave before fruit f, if the other one picks it.
ArmInTheWay(f) == arm

\* The next fruit is on the side of the same arm.
NextObject ==
  /\ at_step = "next"
  /\ ~ LastObject
  /\ side[job.objects[k + 1]] = arm
  /\ k' = k + 1
  /\ To("pick")
  /\ UNCHANGED <<job, arm, out, place, side, crate, touched>>

\* It is on the other side: this arm returns to rest, and is waited for, before
\* the fruit is looked at again.  A wait that times out raises.
SwitchArm ==
  /\ at_step = "next"
  /\ ~ LastObject
  /\ LET f == job.objects[k + 1]
     IN  /\ side[f] # arm
         /\ out' = out \ {ArmInTheWay(f)}
         /\ Disturb("none")
         /\ Meet(out)
  /\ \/ To("pick") /\ k' = k + 1
     \/ Stop("raised") /\ UNCHANGED k
  /\ UNCHANGED <<job, arm, crate>>

AfterLast ==
  /\ at_step = "next"
  /\ LastObject
  /\ To(CASE job.program = "pack_only"     -> "judge"
          [] job.program = "pack_and_lift" -> "rest"
          [] OTHER                         -> "crate_grasp")
  /\ UNCHANGED <<job, k, arm, out, place, side, crate, touched>>

ReturnBoth ==
  /\ at_step = "rest"
  /\ out' = {}
  /\ Disturb("none")
  /\ Meet(out)
  /\ To("crate_grasp") \/ Stop("raised")
  /\ UNCHANGED <<job, k, arm, crate>>

\* Both hands to the handles.  Only transport_pack_lift stops at a bad grasp.
GraspCrate ==
  /\ at_step = "crate_grasp"
  /\ out' = Sides
  /\ Meet(out')
  /\ Disturb("none")
  /\ \/ crate' = "held" /\ To("lift")
     \/ UNCHANGED crate /\ IF Judges THEN Stop("failure") ELSE To("lift")
  /\ UNCHANGED <<job, k, arm>>

LiftCrate ==
  /\ at_step = "lift"
  /\ crate' \in IF crate = "held" THEN {"lifted", "table"} ELSE {crate}
  /\ Disturb("none")
  /\ Meet(out)
  /\ \/ ~ Judges /\ To("drive")
     \/ Judges /\ crate' = "lifted" /\ To("judge")
     \/ Judges /\ crate' # "lifted" /\ Stop("failure")
  /\ UNCHANGED <<job, k, arm, out>>

\* drive_base_with_wheels reaches each target of the drive, times out or stalls;
\* the kinematic base always arrives.  transport_crate does not ask.
Arrivals == IF job.wheel THEN {"reached", "timeout", "stalled"} ELSE {"reached"}

Drive ==
  /\ at_step = "drive"
  /\ \E first, second \in Arrivals :
       IF job.program = "carry" /\ ~ (first = "reached" /\ second = "reached")
       THEN Stop("failure") ELSE To("put")
  /\ crate' \in {crate} \cup (IF crate = "lifted" THEN {"away"} ELSE {})
  /\ Disturb("none")
  /\ UNCHANGED <<job, k, arm, out, touched>>

PutOnShelf ==
  /\ at_step = "put"
  /\ crate' \in IF crate = "lifted" THEN {"shelf", "away"} ELSE {crate}
  /\ Disturb("none")
  /\ To("judge")
  /\ UNCHANGED <<job, k, arm, out, touched>>

\* A plausible bug: only the last object is looked at again.
LastPacked == Listed = {} \/ place[Last(job.objects)] = "crate"

\* packed_ok, still_packed.
Packed == \A f \in Listed : place[f] = "crate"

JudgeTask ==
  /\ at_step = "judge"
  /\ \E drift \in BOOLEAN :
       LET good == CASE Judges                 -> Packed /\ ~ drift /\ "arms" \notin touched
                     [] job.program = "carry"  -> Packed /\ crate = "shelf"
                     [] OTHER                  -> crate = "shelf"
       IN  Stop(IF good THEN "success" ELSE "failure")
  /\ UNCHANGED <<job, k, arm, out, place, side, crate, touched>>

TaskEnded == at_step = "end" /\ UNCHANGED packVars

PackNext ==
  \/ Pick \/ Close \/ Drop \/ NextObject \/ SwitchArm \/ AfterLast \/ ReturnBoth
  \/ GraspCrate \/ LiftCrate \/ Drive \/ PutOnShelf \/ JudgeTask \/ TaskEnded

-----------------------------------------------------------------------------
(***************************************************************************)
(* Packing is done with one arm at a time: while one picks or drops, the   *)
(* other is at rest, in every order of the fruits and although the arm is  *)
(* chosen once when the last fruit is dropped and again when the next is   *)
(* picked; so the arms never meet before the crate is lifted.              *)
(***************************************************************************)
OneArmOut ==
  /\ at_step \in {"close", "drop", "next"} => out = {arm}
  /\ at_step \in {"pick", "close", "drop", "next"} => "arms" \notin touched

(***************************************************************************)
(* A success is the whole of what the prompt asks, at the end: every fruit *)
(* it names in the crate, also the one packed first, the crate lifted or   *)
(* on the shelf, and no touch of the arms on the way.                      *)
(***************************************************************************)
SuccessIsWhole ==
  result = "success" =>
    /\ \A f \in Listed : place[f] = "crate"
    /\ job.program \in {"lift_only", "pack_and_lift"} => crate = "lifted"
    /\ job.program \in {"crate", "carry"} => crate = "shelf"
    /\ Judges => touched = {}
=============================================================================
