---------------------------- MODULE HandoffTasks ----------------------------
(***************************************************************************)
(* The block programs: tasks/handoff_left_to_right.py, its mirror image    *)
(* tasks/handoff_right_to_left.py and tasks/block_pick.py, in which one    *)
(* arm does it all.  The giver picks the block, the receiver takes it in   *)
(* the air and puts it into the container, while a callback of its motions *)
(* brings the giver back to rest.  Nothing is checked on the way: a missed *)
(* grasp is acted out to the end.                                          *)
(*                                                                         *)
(* A close may miss, and the block may slip out of a gripper in any motion *)
(* under which the gripper holds it.                                       *)
(***************************************************************************)
EXTENDS Integers, Sequences, FiniteSets

VARIABLES
  program,   \* which of the three
  live,      \* --interactive-*: the receiver is left to the user
  phase,     \* the phase of run()
  wp,        \* position in the waypoints of the delivery
  gripping,  \* the grippers that have the block
  block,     \* where the block is
  missed,    \* the closes that found no block
  slipped,   \* the grippers it has slipped out of
  moving,    \* the arms that are away from rest
  ramp,      \* tenths of a second the giver still needs to be at rest
  recorded,  \* the phases of which the episode has frames
  saved      \* what was appended to the dataset

handoffVars == <<program, live, phase, wp, gripping, block, missed, slipped,
                 moving, ramp, recorded, saved>>

Arms == {"giver", "receiver"}
Taker == IF program = "block_pick" THEN "giver" ELSE "receiver"

\* The waypoints of the delivery, with what they do to the gripper and how long
\* they take.  A plausible bug: the gripper opens on the way down.
DeliverOpeningEarly ==
  << [gripper |-> "hold", tenths |-> 40], [gripper |-> "hold", tenths |-> 22],
     [gripper |-> "open", tenths |-> 14], [gripper |-> "open", tenths |-> 6],
     [gripper |-> "open", tenths |-> 16] >>

\* Lift, over the container, down, release, up.
Deliver ==
  << [gripper |-> "hold", tenths |-> 40], [gripper |-> "hold", tenths |-> 22],
     [gripper |-> "hold", tenths |-> 14], [gripper |-> "open", tenths |-> 6],
     [gripper |-> "open", tenths |-> 16] >>

RampTenths == 15

\* The arms are where the keyframe has them, the block has settled on the table.
AtRest ==
  /\ phase = "approach"
  /\ wp = 1
  /\ gripping = {}
  /\ block = "table"
  /\ missed = {}
  /\ slipped = {}
  /\ moving = {}
  /\ ramp = 0
  /\ recorded = {}
  /\ saved = "nothing"

BlockPickInit   == AtRest /\ program = "block_pick"    /\ live = FALSE
LeftToRightInit == AtRest /\ program = "left_to_right" /\ live \in BOOLEAN
RightToLeftInit == AtRest /\ program = "right_to_left" /\ live \in BOOLEAN

HandoffInit == BlockPickInit \/ LeftToRightInit \/ RightToLeftInit

\* A motion under which the grippers of held have the block.  It may slip out of
\* any of them; when none has it any more it ends up at one of places.
Keeps(held, places) ==
  \E lost \in SUBSET held :
    /\ gripping' = held \ lost
    /\ slipped' = slipped \cup lost
    /\ block' \in IF block = "air" /\ gripping' = {} THEN places ELSE {block}

\* Where the block falls while no container is under it.
Fallen == {"floor"}

\* Above the block, then down around it, with the gripper open.
GiverApproach ==
  /\ phase = "approach"
  /\ moving' = {"giver"}
  /\ phase' = "giver_close"
  /\ UNCHANGED <<program, live, wp, gripping, block, missed, slipped, ramp, saved>>

\* Close until contact, then a squeeze.  It takes the block from the table or
\* finds none.
GiverClose ==
  /\ phase = "giver_close"
  /\ \/ gripping' = {"giver"} /\ block' = "air" /\ UNCHANGED missed
     \/ missed' = {"giver"} /\ UNCHANGED <<gripping, block>>
  /\ phase' = IF program = "block_pick" THEN "deliver" ELSE "lift"
  /\ UNCHANGED <<program, live, wp, slipped, moving, ramp, saved>>

\* A phase that moves arms with the grippers as they are.
MoveOn(from, arms, next) ==
  /\ phase = from
  /\ Keeps(gripping, Fallen)
  /\ moving' = moving \cup arms
  /\ phase' = next
  /\ UNCHANGED <<program, live, wp, missed, ramp, saved>>

\* Straight up, the gripper as the close left it.
LiftBlock == MoveOn("lift", {"giver"}, "carry")

\* To the place of the handoff, the wrist turned with the block in it; the
\* interactive mode leaves the script there.
CarryBlock == MoveOn("carry", {"giver"}, IF live THEN "user" ELSE "pre_approach")

\* The user drags the receiver's arm, which may push the block out of the giver's
\* gripper; nothing commands a gripper and on_step is not called.  Without a
\* viewer the mode returns at once.
UserControl ==
  /\ phase = "user"
  /\ phase' = "judge"
  /\ \/ UNCHANGED <<gripping, block, slipped, moving>>
     \/ moving' = Arms /\ Keeps(gripping, {"container"} \cup Fallen)
  /\ UNCHANGED <<program, live, wp, missed, ramp, saved>>

\* The receiver beside the block, its wrist turned to the free faces, and then
\* around the block, with its gripper open.
PreApproach      == MoveOn("pre_approach", {"receiver"}, "twist")
TwistWrist       == MoveOn("twist", {"receiver"}, "receiver_approach")
ReceiverApproach == MoveOn("receiver_approach", {"receiver"}, "receiver_close")

\* Both arms have the block, if the giver still has it; one that lies on the table
\* is out of the receiver's reach.
ReceiverClose ==
  /\ phase = "receiver_close"
  /\ \/ /\ block = "air"
        /\ Keeps(gripping \cup {"receiver"}, Fallen)
        /\ UNCHANGED missed
     \/ /\ Keeps(gripping, Fallen)
        /\ missed' = missed \cup {"receiver"}
  /\ phase' = "giver_open"
  /\ UNCHANGED <<program, live, wp, moving, ramp, saved>>

\* The block is held by the receiver alone, or falls; the program only prints it.
GiverOpen ==
  /\ phase = "giver_open"
  /\ Keeps(gripping \ {"giver"}, Fallen)
  /\ phase' = "retract"
  /\ UNCHANGED <<program, live, wp, missed, moving, ramp, saved>>

\* The giver clears the way; its ramp starts with the delivery.
GiverRetract ==
  /\ phase = "retract"
  /\ Keeps(gripping, Fallen)
  /\ ramp' = RampTenths
  /\ phase' = "deliver"
  /\ UNCHANGED <<program, live, wp, missed, moving, saved>>

\* The callback of the receiver's motions steps the giver towards rest too.
BackgroundRamp(tenths) ==
  /\ ramp' = IF ramp > tenths THEN ramp - tenths ELSE 0
  /\ moving' = IF program # "block_pick" /\ ramp' = 0
               THEN moving \ {"giver"} ELSE moving

\* The second and third waypoint bring the block over the container and down into
\* it; what is let go after them is in it.
Below == CASE wp = 1        -> Fallen
           [] wp \in {2, 3} -> {"container"} \cup Fallen
           [] OTHER         -> {"container"}

DeliverWaypoint ==
  /\ phase = "deliver"
  /\ LET w == Deliver[wp]
     IN  /\ Keeps(IF w.gripper = "open" THEN gripping \ {Taker} ELSE gripping, Below)
         /\ BackgroundRamp(w.tenths)
  /\ wp' = wp + 1
  /\ phase' = IF wp = Len(Deliver) THEN "return" ELSE "deliver"
  /\ UNCHANGED <<program, live, missed, saved>>

\* The taker returns to rest with its gripper as it is.
ReturnTaker ==
  /\ phase = "return"
  /\ moving' = moving \ {Taker}
  /\ phase' = "hold"
  /\ UNCHANGED <<program, live, wp, gripping, block, missed, slipped, ramp, saved>>

\* The scene settles with nothing commanded.
TailHold == MoveOn("hold", {}, "judge")

\* check_success looks at the place of the block alone.
Success == block = "container"

JudgeBlock ==
  /\ phase = "judge"
  /\ phase' = IF Success THEN "save" ELSE "save_failed"
  /\ UNCHANGED <<program, live, wp, gripping, block, missed, slipped, moving, ramp, saved>>

\* Only with --log-dataset, a failure only with --save-failed, which marks its
\* prompt.
SaveEpisode ==
  /\ phase \in {"save", "save_failed"}
  /\ phase' = "end"
  /\ saved' \in {"nothing", IF phase = "save" THEN "episode" ELSE "[FAIL]"}
  /\ UNCHANGED <<program, live, wp, gripping, block, missed, slipped, moving, ramp>>

HandoffEnded == phase = "end" /\ UNCHANGED handoffVars

\* Every step of the simulation under the script gives the episode its frame.
OnStep == recorded' = recorded \cup {phase}

ScriptStep ==
  \/ GiverApproach \/ GiverClose \/ LiftBlock \/ CarryBlock \/ PreApproach
  \/ TwistWrist \/ ReceiverApproach \/ ReceiverClose \/ GiverOpen
  \/ GiverRetract \/ DeliverWaypoint \/ ReturnTaker \/ TailHold

HandoffNext ==
  \/ ScriptStep /\ OnStep
  \/ (UserControl \/ JudgeBlock \/ SaveEpisode) /\ UNCHANGED recorded
  \/ HandoffEnded

-----------------------------------------------------------------------------
(***************************************************************************)
(* The block changes hands without being let go: no gripper opens on it    *)
(* before the other has it or the container is below, so it falls only     *)
(* after a missed close or out of a gripper it slipped from, and is        *)
(* delivered when the taker found it and kept it.  By then both arms are   *)
(* back at rest, whatever was missed, although only the taker's return is  *)
(* waited for.  Nothing is checked on the way but the place at the end;    *)
(* still an unmarked episode of a script is one in which every close found *)
(* the block, and shows them and the delivery.  One left to a user shows   *)
(* nothing of what brought the block into the container.                   *)
(***************************************************************************)
HandedOver ==
  /\ block = "floor" => slipped # {} \/ "receiver" \in missed
  /\ Taker \notin missed \cup slipped =>
       /\ phase = "deliver" /\ wp <= 4 => Taker \in gripping
       /\ phase = "judge" /\ ~ live => block = "container"
  /\ phase = "judge" /\ ~ live => moving = {} /\ gripping = {}
  /\ saved = "episode" /\ ~ live =>
       missed = {} /\ {"giver_close", "deliver", "hold"} \subseteq recorded
  /\ saved = "episode" /\ live =>
       "giver" \in slipped /\ recorded = {"approach", "giver_close", "lift", "carry"}
=============================================================================
