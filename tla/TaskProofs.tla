----------------------------- MODULE TaskProofs -----------------------------
(***************************************************************************)
(* What the scripted programs promise, for every set of fruits, every      *)
(* command line and every disturbance of the scene: the packing programs   *)
(* of PackTasks and the block programs of HandoffTasks.                    *)
(*                                                                         *)
(* Each invariant says what a program may rely on at a step of its script, *)
(* which is more than it looks at there.                                   *)
(***************************************************************************)
EXTENDS MCTasks, SequenceTheorems, FiniteSetTheorems, TLAPS

-----------------------------------------------------------------------------
(* The packing programs. *)

InPacking == at_step \in {"pick", "close", "drop", "next"}

\* A carry has one fruit, so it never turns to another; the shelf alone has none.
JobInv ==
  /\ p_job.program \in Pack!Programs
  /\ p_job.program = "carry" => Len(p_job.objects) = 1 /\ k = 1
  /\ p_job.program = "crate" => p_job.objects = << >>

\* Between two fruits the only arm that is out is the one the next fruit needs.
ArmsInv ==
  /\ at_step = "pick" =>
       \/ out = {}
       \/ p_job.program # "carry" /\ out \subseteq {side[p_job.objects[k]]}
  /\ at_step \in {"close", "drop", "next"} => out = {arm}
  /\ InPacking => "arms" \notin touched

\* A table contact is met with before the fruit is lifted, a program that judges
\* does not drive, and a crate that it judges has been lifted.
JudgedInv ==
  /\ touched \subseteq {"arms", "table"}
  /\ at_step # "end" => result = "none"
  /\ Pack!Judges /\ at_step \notin {"close", "end"} => "table" \notin touched
  /\ at_step \in {"drive", "put"} => ~ Pack!Judges
  /\ p_job.program \in {"lift_only", "pack_and_lift"} /\ at_step = "judge" =>
       crate = "lifted"
  /\ Pack!SuccessIsWhole

PackInv == JobInv /\ ArmsInv /\ JudgedInv

-----------------------------------------------------------------------------
(* The block programs. *)

Programs == {"block_pick", "left_to_right", "right_to_left"}
Early == {"approach", "giver_close"}
GiverHas == {"lift", "carry", "user", "pre_approach", "twist", "receiver_approach",
             "receiver_close"}
Delivered == {"return", "hold"}
Verdicts == {"judge", "save", "save_failed", "end"}
TwoArms == (GiverHas \ {"user"}) \cup {"giver_open", "retract"}

HandoffTypes ==
  /\ program \in Programs
  /\ live \in BOOLEAN
  /\ h_phase \in Early \cup TwoArms \cup {"user", "deliver"} \cup Delivered \cup Verdicts
  /\ wp \in 1 .. 6
  /\ h_phase = "deliver" => wp <= 5
  /\ gripping \subseteq Handoff!Arms
  /\ block \in {"table", "air", "floor", "container"}
  /\ missed \subseteq Handoff!Arms
  /\ slipped \subseteq Handoff!Arms
  /\ moving \subseteq Handoff!Arms
  /\ ramp \in Nat

\* Which phases a program has.
RouteInv ==
  /\ program = "block_pick" => ~ live /\ h_phase \notin TwoArms \cup {"user"}
  /\ live => h_phase \notin {"pre_approach", "twist", "receiver_approach", "receiver_close",
                             "giver_open", "retract", "deliver"} \cup Delivered
  /\ h_phase = "user" => live
  /\ h_phase \in Early \cup TwoArms => wp = 1

\* The block is in the air as long as a gripper has it, and which may.
GripInv ==
  /\ block = "air" <=> gripping # {}
  /\ h_phase \in Early => block = "table" /\ missed = {} /\ slipped = {}
  /\ h_phase \in GiverHas => gripping \subseteq {"giver"} /\ block # "container"
  /\ h_phase = "retract" => gripping \subseteq {"receiver"}
  /\ h_phase = "deliver" => gripping \subseteq {Handoff!Taker}
  /\ h_phase = "deliver" /\ wp = 5 => gripping = {}
  /\ h_phase \in Delivered => gripping = {}
  /\ h_phase = "judge" /\ ~ live => gripping = {}

\* From its close until it opens a gripper has the block, missed it or lost it.
TakenInv ==
  /\ h_phase \in GiverHas => "giver" \in gripping \cup missed \cup slipped
  /\ h_phase \in {"giver_open", "retract"} =>
       "receiver" \in gripping \cup missed \cup slipped
  /\ h_phase = "deliver" /\ wp <= 4 => Handoff!Taker \in gripping \cup missed \cup slipped

\* What the giver missed stays on the table, and what the receiver missed falls
\* when the giver opens, or is not there any more.
MissInv ==
  /\ "giver" \in missed => block = "table"
  /\ "receiver" \in missed =>
       /\ h_phase \notin Early \cup GiverHas
       /\ h_phase = "giver_open" => gripping \subseteq {"giver"}
       /\ h_phase # "giver_open" => gripping = {}
       /\ block # "container"

\* Where the block falls, and where it is delivered.
FallInv ==
  /\ block = "floor" => slipped # {} \/ "receiver" \in missed
  /\ Handoff!Taker \notin missed \cup slipped =>
       /\ h_phase = "deliver" /\ wp = 5 => block = "container"
       /\ h_phase \in Delivered => block = "container"
       /\ h_phase = "judge" /\ ~ live => block = "container"
  /\ block = "container" /\ live => "giver" \in slipped
  /\ h_phase = "save" \/ h_saved = "episode" => block = "container"

\* The arms that are not at rest, once the delivery has begun: the ramp of the
\* giver is shorter than its first waypoint.
RestInv ==
  /\ program = "block_pick" => moving \subseteq {"giver"}
  /\ h_phase = "deliver" /\ program # "block_pick" /\ wp = 1 => ramp = Handoff!RampTenths
  /\ h_phase = "deliver" /\ wp > 1 => moving \subseteq {Handoff!Taker}
  /\ h_phase = "deliver" /\ program # "block_pick" /\ wp > 1 => ramp = 0
  /\ h_phase = "return" => moving \subseteq {Handoff!Taker}
  /\ h_phase = "hold" => moving = {}
  /\ h_phase = "judge" /\ ~ live => moving = {}

\* What the episode has frames of.
FramesInv ==
  /\ h_phase \notin Early => "giver_close" \in recorded
  /\ h_phase \in Delivered => "deliver" \in recorded
  /\ h_phase = "deliver" /\ wp > 1 => "deliver" \in recorded
  /\ h_phase \in {"judge", "save", "save_failed"} /\ ~ live =>
       "deliver" \in recorded /\ "hold" \in recorded
  /\ h_saved = "episode" => h_phase = "end"
  /\ h_saved = "episode" /\ ~ live => {"giver_close", "deliver", "hold"} \subseteq recorded
  /\ h_phase = "approach" => recorded = {}
  /\ h_phase = "giver_close" => recorded = {"approach"}
  /\ h_phase = "lift" => recorded = {"approach", "giver_close"}
  /\ h_phase = "carry" => recorded = {"approach", "giver_close", "lift"}
  /\ h_phase \in {"user"} \cup Verdicts /\ live =>
       recorded = {"approach", "giver_close", "lift", "carry"}

\* Who has the block, who had it and where it is.
BlockInv == GripInv /\ TakenInv /\ MissInv /\ FallInv

HandoffInv ==
  /\ HandoffTypes
  /\ RouteInv
  /\ BlockInv
  /\ RestInv
  /\ FramesInv

-----------------------------------------------------------------------------
(* The rollout of transport_atomic. *)

AfterVerify == {"lift", "transport", "lower", "release", "release_verify", "retreat",
                "settle", "judge"}
AfterJudge == {"return", "mark", "terminal_hold", "judge_hold"}
Over == {"finish", "saved", "dropped"}
OfPlace == {"approach", "prefix", "prefix_align", "prefix_close", "reopen",
            "recovery_retreat", "pregrasp", "close", "verify"} \cup AfterVerify
           \cup (AfterJudge \ {"terminal_hold"})
OfLift == {"basket_approach", "basket_grasp", "basket_lift", "judge_lift"}

RolloutTypes ==
  /\ job \in Jobs
  /\ clock \in Nat
  /\ look \in Nat
  /\ pc \in {"initial_hold", "terminal_hold"} \cup OfPlace \cup OfLift \cup Over
  /\ pc \in OfPlace => job.task = "place_one"
  /\ pc \in OfLift => job.task = "lift_basket"
  /\ watching => pc \in {"pregrasp", "close"}
  /\ pc \notin Over => outcome = "none"
  /\ pc = "saved" => outcome = "success"

\* What the monitors know of a mishap.  What lasts until the next look is noticed
\* by it, and a fruit that stays away by the first frame of the next motion.
SeenInv ==
  \A h \in happened :
    /\ h.kind \in Kinds
    /\ h.kind \in {"arms", "camera"} => h.watched
    /\ h.kind \notin Contacts => (h.watched <=> job.task = "place_one")
    /\ h.watched /\ ~ h.brief => h.kind \in seen
    /\ h.stays => h.kind \notin Contacts
    /\ h.stays /\ h.watched => h.kind \in seen \/ (h.brief /\ h.phase = phase)

\* What the program has made sure of by the time it is at a step.
SureInv ==
  /\ pc \in AfterVerify =>
       /\ "table" \notin seen /\ "camera" \notin seen
       /\ checks \subseteq {"wrist_camera_view_valid", "fully_released"}
  /\ pc = "judge" => phase = "target_settle"
  /\ pc \in AfterJudge /\ job.task = "place_one" =>
       \A h \in happened : h.kind = "arms" \/ Unseen(h)
  /\ outcome = "success" => \A h \in happened : Unseen(h)

RolloutInv == RolloutTypes /\ SeenInv /\ SureInv

-----------------------------------------------------------------------------
(* The frames of a rollout, the events that point at them and the checks. *)

BeforeClose == {"initial_hold", "prefix", "prefix_align", "prefix_close", "reopen",
                "recovery_retreat", "approach", "pregrasp", "close"}
AfterReturn == {"mark", "terminal_hold", "judge_hold", "judge_lift"} \cup Over
AfterRetreat == {"settle", "judge", "return"} \cup AfterReturn
AfterRelease == {"release_verify", "retreat"} \cup AfterRetreat
AfterHold == {"judge_hold", "judge_lift"} \cup Over

Phases == {"initial_hold", "approach", "pregrasp_align", "gripper_close",
           "recovery_reopen", "recovery_retreat", "grasp_verify", "lift_from_table",
           "transport", "lower_into_basket", "release", "release_verify", "retreat",
           "target_settle", "return_to_ready", "terminal_hold",
           "basket_approach", "basket_grasp", "basket_lift"}

FrameTypes ==
  /\ frames \in Seq(Phases)
  /\ events \in [Events -> Nat \cup {Unset}]
  /\ \A e \in Events : events[e] <= Len(frames)
  /\ pc \in Over => outcome # "none"

\* Every rollout starts with a second of the initial hold, and its last frame is
\* of the last motion.
HeadInv ==
  IF pc = "initial_hold" THEN frames = << >>
  ELSE
    /\ Len(frames) >= Fps
    /\ \A i \in 1 .. Fps : frames[i] = "initial_hold"
    /\ frames[Len(frames)] = phase

\* A rollout that can still be saved.
Promising == pc \notin Over \/ outcome = "success"

Nowhere(es) == \A e \in es : events[e] = Unset

\* Where the events of a grasp are: the close of a recovery is none of them.
GraspInv ==
  /\ pc \in BeforeClose =>
       Nowhere({"grasp_close_start", "grasp_verify_start", "grasp_verified"})
  /\ pc = "verify" =>
       /\ Nowhere({"grasp_verify_start", "grasp_verified"})
       /\ events["grasp_close_start"] # Unset
       /\ events["grasp_close_start"] < Len(frames)
       /\ \A i \in events["grasp_close_start"] + 1 .. Len(frames) :
            frames[i] = "gripper_close"
  /\ pc \in AfterVerify \cup AfterJudge \cup Over =>
       /\ events["grasp_close_start"] # Unset /\ events["grasp_verify_start"] # Unset
       /\ Between("grasp_close_start", "grasp_verify_start", "gripper_close")
       /\ Between("grasp_verify_start", "grasp_verified", "grasp_verify")

\* A motion whose two events are noted at one step: before and after it.
MarkedAfter(later, e, f, p) ==
  IF pc \in later THEN events[e] # Unset /\ Between(e, f, p) ELSE Nowhere({e, f})

PlaceMarks ==
  /\ GraspInv
  /\ MarkedAfter(AfterRelease, "release_start", "release_end", "release")
  /\ MarkedAfter(AfterRetreat, "retreat_start", "retreat_end", "retreat")
  /\ MarkedAfter(AfterReturn, "return_start", "return_end", "return_to_ready")
  /\ pc \in AfterRetreat => events["release_end"] <= events["retreat_start"]
  /\ pc \in AfterReturn => events["retreat_end"] <= events["return_start"]
  /\ pc \in AfterReturn \ {"mark"} =>
       events["success"] # Unset /\ events["return_end"] <= events["success"]
  /\ pc \in AfterHold => events["success"] <= events["terminal_hold_start"]

HoldMarks ==
  /\ MarkedAfter(AfterHold, "terminal_hold_start", "terminal_hold_end", "terminal_hold")
  /\ pc \in AfterHold =>
       events["terminal_hold_end"] - events["terminal_hold_start"] >= Fps

\* The closes in the frames are those the program counts, and one that finds
\* nothing is a retry.
ClosesInv ==
  /\ grasps \in [attempts : Nat, retries : Nat]
  /\ grasps.attempts = Runs("gripper_close")
  /\ pc \in BeforeClose => grasps.retries = grasps.attempts
  /\ pc \notin BeforeClose => grasps.retries = grasps.attempts - 1
  /\ pc \in {"prefix_close", "close"} => phase # "gripper_close"

\* What a rollout has been found to be by the time it is at a step.
PlaceChecks ==
  /\ pc \in AfterVerify \cup AfterJudge => "wrist_camera_view_valid" \in checks
  /\ pc \in AfterJudge =>
       {"target_newly_inside", "fully_released", "non_target_unchanged",
        "preloaded_fruits_remain", "safe_retreat"} \subseteq checks
  /\ pc \in Over => Required \subseteq checks

LiftChecks == pc \in Over => Required \subseteq checks

MarksInv ==
  Promising =>
    /\ HoldMarks
    /\ job.task = "place_one" => PlaceMarks /\ ClosesInv /\ PlaceChecks
    /\ job.task = "lift_basket" => LiftChecks

FrameInv == FrameTypes /\ HeadInv /\ MarksInv

-----------------------------------------------------------------------------
(* The packing programs keep their invariant. *)

\* A program that does not run, and one that has ended, changes nothing.
LEMMA PackRests == PackInv /\ UNCHANGED packVars => PackInv'
BY DEF PackInv, JobInv, ArmsInv, InPacking, JudgedInv, packVars, Pack!Judges,
   Pack!SuccessIsWhole, Pack!Listed

\* Every program starts with its arms at rest and nothing touched.
LEMMA PackStarts == Pack!PackInit => PackInv
<1> SUFFICES ASSUME Pack!PackInit PROVE PackInv
  OBVIOUS
<1>1. JobInv
  BY DEF JobInv, Pack!PackInit, Pack!PackJobs
<1>2. ArmsInv
  BY DEF ArmsInv, InPacking, Pack!PackInit
<1>3. JudgedInv
  BY DEF JudgedInv, Pack!PackInit, Pack!SuccessIsWhole
<1> QED
  BY <1>1, <1>2, <1>3 DEF PackInv

\* A command line is never changed, so what it asks for is not.
LEMMA SameJob ==
  ASSUME UNCHANGED p_job
  PROVE  /\ (Pack!Judges <=> Pack!Judges')
         /\ Pack!Listed' = Pack!Listed
BY DEF Pack!Judges, Pack!Listed

\* A program that goes on, or stops short of a success, has claimed nothing.
LEMMA NoClaim ==
  ASSUME at_step # "end" => result = "none", at_step # "end",
         result' \in {"none", "failure", "raised"} \/ result' = result
  PROVE  Pack!SuccessIsWhole'
BY DEF Pack!SuccessIsWhole

\* What two arms that meet may add to the touches.
LEMMA MeetTouches ==
  ASSUME NEW arms, Pack!Meet(arms), touched \subseteq {"arms", "table"}
  PROVE  /\ touched' \subseteq {"arms", "table"}
         /\ "table" \in touched' => "table" \in touched
         /\ arms # Pack!Sides => touched' = touched
BY DEF Pack!Meet

\* One arm is not both.
LEMMA OneIsNotBoth == \A x : {x} # Pack!Sides
BY DEF Pack!Sides

\* The arm goes to the fruit it was chosen for.
LEMMA PickStep == PackInv /\ Pack!Pick => PackInv'
<1> SUFFICES ASSUME PackInv, Pack!Pick PROVE PackInv'
  OBVIOUS
<1>1. /\ at_step = "pick" /\ at_step' = "close" /\ result' = result
      /\ out' = out \cup {arm'}
      /\ arm' = IF p_job.program = "carry" THEN arm ELSE side[Pack!Object]
      /\ \/ Pack!Meet(out')
         \/ Pack!Judges /\ touched' = touched \cup {"table"}
      /\ UNCHANGED <<p_job, k, crate>>
  BY DEF Pack!Pick, Pack!To
<1>2. out' = {arm'}
  BY <1>1 DEF PackInv, ArmsInv, Pack!Object
<1>3. touched' = touched \/ touched' = touched \cup {"table"}
  BY <1>1, <1>2, OneIsNotBoth, MeetTouches DEF PackInv, JudgedInv
<1>4. JobInv' /\ ArmsInv'
  BY <1>1, <1>2, <1>3 DEF PackInv, JobInv, ArmsInv, InPacking
<1>5. JudgedInv'
  BY <1>1, <1>3, NoClaim DEF PackInv, JudgedInv
<1> QED
  BY <1>4, <1>5 DEF PackInv

\* A program that judges goes on only with the fruit in the hand and no touch.
LEMMA CloseStep == PackInv /\ Pack!Close => PackInv'
<1> SUFFICES ASSUME PackInv, Pack!Close PROVE PackInv'
  OBVIOUS
<1>1. /\ at_step = "close"
      /\ \/ at_step' = "end" /\ result' = "failure"
         \/ /\ at_step' = "drop" /\ result' = result
            /\ Pack!Judges => "table" \notin touched
      /\ UNCHANGED <<p_job, k, arm, out, side, crate, touched>>
  BY DEF Pack!Close, Pack!To, Pack!Stop
<1>2. JobInv' /\ ArmsInv'
  BY <1>1 DEF PackInv, JobInv, ArmsInv, InPacking
<1>3. JudgedInv'
  BY <1>1, SameJob, NoClaim DEF PackInv, JudgedInv
<1> QED
  BY <1>2, <1>3 DEF PackInv

\* The arms do not meet while one of them is at rest.
LEMMA DropStep == PackInv /\ Pack!Drop => PackInv'
<1> SUFFICES ASSUME PackInv, Pack!Drop PROVE PackInv'
  OBVIOUS
<1>1. /\ at_step = "drop" /\ Pack!Meet(out)
      /\ \/ at_step' = "end" /\ result' = "failure"
         \/ at_step' = "next" /\ result' = result
      /\ UNCHANGED <<p_job, k, arm, out, side, crate>>
  BY DEF Pack!Drop, Pack!To, Pack!Stop
<1>2. touched' = touched
  BY <1>1, OneIsNotBoth, MeetTouches DEF PackInv, ArmsInv, JudgedInv
<1>3. JobInv' /\ ArmsInv'
  BY <1>1, <1>2 DEF PackInv, JobInv, ArmsInv, InPacking
<1>4. JudgedInv'
  BY <1>1, <1>2, SameJob, NoClaim DEF PackInv, JudgedInv
<1> QED
  BY <1>3, <1>4 DEF PackInv

\* The next fruit: with the same arm, or with the other after this one is at rest.
LEMMA NextFruitStep == PackInv /\ (Pack!NextObject \/ Pack!SwitchArm) => PackInv'
<1> SUFFICES ASSUME PackInv, Pack!NextObject \/ Pack!SwitchArm PROVE PackInv'
  OBVIOUS
<1>1. /\ at_step = "next" /\ out = {arm} /\ k # Len(p_job.objects)
      /\ UNCHANGED <<p_job, arm, crate>>
  BY DEF Pack!NextObject, Pack!SwitchArm, Pack!LastObject, PackInv, ArmsInv
<1>2. p_job.program # "carry"
  BY <1>1 DEF PackInv, JobInv
<1>3. CASE Pack!NextObject
  <2>1. /\ side[p_job.objects[k + 1]] = arm /\ k' = k + 1
        /\ at_step' = "pick"
        /\ UNCHANGED <<out, side, touched, result>>
    BY <1>3 DEF Pack!NextObject, Pack!To
  <2>2. side'[p_job'.objects[k']] = arm
    BY <1>1, <2>1
  <2>3. JobInv' /\ ArmsInv'
    BY <1>1, <1>2, <2>1, <2>2 DEF PackInv, JobInv, ArmsInv, InPacking
  <2>4. JudgedInv'
    BY <1>1, <2>1, SameJob, NoClaim DEF PackInv, JudgedInv
  <2> QED
    BY <2>3, <2>4 DEF PackInv
<1>4. CASE Pack!SwitchArm
  <2>1. /\ out' = {}
        /\ Pack!Meet(out)
        /\ \/ at_step' = "pick" /\ result' = result
           \/ at_step' = "end" /\ result' = "raised"
    BY <1>1, <1>4 DEF Pack!SwitchArm, Pack!ArmInTheWay, Pack!To, Pack!Stop
  <2>2. touched' = touched
    BY <1>1, <2>1, OneIsNotBoth, MeetTouches DEF PackInv, JudgedInv
  <2>3. JobInv' /\ ArmsInv'
    BY <1>1, <1>2, <2>1, <2>2 DEF PackInv, JobInv, ArmsInv, InPacking
  <2>4. JudgedInv'
    BY <1>1, <2>1, <2>2, SameJob, NoClaim DEF PackInv, JudgedInv
  <2> QED
    BY <2>3, <2>4 DEF PackInv
<1> QED
  BY <1>3, <1>4

\* From the last fruit to the crate; pack_only goes to the judgement.
LEMMA AfterLastStep == PackInv /\ Pack!AfterLast => PackInv'
<1> SUFFICES ASSUME PackInv, Pack!AfterLast PROVE PackInv'
  OBVIOUS
<1>1. /\ at_step = "next" /\ at_step' \in {"judge", "rest", "crate_grasp"}
      /\ at_step' = "judge" => p_job.program = "pack_only"
      /\ UNCHANGED <<p_job, k, arm, out, place, side, crate, touched, result>>
  <2>1. p_job.program = "pack_only" \/ p_job.program # "pack_only"
    OBVIOUS
  <2> QED
    BY DEF Pack!AfterLast, Pack!To
<1>2. JobInv' /\ ArmsInv'
  BY <1>1 DEF PackInv, JobInv, ArmsInv, InPacking
<1>3. JudgedInv'
  BY <1>1, SameJob, NoClaim DEF PackInv, JudgedInv
<1> QED
  BY <1>2, <1>3 DEF PackInv

\* What a program does with the crate, apart from where the crate is.
LEMMA CrateStep ==
  ASSUME PackInv,
         at_step \in {"rest", "crate_grasp", "lift", "drive", "put"},
         \/ at_step' \in {"crate_grasp", "lift", "drive", "put", "judge"} /\ result' = result
         \/ at_step' = "end" /\ result' \in {"failure", "raised"},
         touched' = touched \/ \E arms : Pack!Meet(arms),
         p_job' = p_job, k' = k,
         at_step' \in {"drive", "put"} => ~ Pack!Judges,
         at_step' = "judge" => crate' = "lifted" \/ ~ Pack!Judges
  PROVE  PackInv'
<1>1. /\ touched' \subseteq {"arms", "table"}
      /\ "table" \in touched' => "table" \in touched
  BY MeetTouches DEF PackInv, JudgedInv
<1>2. JobInv' /\ ArmsInv'
  BY DEF PackInv, JobInv, ArmsInv, InPacking
<1>3. Pack!SuccessIsWhole'
  BY NoClaim DEF PackInv, JudgedInv
<1>4. p_job.program \in {"lift_only", "pack_and_lift"} => Pack!Judges
  BY DEF Pack!Judges, Pack!PackLift
<1>5. JudgedInv'
  BY <1>1, <1>3, <1>4, SameJob DEF PackInv, JudgedInv
<1> QED
  BY <1>2, <1>5 DEF PackInv

\* The end: a success is claimed of what is true of the scene now, and of no touch.
LEMMA JudgeStep == PackInv /\ Pack!JudgeTask => PackInv'
<1> SUFFICES ASSUME PackInv, Pack!JudgeTask PROVE PackInv'
  OBVIOUS
<1>1. /\ at_step = "judge" /\ at_step' = "end"
      /\ UNCHANGED <<p_job, k, arm, out, place, side, crate, touched>>
  BY DEF Pack!JudgeTask, Pack!Stop
<1>2. JobInv' /\ ArmsInv'
  BY <1>1 DEF PackInv, JobInv, ArmsInv, InPacking
<1>3. ASSUME result' = "success" PROVE Pack!SuccessIsWhole'
  <2>1. PICK drift \in BOOLEAN :
          CASE Pack!Judges              -> Pack!Packed /\ ~ drift /\ "arms" \notin touched
            [] p_job.program = "carry"  -> Pack!Packed /\ crate = "shelf"
            [] OTHER                    -> crate = "shelf"
    BY <1>3 DEF Pack!JudgeTask, Pack!Stop
  <2>2. CASE Pack!Judges
    <3>1. Pack!Packed /\ "arms" \notin touched
      BY <2>1, <2>2 DEF Pack!Judges, Pack!PackLift
    <3>2. touched = {}
      BY <1>1, <2>2, <3>1 DEF PackInv, JudgedInv
    <3>3. p_job.program \in {"lift_only", "pack_and_lift"} => crate = "lifted"
      BY <1>1 DEF PackInv, JudgedInv
    <3> QED
      BY <1>1, <2>2, <3>1, <3>2, <3>3, SameJob
         DEF Pack!SuccessIsWhole, Pack!Packed, Pack!Judges, Pack!PackLift
  <2>3. CASE ~ Pack!Judges /\ p_job.program = "carry"
    <3>1. Pack!Packed /\ crate = "shelf"
      BY <2>1, <2>3
    <3> QED
      BY <1>1, <2>3, <3>1, SameJob DEF Pack!SuccessIsWhole, Pack!Packed
  <2>4. CASE ~ Pack!Judges /\ p_job.program # "carry"
    <3>1. p_job.program = "crate" /\ Pack!Listed = {}
      BY <2>4 DEF PackInv, JobInv, Pack!Judges, Pack!Programs, Pack!Listed
    <3>2. crate = "shelf"
      BY <2>1, <2>4
    <3> QED
      BY <1>1, <2>4, <3>1, <3>2, SameJob DEF Pack!SuccessIsWhole
  <2> QED
    BY <2>2, <2>3, <2>4
<1>4. Pack!SuccessIsWhole'
  BY <1>3 DEF Pack!SuccessIsWhole
<1>5. JudgedInv'
  BY <1>1, <1>4, SameJob DEF PackInv, JudgedInv
<1> QED
  BY <1>2, <1>5 DEF PackInv

\* Every step of a packing program keeps the invariant.
LEMMA PackKeeps == PackInv /\ Pack!PackNext => PackInv'
<1> SUFFICES ASSUME PackInv, Pack!PackNext PROVE PackInv'
  OBVIOUS
<1>1. CASE Pack!ReturnBoth
  BY <1>1, CrateStep DEF Pack!ReturnBoth, Pack!To, Pack!Stop
<1>2. CASE Pack!GraspCrate
  BY <1>2, CrateStep DEF Pack!GraspCrate, Pack!To, Pack!Stop
<1>3. CASE Pack!LiftCrate
  BY <1>3, CrateStep DEF Pack!LiftCrate, Pack!To, Pack!Stop
<1>4. CASE Pack!Drive
  <2>1. ~ Pack!Judges
    BY <1>4 DEF PackInv, JudgedInv, Pack!Drive
  <2>2. Pack!To("put") \/ Pack!Stop("failure")
    BY <1>4 DEF Pack!Drive
  <2> QED
    BY <1>4, <2>1, <2>2, CrateStep DEF Pack!Drive, Pack!To, Pack!Stop
<1>5. CASE Pack!PutOnShelf
  <2>1. ~ Pack!Judges
    BY <1>5 DEF PackInv, JudgedInv, Pack!PutOnShelf
  <2> QED
    BY <1>5, <2>1, CrateStep DEF Pack!PutOnShelf, Pack!To
<1>6. CASE Pack!TaskEnded
  BY <1>6, PackRests DEF Pack!TaskEnded, Pack!packVars, packVars
<1> QED
  BY <1>1, <1>2, <1>3, <1>4, <1>5, <1>6, PickStep, CloseStep, DropStep, NextFruitStep,
     AfterLastStep, JudgeStep DEF Pack!PackNext

-----------------------------------------------------------------------------
(* The block programs keep theirs. *)

\* A program that does not run, and one that has ended, changes nothing.
LEMMA HandoffRests == HandoffInv /\ UNCHANGED handoffVars => HandoffInv'
BY DEF HandoffInv, HandoffTypes, RouteInv, BlockInv, GripInv, TakenInv, MissInv, FallInv,
   RestInv, FramesInv, handoffVars, Handoff!Taker

\* The scene before the script: the block on the table, the arms at rest.
LEMMA HandoffStarts == Handoff!HandoffInit => HandoffInv
<1> SUFFICES ASSUME Handoff!HandoffInit PROVE HandoffInv
  OBVIOUS
<1>1. Handoff!AtRest /\ program \in Programs /\ live \in BOOLEAN
      /\ (program = "block_pick" => ~ live)
  BY DEF Handoff!HandoffInit, Handoff!BlockPickInit, Handoff!LeftToRightInit,
     Handoff!RightToLeftInit, Programs
<1>2. HandoffTypes /\ RouteInv
  BY <1>1 DEF Handoff!AtRest, HandoffTypes, RouteInv, Early, TwoArms, GiverHas, Delivered,
     Verdicts
<1>3. BlockInv
  BY <1>1 DEF Handoff!AtRest, BlockInv, GripInv, TakenInv, MissInv, FallInv, Early, GiverHas,
     Delivered
<1>4. RestInv /\ FramesInv
  BY <1>1 DEF Handoff!AtRest, RestInv, FramesInv, Early, Delivered, Verdicts
<1> QED
  BY <1>2, <1>3, <1>4 DEF HandoffInv

\* A script step gives the episode a frame of its phase.
LEMMA FrameOf ==
  ASSUME Handoff!OnStep
  PROVE  recorded' = recorded \cup {h_phase}
BY DEF Handoff!OnStep

\* What a motion leaves in the grippers of held, and where the block is then.
Left(held, places) ==
  /\ gripping' \subseteq held
  /\ slipped' = slipped \cup (held \ gripping')
  /\ block = "air" /\ gripping' = {} => block' \in places
  /\ block # "air" \/ gripping' # {} => block' = block
  /\ block' = "air" <=> gripping' # {}

\* A gripper can have only a block that is in the air.
LEMMA Leaves ==
  ASSUME GripInv, NEW held, NEW places, Handoff!Keeps(held, places),
         held # {} => block = "air", "air" \notin places
  PROVE  Left(held, places)
<1>1. PICK lost \in SUBSET held :
        /\ gripping' = held \ lost
        /\ slipped' = slipped \cup lost
        /\ block' \in IF block = "air" /\ gripping' = {} THEN places ELSE {block}
  BY DEF Handoff!Keeps
<1>2. gripping' \subseteq held /\ slipped' = slipped \cup (held \ gripping')
  BY <1>1
<1> QED
  BY <1>1, <1>2 DEF Left

\* Around the block, and the close that may miss it.
LEMMA GiverStep ==
  HandoffInv /\ (Handoff!GiverApproach \/ Handoff!GiverClose) /\ Handoff!OnStep => HandoffInv'
<1> SUFFICES ASSUME HandoffInv, Handoff!GiverApproach \/ Handoff!GiverClose, Handoff!OnStep
             PROVE  HandoffInv'
  OBVIOUS
<1>1. CASE Handoff!GiverApproach
  <2>1. /\ h_phase = "approach" /\ h_phase' = "giver_close" /\ moving' = {"giver"}
        /\ UNCHANGED <<program, live, wp, gripping, block, missed, slipped, ramp, h_saved>>
    BY <1>1 DEF Handoff!GiverApproach
  <2>2. HandoffTypes' /\ RouteInv'
    BY <2>1 DEF HandoffInv, HandoffTypes, RouteInv, Early, TwoArms, GiverHas, Delivered,
       Verdicts, Handoff!Arms
  <2>3. BlockInv'
    BY <2>1 DEF HandoffInv, BlockInv, GripInv, TakenInv, MissInv, FallInv, Early, GiverHas,
       Delivered, Handoff!Taker
  <2>4. RestInv' /\ FramesInv'
    BY <2>1, FrameOf DEF HandoffInv, RestInv, FramesInv, Early, Delivered, Verdicts
  <2> QED
    BY <2>2, <2>3, <2>4 DEF HandoffInv
<1>2. CASE Handoff!GiverClose
  <2>1. /\ h_phase = "giver_close"
        /\ h_phase' = IF program = "block_pick" THEN "deliver" ELSE "lift"
        /\ \/ gripping' = {"giver"} /\ block' = "air" /\ missed' = missed
           \/ missed' = {"giver"} /\ UNCHANGED <<gripping, block>>
        /\ UNCHANGED <<program, live, wp, slipped, moving, ramp, h_saved>>
    BY <1>2 DEF Handoff!GiverClose
  <2>2. gripping = {} /\ block = "table" /\ missed = {} /\ slipped = {} /\ wp = 1
    BY <2>1 DEF HandoffInv, BlockInv, GripInv, RouteInv, Early
  <2>3. \/ gripping' = {"giver"} /\ block' = "air" /\ missed' = {}
        \/ gripping' = {} /\ block' = "table" /\ missed' = {"giver"}
    BY <2>1, <2>2
  <2>4. HandoffTypes' /\ RouteInv'
    BY <2>1, <2>2, <2>3 DEF HandoffInv, HandoffTypes, RouteInv, Early, TwoArms, GiverHas,
       Delivered, Verdicts, Handoff!Arms
  <2>5. BlockInv'
    BY <2>1, <2>2, <2>3 DEF HandoffInv, BlockInv, GripInv, TakenInv, MissInv, FallInv, Early,
       GiverHas, Delivered, Handoff!Taker
  <2>6. RestInv' /\ FramesInv'
    BY <2>1, <2>2, FrameOf DEF HandoffInv, HandoffTypes, RestInv, FramesInv, Early, Delivered,
       Verdicts, Handoff!Taker
  <2> QED
    BY <2>4, <2>5, <2>6 DEF HandoffInv
<1> QED
  BY <1>1, <1>2

\* In the motions up to the receiver's close only the giver can have the block.
LEMMA MotionStep ==
  ASSUME HandoffInv, Handoff!OnStep, NEW from, NEW arms \in SUBSET Handoff!Arms, NEW next,
         Handoff!MoveOn(from, arms, next),
         \/ from = "lift" /\ next = "carry"
         \/ from = "carry" /\ next = IF live THEN "user" ELSE "pre_approach"
         \/ from = "pre_approach" /\ next = "twist"
         \/ from = "twist" /\ next = "receiver_approach"
         \/ from = "receiver_approach" /\ next = "receiver_close"
  PROVE  HandoffInv'
<1>1. /\ h_phase = from /\ h_phase' = next /\ moving' = moving \cup arms
      /\ Handoff!Keeps(gripping, {"floor"})
      /\ UNCHANGED <<program, live, wp, missed, ramp, h_saved>>
  BY DEF Handoff!MoveOn, Handoff!Fallen
<1>2. /\ from \in GiverHas /\ next \in GiverHas /\ program # "block_pick"
      /\ from \in {"pre_approach", "twist", "receiver_approach"} => ~ live
  BY <1>1 DEF HandoffInv, RouteInv, GiverHas, TwoArms
<1>3. GripInv /\ (gripping # {} => block = "air") /\ gripping \subseteq {"giver"}
  BY <1>1, <1>2 DEF HandoffInv, BlockInv, GripInv
<1>4. Left(gripping, {"floor"})
  BY <1>1, <1>3, Leaves
<1>5. HandoffTypes' /\ RouteInv'
  BY <1>1, <1>2, <1>3, <1>4
     DEF HandoffInv, HandoffTypes, RouteInv, Left, Early, TwoArms, GiverHas, Delivered,
         Verdicts, Handoff!Arms
<1>6. BlockInv'
  BY <1>1, <1>2, <1>3, <1>4
     DEF HandoffInv, HandoffTypes, RouteInv, BlockInv, GripInv, TakenInv, MissInv, FallInv, Left,
         Early, GiverHas, Delivered, Handoff!Taker
<1>7. RestInv' /\ FramesInv'
  BY <1>1, <1>2, FrameOf
     DEF HandoffInv, RestInv, FramesInv, Early, GiverHas, Delivered, Verdicts
<1> QED
  BY <1>5, <1>6, <1>7 DEF HandoffInv

\* A user may only push the block out of the giver's gripper.
LEMMA UserStep == HandoffInv /\ Handoff!UserControl /\ UNCHANGED recorded => HandoffInv'
<1> SUFFICES ASSUME HandoffInv, Handoff!UserControl, UNCHANGED recorded PROVE HandoffInv'
  OBVIOUS
<1>1. /\ h_phase = "user" /\ h_phase' = "judge" /\ live /\ program # "block_pick"
      /\ UNCHANGED <<program, live, wp, missed, ramp, h_saved>>
  BY DEF Handoff!UserControl, HandoffInv, RouteInv
<1>2. GripInv /\ (gripping # {} => block = "air") /\ gripping \subseteq {"giver"}
  BY <1>1 DEF HandoffInv, BlockInv, GripInv, GiverHas
<1>3. /\ moving' = moving \/ moving' = Handoff!Arms
      /\ \/ UNCHANGED <<gripping, block, slipped>>
         \/ Left(gripping, {"container", "floor"})
  <2>1. CASE UNCHANGED <<gripping, block, slipped, moving>>
    BY <2>1
  <2>2. CASE moving' = Handoff!Arms /\ Handoff!Keeps(gripping, {"container"} \cup Handoff!Fallen)
    <3>1. {"container"} \cup Handoff!Fallen = {"container", "floor"}
      BY DEF Handoff!Fallen
    <3>2. Left(gripping, {"container", "floor"})
      BY <1>2, <2>2, <3>1, Leaves
    <3> QED
      BY <2>2, <3>2
  <2> QED
    BY <2>1, <2>2 DEF Handoff!UserControl
<1>4. HandoffTypes' /\ RouteInv'
  BY <1>1, <1>2, <1>3
     DEF HandoffInv, HandoffTypes, RouteInv, Left, Early, TwoArms, GiverHas, Delivered,
         Verdicts, Handoff!Arms
<1>5. BlockInv'
  BY <1>1, <1>2, <1>3
     DEF HandoffInv, HandoffTypes, BlockInv, GripInv, TakenInv, MissInv, FallInv, Left,
         Early, GiverHas, Delivered, Handoff!Taker
<1>6. RestInv' /\ FramesInv'
  BY <1>1 DEF HandoffInv, RouteInv, RestInv, FramesInv, Early, Delivered, GiverHas, Verdicts
<1> QED
  BY <1>4, <1>5, <1>6 DEF HandoffInv

\* The exchange: the receiver closes, then the giver opens, then it clears the way.
LEMMA ExchangeStep ==
  HandoffInv /\ (Handoff!ReceiverClose \/ Handoff!GiverOpen \/ Handoff!GiverRetract)
  /\ Handoff!OnStep => HandoffInv'
<1> SUFFICES ASSUME HandoffInv, Handoff!OnStep,
                    Handoff!ReceiverClose \/ Handoff!GiverOpen \/ Handoff!GiverRetract
             PROVE  HandoffInv'
  OBVIOUS
<1>1. /\ GripInv /\ (gripping # {} <=> block = "air")
      /\ h_phase \in {"receiver_close", "giver_open", "retract"}
      /\ ~ live /\ program # "block_pick" /\ wp = 1
  BY DEF Handoff!ReceiverClose, Handoff!GiverOpen, Handoff!GiverRetract, HandoffInv, RouteInv,
     BlockInv, GripInv, TwoArms, GiverHas
<1>2. CASE Handoff!ReceiverClose
  <2>1. /\ h_phase = "receiver_close" /\ h_phase' = "giver_open"
        /\ \/ /\ block = "air" /\ missed' = missed
              /\ Handoff!Keeps(gripping \cup {"receiver"}, {"floor"})
           \/ missed' = missed \cup {"receiver"} /\ Handoff!Keeps(gripping, {"floor"})
        /\ UNCHANGED <<program, live, wp, moving, ramp, h_saved>>
    BY <1>2 DEF Handoff!ReceiverClose, Handoff!Fallen
  <2>2. gripping \subseteq {"giver"}
    BY <2>1 DEF HandoffInv, BlockInv, GripInv, GiverHas
  <2>3. \/ /\ block = "air" /\ missed' = missed
           /\ Left(gripping \cup {"receiver"}, {"floor"})
        \/ missed' = missed \cup {"receiver"} /\ Left(gripping, {"floor"})
    BY <1>1, <2>1, Leaves
  <2>4. HandoffTypes' /\ RouteInv'
    BY <1>1, <2>1, <2>2, <2>3
       DEF HandoffInv, HandoffTypes, RouteInv, Left, Early, TwoArms, GiverHas, Delivered,
           Verdicts, Handoff!Arms
  <2>5. BlockInv'
    <3>1. /\ Handoff!Taker = "receiver" /\ Handoff!Taker' = "receiver"
          /\ "receiver" \notin missed /\ block # "container"
          /\ "giver" \in gripping \cup missed \cup slipped
          /\ block = "floor" => slipped # {}
          /\ "giver" \in missed => block = "table"
      BY <1>1, <2>1 DEF HandoffInv, BlockInv, GripInv, TakenInv, MissInv, FallInv, Early,
         GiverHas, Handoff!Taker
    <3>2. GripInv'
      BY <1>1, <2>1, <2>2, <2>3 DEF GripInv, Left, GiverHas, Early, Delivered, Handoff!Taker
    <3>3. TakenInv'
      BY <1>1, <2>1, <2>2, <2>3, <3>1 DEF TakenInv, Left
    <3>4. MissInv'
      BY <1>1, <2>1, <2>2, <2>3, <3>1 DEF MissInv, Left, Early, GiverHas
    <3>5. FallInv'
      <4>1. h_saved # "episode"
        BY <2>1 DEF HandoffInv, FramesInv
      <4>2. block' # "container"
        BY <2>3, <3>1 DEF Left
      <4>3. block' = "floor" => slipped' # {}
        BY <1>1, <2>3, <3>1 DEF Left
      <4> QED
        BY <1>1, <2>1, <4>1, <4>2, <4>3 DEF FallInv, Delivered
    <3> QED
      BY <3>2, <3>3, <3>4, <3>5 DEF BlockInv
  <2>6. RestInv' /\ FramesInv'
    BY <1>1, <2>1, FrameOf DEF HandoffInv, RestInv, FramesInv, Early, Delivered, GiverHas,
       Verdicts
  <2> QED
    BY <2>4, <2>5, <2>6 DEF HandoffInv
<1>3. CASE Handoff!GiverOpen
  <2>1. /\ h_phase = "giver_open" /\ h_phase' = "retract"
        /\ Handoff!Keeps(gripping \ {"giver"}, {"floor"})
        /\ UNCHANGED <<program, live, wp, missed, moving, ramp, h_saved>>
    BY <1>3 DEF Handoff!GiverOpen, Handoff!Fallen
  <2>2. gripping \subseteq Handoff!Arms
    BY DEF HandoffInv, HandoffTypes
  <2>3. Left(gripping \ {"giver"}, {"floor"})
    BY <1>1, <2>1, Leaves
  <2>4. HandoffTypes' /\ RouteInv'
    BY <1>1, <2>1, <2>2, <2>3
       DEF HandoffInv, HandoffTypes, RouteInv, Left, Early, TwoArms, GiverHas, Delivered,
           Verdicts, Handoff!Arms
  <2>5. BlockInv'
    BY <1>1, <2>1, <2>2, <2>3
       DEF HandoffInv, HandoffTypes, BlockInv, GripInv, TakenInv, MissInv, FallInv, Left,
           Early, GiverHas, Delivered, Handoff!Taker, Handoff!Arms
  <2>6. RestInv' /\ FramesInv'
    BY <1>1, <2>1, FrameOf DEF HandoffInv, RestInv, FramesInv, Early, Delivered, GiverHas,
       Verdicts
  <2> QED
    BY <2>4, <2>5, <2>6 DEF HandoffInv
<1>4. CASE Handoff!GiverRetract
  <2>1. /\ h_phase = "retract" /\ h_phase' = "deliver" /\ ramp' = Handoff!RampTenths
        /\ Handoff!Keeps(gripping, {"floor"})
        /\ UNCHANGED <<program, live, wp, missed, moving, h_saved>>
    BY <1>4 DEF Handoff!GiverRetract, Handoff!Fallen
  <2>2. gripping \subseteq {"receiver"} /\ Handoff!Taker = "receiver"
        /\ Handoff!Taker' = "receiver"
    BY <1>1, <2>1 DEF HandoffInv, BlockInv, GripInv, Handoff!Taker
  <2>3. Left(gripping, {"floor"})
    BY <1>1, <2>1, Leaves
  <2>4. HandoffTypes' /\ RouteInv'
    BY <1>1, <2>1, <2>2, <2>3
       DEF HandoffInv, HandoffTypes, RouteInv, Left, Early, TwoArms, GiverHas, Delivered,
           Verdicts, Handoff!RampTenths, Handoff!Arms
  <2>5. BlockInv'
    BY <1>1, <2>1, <2>2, <2>3
       DEF HandoffInv, HandoffTypes, BlockInv, GripInv, TakenInv, MissInv, FallInv, Left,
           Early, GiverHas, Delivered
  <2>6. RestInv' /\ FramesInv'
    BY <1>1, <2>1, <2>2, FrameOf DEF HandoffInv, RestInv, FramesInv, Early, Delivered, GiverHas,
       Verdicts
  <2> QED
    BY <2>4, <2>5, <2>6 DEF HandoffInv
<1> QED
  BY <1>2, <1>3, <1>4

\* The gripper opens at the fourth waypoint of a delivery, and the first of them
\* outlasts the ramp.
LEMMA Waypoints ==
  /\ Len(Handoff!Deliver) = 5
  /\ \A i \in 1 .. 5 :
       /\ Handoff!Deliver[i].gripper = (IF i >= 4 THEN "open" ELSE "hold")
       /\ Handoff!Deliver[i].tenths \in Nat
  /\ Handoff!Deliver[1].tenths > Handoff!RampTenths
<1>1. Len(Handoff!Deliver) = 5
  BY DEF Handoff!Deliver
<1>2. ASSUME NEW i \in 1 .. 5
      PROVE  /\ Handoff!Deliver[i].gripper = (IF i >= 4 THEN "open" ELSE "hold")
             /\ Handoff!Deliver[i].tenths \in Nat
  <2>1. i = 1 \/ i = 2 \/ i = 3 \/ i = 4 \/ i = 5
    OBVIOUS
  <2> QED
    BY <2>1 DEF Handoff!Deliver
<1>3. Handoff!Deliver[1].tenths > Handoff!RampTenths
  BY DEF Handoff!Deliver, Handoff!RampTenths
<1> QED
  BY <1>1, <1>2, <1>3

\* A waypoint of the delivery, and the giver on its way to rest.
LEMMA DeliverStep == HandoffInv /\ Handoff!DeliverWaypoint /\ Handoff!OnStep => HandoffInv'
<1> SUFFICES ASSUME HandoffInv, Handoff!DeliverWaypoint, Handoff!OnStep PROVE HandoffInv'
  OBVIOUS
<1> DEFINE w == Handoff!Deliver[wp]
<1>1. /\ h_phase = "deliver"
      /\ Handoff!Keeps(IF w.gripper = "open" THEN gripping \ {Handoff!Taker} ELSE gripping,
                       Handoff!Below)
      /\ ramp' = IF ramp > w.tenths THEN ramp - w.tenths ELSE 0
      /\ moving' = IF program # "block_pick" /\ ramp' = 0 THEN moving \ {"giver"} ELSE moving
      /\ wp' = wp + 1
      /\ h_phase' = IF wp = 5 THEN "return" ELSE "deliver"
      /\ UNCHANGED <<program, live, missed, h_saved>>
  BY Waypoints DEF Handoff!DeliverWaypoint, Handoff!BackgroundRamp
<1>2. wp \in 1 .. 5 /\ ~ live /\ gripping \subseteq {Handoff!Taker}
  BY <1>1 DEF HandoffInv, HandoffTypes, RouteInv, BlockInv, GripInv
<1>3. /\ w.gripper = IF wp >= 4 THEN "open" ELSE "hold"
      /\ w.tenths \in Nat
      /\ wp = 1 => w.tenths > Handoff!RampTenths
  BY <1>2, Waypoints
<1> HIDE DEF w
<1> DEFINE held == IF wp >= 4 THEN {} ELSE gripping
           places == IF wp >= 4 THEN {"container"} ELSE {"container", "floor"}
<1>4. Left(held, Handoff!Below) /\ Handoff!Below \subseteq places
  <2>1. (IF w.gripper = "open" THEN gripping \ {Handoff!Taker} ELSE gripping) = held
    BY <1>2, <1>3
  <2>2. Handoff!Below \subseteq places
    BY <1>2 DEF Handoff!Below, Handoff!Fallen
  <2>3. "air" \notin Handoff!Below
    BY <2>2
  <2>4. GripInv /\ (held # {} => block = "air")
    BY DEF HandoffInv, BlockInv, GripInv
  <2>5. Handoff!Keeps(held, Handoff!Below)
    BY <1>1, <2>1
  <2> HIDE DEF held
  <2> QED
    BY <2>2, <2>3, <2>4, <2>5, Leaves
<1>5. /\ gripping' \subseteq held /\ slipped' = slipped \cup (held \ gripping')
      /\ block = "air" /\ gripping' = {} => block' \in places
      /\ block # "air" \/ gripping' # {} => block' = block
      /\ block' = "air" <=> gripping' # {}
  BY <1>4 DEF Left
<1>6. Handoff!Taker' = Handoff!Taker /\ Handoff!Taker \in Handoff!Arms
  BY <1>1 DEF Handoff!Taker, Handoff!Arms
<1>7. ramp' \in Nat /\ moving' \subseteq moving /\ moving \subseteq Handoff!Arms
  BY <1>1, <1>3 DEF HandoffInv, HandoffTypes
<1>8. HandoffTypes' /\ RouteInv'
  BY <1>1, <1>2, <1>5, <1>7
     DEF HandoffInv, HandoffTypes, RouteInv, Early, TwoArms, GiverHas, Delivered, Verdicts
<1>9. GripInv'
  BY <1>1, <1>2, <1>5, <1>6 DEF HandoffInv, BlockInv, GripInv, Early, GiverHas, Delivered
<1>10. TakenInv'
  BY <1>1, <1>2, <1>5, <1>6 DEF HandoffInv, BlockInv, TakenInv, GiverHas
<1>11. MissInv'
  BY <1>1, <1>2, <1>5 DEF HandoffInv, BlockInv, GripInv, MissInv, Early, GiverHas
<1>12. FallInv'
  <2>1. block' = "floor" => slipped' # {} \/ "receiver" \in missed'
    BY <1>1, <1>2, <1>5 DEF HandoffInv, BlockInv, GripInv, FallInv
  <2>2. Handoff!Taker \notin missed \cup slipped /\ wp >= 4 => block' = "container"
    BY <1>1, <1>2, <1>5 DEF HandoffInv, BlockInv, GripInv, TakenInv, FallInv
  <2> QED
    BY <1>1, <1>2, <1>5, <1>6, <2>1, <2>2 DEF HandoffInv, BlockInv, FallInv, FramesInv, Delivered
<1>13. RestInv'
  <2>1. ramp' = 0 \/ program = "block_pick"
    BY <1>1, <1>2, <1>3 DEF HandoffInv, HandoffTypes, RestInv, Handoff!RampTenths
  <2>2. moving' \subseteq {Handoff!Taker}
    BY <1>1, <1>7, <2>1 DEF HandoffInv, RestInv, Handoff!Taker, Handoff!Arms
  <2> QED
    BY <1>1, <1>2, <1>6, <1>7, <2>1, <2>2 DEF HandoffInv, RestInv, Delivered
<1>14. FramesInv'
  BY <1>1, <1>2, FrameOf DEF HandoffInv, FramesInv, Early, Delivered, Verdicts
<1> QED
  BY <1>8, <1>9, <1>10, <1>11, <1>12, <1>13, <1>14 DEF HandoffInv, BlockInv

\* The taker goes to rest, and the scene settles.
LEMMA ReturnStep ==
  HandoffInv /\ (Handoff!ReturnTaker \/ Handoff!TailHold) /\ Handoff!OnStep => HandoffInv'
<1> SUFFICES ASSUME HandoffInv, Handoff!ReturnTaker \/ Handoff!TailHold, Handoff!OnStep
             PROVE  HandoffInv'
  OBVIOUS
<1>1. /\ \/ /\ h_phase = "return" /\ h_phase' = "hold"
            /\ moving' = moving \ {Handoff!Taker}
            /\ UNCHANGED <<gripping, block, slipped>>
         \/ /\ h_phase = "hold" /\ h_phase' = "judge"
            /\ moving' = moving \cup {}
            /\ Handoff!Keeps(gripping, {"floor"})
      /\ UNCHANGED <<program, live, wp, missed, ramp, h_saved>>
  BY DEF Handoff!ReturnTaker, Handoff!TailHold, Handoff!MoveOn, Handoff!Fallen
<1>2. ~ live /\ gripping = {} /\ block # "air" /\ GripInv
  BY <1>1 DEF HandoffInv, RouteInv, BlockInv, GripInv, Delivered
<1>3. UNCHANGED <<gripping, block, slipped>>
  <2>1. ASSUME Handoff!Keeps(gripping, {"floor"})
        PROVE  UNCHANGED <<gripping, block, slipped>>
    <3>1. Left(gripping, {"floor"})
      BY <1>2, <2>1, Leaves
    <3> QED
      BY <1>2, <3>1 DEF Left
  <2> QED
    BY <1>1, <2>1
<1>4. HandoffTypes' /\ RouteInv'
  BY <1>1, <1>2, <1>3 DEF HandoffInv, HandoffTypes, RouteInv, Early, TwoArms, GiverHas,
     Delivered, Verdicts
<1>5. BlockInv'
  BY <1>1, <1>2, <1>3 DEF HandoffInv, BlockInv, GripInv, TakenInv, MissInv, FallInv, Early,
     GiverHas, Delivered, Handoff!Taker
<1>6. RestInv'
  BY <1>1, <1>2 DEF HandoffInv, RestInv, Delivered
<1>7. FramesInv'
  BY <1>1, <1>2, FrameOf DEF HandoffInv, FramesInv, Early, Delivered, Verdicts
<1> QED
  BY <1>4, <1>5, <1>6, <1>7 DEF HandoffInv

\* The judgement, and what is saved of a trial that passed it.
LEMMA SaveStep ==
  HandoffInv /\ (Handoff!JudgeBlock \/ Handoff!SaveEpisode) /\ UNCHANGED recorded => HandoffInv'
<1> SUFFICES ASSUME HandoffInv, Handoff!JudgeBlock \/ Handoff!SaveEpisode, UNCHANGED recorded
             PROVE  HandoffInv'
  OBVIOUS
<1>1. /\ \/ /\ h_phase = "judge" /\ h_saved' = h_saved
            /\ h_phase' = IF block = "container" THEN "save" ELSE "save_failed"
         \/ /\ h_phase \in {"save", "save_failed"} /\ h_phase' = "end"
            /\ h_saved' \in {"nothing", "episode", "[FAIL]"}
            /\ h_saved' = "episode" => h_phase = "save"
      /\ UNCHANGED <<program, live, wp, gripping, block, missed, slipped, moving, ramp>>
  BY DEF Handoff!JudgeBlock, Handoff!SaveEpisode, Handoff!Success
<1>2. HandoffTypes' /\ RouteInv'
  BY <1>1 DEF HandoffInv, HandoffTypes, RouteInv, Early, TwoArms, GiverHas, Delivered, Verdicts
<1>3. BlockInv'
  BY <1>1 DEF HandoffInv, BlockInv, GripInv, TakenInv, MissInv, FallInv, FramesInv, Early,
     GiverHas, Delivered, Handoff!Taker
<1>4. RestInv' /\ FramesInv'
  BY <1>1 DEF HandoffInv, RestInv, FramesInv, Early, Delivered, Verdicts
<1> QED
  BY <1>2, <1>3, <1>4 DEF HandoffInv

\* Every step of a block program keeps the invariant.
LEMMA HandoffKeeps == HandoffInv /\ Handoff!HandoffNext => HandoffInv'
<1> SUFFICES ASSUME HandoffInv, Handoff!HandoffNext PROVE HandoffInv'
  OBVIOUS
<1>1. CASE Handoff!HandoffEnded
  BY <1>1, HandoffRests DEF Handoff!HandoffEnded, Handoff!handoffVars, handoffVars
<1>2. CASE (Handoff!UserControl \/ Handoff!JudgeBlock \/ Handoff!SaveEpisode)
           /\ UNCHANGED recorded
  BY <1>2, UserStep, SaveStep
<1>3. CASE Handoff!ScriptStep /\ Handoff!OnStep
  <2>1. /\ {} \in SUBSET Handoff!Arms
        /\ {"giver"} \in SUBSET Handoff!Arms /\ {"receiver"} \in SUBSET Handoff!Arms
    BY DEF Handoff!Arms
  <2>2. CASE \/ Handoff!LiftBlock \/ Handoff!CarryBlock \/ Handoff!PreApproach
             \/ Handoff!TwistWrist \/ Handoff!ReceiverApproach
    BY <1>3, <2>1, <2>2, MotionStep
       DEF Handoff!LiftBlock, Handoff!CarryBlock, Handoff!PreApproach, Handoff!TwistWrist,
           Handoff!ReceiverApproach
  <2> QED
    BY <1>3, <2>2, GiverStep, ExchangeStep, DeliverStep, ReturnStep DEF Handoff!ScriptStep
<1> QED
  BY <1>1, <1>2, <1>3 DEF Handoff!HandoffNext

-----------------------------------------------------------------------------
(* The rollout keeps its invariant. *)

\* A non-empty set of at most eight positions has a first.
LEMMA FirstExists ==
  ASSUME NEW S \in SUBSET (1 .. 8), S # {}
  PROVE  Min(S) \in S
<1>1. \E x \in S : \A y \in S : x <= y
  <2>1. CASE 1 \in S
    BY <2>1
  <2>2. CASE 1 \notin S /\ 2 \in S
    BY <2>2
  <2>3. CASE S \cap {1, 2} = {} /\ 3 \in S
    BY <2>3
  <2>4. CASE S \cap {1, 2, 3} = {} /\ 4 \in S
    BY <2>4
  <2>5. CASE S \cap {1, 2, 3, 4} = {} /\ 5 \in S
    BY <2>5
  <2>6. CASE S \cap {1, 2, 3, 4, 5} = {} /\ 6 \in S
    BY <2>6
  <2>7. CASE S \cap {1, 2, 3, 4, 5, 6} = {} /\ 7 \in S
    BY <2>7
  <2>8. CASE S \cap {1, 2, 3, 4, 5, 6, 7} = {}
    <3>1. \A y \in S : y = 8
      BY <2>8
    <3>2. 8 \in S
      BY <3>1
    <3> QED
      BY <3>1, <3>2
  <2> QED
    BY <2>1, <2>2, <2>3, <2>4, <2>5, <2>6, <2>7, <2>8
<1> QED
  BY <1>1 DEF Min

\* FirstOf is the reason of a test that failed, or "none" when none did.
LEMMA FirstOfIs ==
  ASSUME NEW tests, DOMAIN tests \subseteq 1 .. 8
  PROVE  \/ FirstOf(tests) = "none" /\ \A i \in DOMAIN tests : ~ tests[i][1]
         \/ \E i \in DOMAIN tests : tests[i][1] /\ FirstOf(tests) = tests[i][2]
<1> DEFINE failed == {i \in DOMAIN tests : tests[i][1]}
<1>1. FirstOf(tests) = IF failed = {} THEN "none" ELSE tests[Min(failed)][2]
  BY DEF FirstOf
<1>2. CASE failed = {}
  BY <1>1, <1>2
<1>3. CASE failed # {}
  <2>1. failed \in SUBSET (1 .. 8)
    OBVIOUS
  <2> HIDE DEF failed
  <2>2. Min(failed) \in failed
    BY <1>3, <2>1, FirstExists
  <2>3. FirstOf(tests) = tests[Min(failed)][2]
    BY <1>1, <1>3
  <2> QED
    BY <2>2, <2>3 DEF failed
<1> QED
  BY <1>2, <1>3

\* A motion of at least a frame is sampled.
LEMMA MotionIsSampled ==
  ASSUME clock \in Nat, NEW steps \in Nat, steps >= Every
  PROVE  Sampled(steps) > 0 /\ (clock + steps) % Every \in Nat
<1>1. Every \in Nat /\ Every > 0
  BY RolloutAssumption
<1>2. clock + steps \in Nat /\ clock + steps >= Every
  BY <1>1
<1>3. (clock + steps) \div Every > 0 /\ (clock + steps) % Every \in Nat
  BY <1>1, <1>2
<1> QED
  BY <1>3 DEF Sampled

\* A hold is as long as a frame.
LEMMA HoldsAreSampled ==
  /\ InitialSteps \in Nat /\ InitialSteps >= Every
  /\ HoldLength \in Nat /\ HoldLength >= Every
  /\ \A j \in Jobs : j.pace \in Nat /\ j.pace >= Every
<1>1. \A x, y \in Nat \ {0} : x * y >= y
  OBVIOUS
<1>2. Fps * Every >= Every
  BY <1>1, RolloutAssumption
<1>3. Fps * Every \in Nat
  BY RolloutAssumption
<1> QED
  BY <1>2, <1>3, RolloutAssumption DEF HoldLength, Jobs

\* Of as many numbers in a row as P one is a multiple of it.
LEMMA Multiples ==
  ASSUME NEW P \in Nat \ {0}, NEW q \in Nat
  PROVE  (P * q) % P = 0
OBVIOUS

LEMMA LooksRecur ==
  ASSUME NEW c \in Nat, NEW P \in Nat \ {0}, NEW a \in Nat, NEW b \in Nat, b - a + 1 >= P
  PROVE  \E i \in a .. b : (c + i) % P = 0
<1> DEFINE d == (c + a) % P
           q == (c + a) \div P
<1>1. d \in 0 .. P - 1 /\ q \in Nat /\ c + a = P * q + d
  OBVIOUS
<1> HIDE DEF d, q
<1>2. CASE d = 0
  <2>1. P * q + d = P * q
    BY <1>1, <1>2
  <2>2. (c + a) % P = 0
    BY <1>1, <2>1, Multiples
  <2> QED
    BY <2>2
<1>3. CASE d # 0
  <2>1. a + P - d \in a .. b
    BY <1>1, <1>3
  <2>2. c + (a + P - d) = P * (q + 1) /\ q + 1 \in Nat
    BY <1>1
  <2>3. (P * (q + 1)) % P = 0
    BY <2>2, Multiples
  <2>4. (c + (a + P - d)) % P = 0
    BY <2>2, <2>3
  <2> QED
    BY <2>1, <2>4
<1> QED
  BY <1>2, <1>3

\* A mishap that lasts from one look to the next is noticed, wherever it begins.
LEMMA LongIsNoticed ==
  ASSUME clock \in Nat, look \in Nat, NEW kd, NEW p, NEW a \in Nat, NEW b \in Nat,
         LookedFor(kd, p), b - a + 1 >= Period(kd)
  PROVE  Noticed(kd, p, a, b)
<1> DEFINE c == IF kd \in Contacts THEN look ELSE clock
<1>1. c \in Nat /\ Period(kd) \in Nat \ {0}
  BY RolloutAssumption DEF Period
<1> HIDE DEF c
<1>2. \E i \in a .. b : (c + i) % Period(kd) = 0
  BY <1>1, LooksRecur
<1> QED
  BY <1>2 DEF Noticed, c

\* What a motion lets happen, and what the program knows of it afterwards.
LEMMA MotionKnows ==
  ASSUME RolloutInv, UNCHANGED job, NEW p, NEW e, NEW f, NEW steps \in Nat, steps >= Every,
         Motion(p, e, f, steps)
  PROVE  /\ SeenInv' /\ clock' \in Nat /\ look' \in Nat /\ phase' = p
         /\ \A h \in happened' :
              \/ h \in happened
              \/ /\ h.phase = p /\ h.watched = LookedFor(h.kind, p)
                 /\ h.kind \in Kinds /\ CanHappen(h.kind, p)
         /\ ~ watching =>
              /\ "table" \in seen' => "table" \in seen
              /\ "camera" \in seen' => "camera" \in seen
<1>1. phase' = p /\ Pass(p, steps)
  BY DEF Motion
<1>2. clock \in Nat /\ look \in Nat /\ job \in Jobs
  BY DEF RolloutInv, RolloutTypes
<1>3. Sampled(steps) > 0 /\ clock' \in Nat
  BY <1>1, <1>2, MotionIsSampled DEF Pass
<1>4. look' \in Nat
  <2>1. \A x \in Nat, d \in Nat \ {0} : x % d \in Nat
    OBVIOUS
  <2>2. look + steps \in Nat /\ look' = (look + steps) % Look
    BY <1>1, <1>2 DEF Pass
  <2> QED
    BY <2>1, <2>2, RolloutAssumption
<1>5. \/ happened' = happened /\ seen' = seen \cup AtFrame
      \/ \E kd \in Kinds, a, b \in 1 .. steps, stays \in BOOLEAN :
           /\ CanHappen(kd, p)
           /\ stays => kd \notin Contacts
           /\ happened' = happened \cup {Mishap(kd, p, a, b, stays)}
           /\ seen' = seen \cup AtFrame \cup {x \in {kd} : Noticed(x, p, a, b)}
  <2> DEFINE F == IF Sampled(steps) > 0 THEN AtFrame ELSE {}
  <2>1. F = AtFrame
    BY <1>3
  <2>2. \/ happened' = happened /\ seen' = seen \cup F
        \/ \E kd \in Kinds, a, b \in 1 .. steps, stays \in BOOLEAN :
             /\ CanHappen(kd, p) /\ a <= b
             /\ stays => kd \notin Contacts /\ b = steps
             /\ happened' = happened \cup {Mishap(kd, p, a, b, stays)}
             /\ seen' = seen \cup F \cup {x \in {kd} : Noticed(x, p, a, b)}
    BY <1>1, Zenon DEF Pass
  <2> HIDE DEF F
  <2>3. CASE \E kd \in Kinds, a, b \in 1 .. steps, stays \in BOOLEAN :
               /\ CanHappen(kd, p) /\ a <= b
               /\ stays => kd \notin Contacts /\ b = steps
               /\ happened' = happened \cup {Mishap(kd, p, a, b, stays)}
               /\ seen' = seen \cup F \cup {x \in {kd} : Noticed(x, p, a, b)}
    <3>1. PICK kd \in Kinds, a \in 1 .. steps, b \in 1 .. steps, stays \in BOOLEAN :
               /\ CanHappen(kd, p) /\ a <= b
               /\ stays => kd \notin Contacts /\ b = steps
               /\ happened' = happened \cup {Mishap(kd, p, a, b, stays)}
               /\ seen' = seen \cup F \cup {x \in {kd} : Noticed(x, p, a, b)}
      BY <2>3
    <3>2. /\ CanHappen(kd, p)
          /\ stays => kd \notin Contacts
          /\ happened' = happened \cup {Mishap(kd, p, a, b, stays)}
          /\ seen' = seen \cup AtFrame \cup {x \in {kd} : Noticed(x, p, a, b)}
      BY <2>1, <3>1
    <3> QED
      BY <3>2, Zenon
  <2> QED
    BY <2>1, <2>2, <2>3
<1>6. Kinds' = Kinds
  BY DEF Kinds
<1>7. seen \cup AtFrame \subseteq seen'
  BY <1>5
<1>8. ASSUME NEW h \in happened
      PROVE  /\ h.kind \in Kinds
             /\ h.kind \in {"arms", "camera"} => h.watched
             /\ h.kind \notin Contacts => (h.watched <=> job.task = "place_one")
             /\ h.watched /\ ~ h.brief => h.kind \in seen'
             /\ h.stays => h.kind \notin Contacts
             /\ h.stays /\ h.watched => h.kind \in seen'
  <2>1. h.stays /\ h.watched => h.kind \in AtFrame
    BY DEF AtFrame
  <2> QED
    BY <1>7, <2>1 DEF RolloutInv, SeenInv
<1>9. ASSUME NEW h \in happened', h \notin happened
      PROVE  /\ h.phase = p /\ h.watched = LookedFor(h.kind, p)
             /\ h.kind \in Kinds /\ CanHappen(h.kind, p)
             /\ h.watched /\ ~ h.brief => h.kind \in seen'
             /\ h.stays => h.kind \notin Contacts
             /\ h.stays /\ h.watched => h.kind \in seen' \/ h.brief
  <2>1. PICK kd \in Kinds, a \in 1 .. steps, b \in 1 .. steps, stays \in BOOLEAN :
           /\ CanHappen(kd, p)
           /\ stays => kd \notin Contacts
           /\ h = Mishap(kd, p, a, b, stays)
           /\ seen' = seen \cup AtFrame \cup {x \in {kd} : Noticed(x, p, a, b)}
    BY <1>5, <1>9
  <2>2. /\ h.kind = kd /\ h.phase = p /\ h.watched = LookedFor(kd, p)
        /\ h.brief = (b - a + 1 < Period(kd)) /\ h.stays = stays
    BY <2>1 DEF Mishap
  <2>3. h.watched /\ ~ h.brief => kd \in seen'
    <3> SUFFICES ASSUME LookedFor(kd, p), ~ (b - a + 1 < Period(kd)) PROVE kd \in seen'
      BY <2>2
    <3>1. a \in Nat /\ b \in Nat /\ b - a + 1 >= Period(kd)
      BY RolloutAssumption DEF Period
    <3>2. Noticed(kd, p, a, b)
      BY <1>2, <3>1, LongIsNoticed
    <3> QED
      BY <2>1, <3>2
  <2> QED
    BY <2>1, <2>2, <2>3
<1>10. SeenInv'
  <2>1. ASSUME NEW h \in happened', h \notin happened
        PROVE  /\ h.kind \in {"arms", "camera"} => h.watched
               /\ h.kind \notin Contacts => (h.watched <=> job.task = "place_one")
    BY <1>9, <2>1 DEF LookedFor, CanHappen, Contacts
  <2> QED
    BY <1>1, <1>6, <1>8, <1>9, <2>1 DEF SeenInv
<1>11. ~ watching =>
         /\ "table" \in seen' => "table" \in seen
         /\ "camera" \in seen' => "camera" \in seen
  <2>1. "table" \notin AtFrame /\ "camera" \notin AtFrame
    BY DEF AtFrame, RolloutInv, SeenInv, Contacts
  <2>2. ~ watching => \A a, b : ~ Noticed("table", p, a, b) /\ ~ Noticed("camera", p, a, b)
    BY DEF Noticed, LookedFor
  <2> QED
    BY <1>5, <2>1, <2>2
<1> QED
  BY <1>1, <1>3, <1>4, <1>9, <1>10, <1>11

\* A step of a place_one rollout that only moves: from one program point to a next
\* one that asks for no more.
LEMMA MoveStep ==
  ASSUME RolloutInv, NEW e, NEW f, NEW p, NEW steps \in Nat, steps >= Every,
         Motion(p, e, f, steps), UNCHANGED <<job, outcome>>,
         pc \notin Over, pc' \notin Over,
         pc' \in OfPlace => job.task = "place_one",
         pc' \in OfLift => job.task = "lift_basket",
         pc' \in {"terminal_hold"} \cup OfPlace \cup OfLift,
         watching' => pc' \in {"pregrasp", "close"},
         pc' \in AfterVerify =>
           /\ pc \in AfterVerify
           /\ checks' \subseteq {"wrist_camera_view_valid", "fully_released"},
         pc' = "judge" => p = "target_settle",
         pc' \in AfterJudge /\ job.task = "place_one" =>
           pc \in AfterJudge /\ p \in {"return_to_ready", "terminal_hold"}
  PROVE  RolloutInv'
<1>1. RolloutTypes'
  BY MotionKnows DEF RolloutInv, RolloutTypes, Over
<1>2. SeenInv'
  BY MotionKnows
<1>3. pc' \in AfterVerify => "table" \notin seen' /\ "camera" \notin seen'
  BY MotionKnows DEF RolloutInv, RolloutTypes, SureInv, AfterVerify
<1>4. ASSUME pc' \in AfterJudge, job.task = "place_one", NEW h \in happened'
      PROVE  h.kind = "arms" \/ Unseen(h)
  <2>1. CASE h \in happened
    BY <1>4, <2>1 DEF RolloutInv, SureInv
  <2>2. CASE h \notin happened
    <3>1. /\ h.phase = p /\ h.watched = LookedFor(h.kind, p) /\ ~ watching
          /\ p \in {"return_to_ready", "terminal_hold"}
          /\ h.kind \in Kinds
      BY <1>4, <2>2, MotionKnows DEF RolloutInv, RolloutTypes, AfterJudge
    <3>2. h.kind \in {"table", "arms", "camera", "wrong", "moved", "inserted", "ejected"}
      BY <3>1 DEF Kinds
    <3> QED
      BY <1>4, <3>1, <3>2 DEF Unseen, LookedFor, Contacts, Gripping
  <2> QED
    BY <2>1, <2>2
<1>5. outcome' # "success"
  BY DEF RolloutInv, RolloutTypes
<1>6. \A h : Unseen(h) <=> Unseen(h)'
  BY DEF Unseen
<1>7. SureInv'
  BY <1>3, <1>4, <1>5, <1>6, MotionKnows DEF SureInv
<1> QED
  BY <1>1, <1>2, <1>7 DEF RolloutInv

\* A rollout that stops for a reason is not saved.
LEMMA FailStep ==
  ASSUME RolloutInv, SeenInv', clock' \in Nat, look' \in Nat, UNCHANGED job,
         pc' = "finish", outcome' # "success", ~ watching'
  PROVE  RolloutInv'
BY DEF RolloutInv, RolloutTypes, SureInv, AfterVerify, AfterJudge, Over, OfPlace, OfLift

\* A step without a motion knows what was known before it.
LEMMA StillKnows ==
  ASSUME RolloutInv, UNCHANGED <<job, phase, clock, look, watching, seen, happened>>
  PROVE  /\ SeenInv' /\ clock' \in Nat /\ look' \in Nat
         /\ \A h : Unseen(h) <=> Unseen(h)'
<1>1. Kinds' = Kinds
  BY DEF Kinds
<1> QED
  BY <1>1 DEF RolloutInv, RolloutTypes, SeenInv, Unseen

\* A rollout that does not run, and one that has ended, changes nothing.
LEMMA RolloutRests == RolloutInv /\ UNCHANGED vars => RolloutInv'
<1> SUFFICES ASSUME RolloutInv, UNCHANGED vars PROVE RolloutInv'
  OBVIOUS
<1>1. SeenInv' /\ clock' \in Nat /\ look' \in Nat /\ \A h : Unseen(h) <=> Unseen(h)'
  BY StillKnows DEF vars
<1> QED
  BY <1>1 DEF RolloutInv, RolloutTypes, SureInv, vars

\* Nothing has gone wrong before the first step.
LEMMA RolloutStarts == Init => RolloutInv
<1> SUFFICES ASSUME Init PROVE RolloutInv
  OBVIOUS
<1>1. RolloutTypes
  BY DEF Init, RolloutTypes, OfPlace, OfLift, Over, AfterVerify, AfterJudge
<1>2. SeenInv /\ SureInv
  BY DEF Init, SeenInv, SureInv, AfterVerify, AfterJudge
<1> QED
  BY <1>1, <1>2 DEF RolloutInv

\* The hold that every rollout begins with.
LEMMA InitialHoldStep == RolloutInv /\ InitialHold => RolloutInv'
<1> SUFFICES ASSUME RolloutInv, InitialHold PROVE RolloutInv'
  OBVIOUS
<1>1. /\ pc = "initial_hold" /\ UNCHANGED <<job, watching>> /\ ~ watching
      /\ Motion("initial_hold", "", "initial_hold_end", InitialSteps)
      /\ job.task \in {"place_one", "lift_basket"}
  BY DEF InitialHold, Steady, RolloutInv, RolloutTypes, Jobs
<1>2. CASE pc' = "finish" /\ outcome' = "target_initially_inside"
  BY <1>1, <1>2, MotionKnows, HoldsAreSampled, FailStep DEF RolloutInv, RolloutTypes
<1>3. CASE /\ outcome' = outcome
           /\ pc' \in {"basket_approach", "approach", "prefix"}
           /\ pc' = "basket_approach" <=> job.task = "lift_basket"
  BY <1>1, <1>3, HoldsAreSampled, MoveStep
     DEF OfPlace, OfLift, Over, AfterVerify, AfterJudge
<1> QED
  BY <1>1, <1>2, <1>3 DEF InitialHold, Fail, Goto

\* The prefix of a recovery, and the way to the fruit.
LEMMA ApproachSteps ==
  RolloutInv /\ (\/ Prefix \/ PrefixAlign \/ PrefixClose \/ Reopen \/ RecoveryRetreat
                 \/ Approach \/ Pregrasp \/ Close) => RolloutInv'
<1> SUFFICES ASSUME RolloutInv, \/ Prefix \/ PrefixAlign \/ PrefixClose \/ Reopen
                                \/ RecoveryRetreat \/ Approach \/ Pregrasp \/ Close
             PROVE  RolloutInv'
  OBVIOUS
<1>1. job \in Jobs /\ job.pace \in Nat /\ job.pace >= Every
  BY HoldsAreSampled DEF RolloutInv, RolloutTypes
<1>2. PICK p, e :
        /\ Motion(p, e, "", job.pace)
        /\ job' = job /\ pc \in OfPlace
        /\ \/ /\ outcome' = outcome
              /\ pc' \in {"prefix_align", "prefix_close", "reopen", "recovery_retreat",
                          "approach", "pregrasp", "close", "verify"}
              /\ watching' => watching \/ pc' = "pregrasp"
              /\ watching' /\ pc = "pregrasp" => pc' = "close"
              /\ pc = "close" => ~ watching'
           \/ /\ pc' = "finish" /\ outcome' = "recovery_setup_invalid"
              /\ (watching' => watching) /\ pc = "prefix_close"
  <2>1. CASE Prefix
    BY <2>1 DEF Prefix, Goto, Steady, OfPlace
  <2>2. CASE PrefixAlign
    BY <2>2 DEF PrefixAlign, Goto, Steady, OfPlace
  <2>3. CASE PrefixClose
    BY <2>3 DEF PrefixClose, Goto, Fail, OfPlace
  <2>4. CASE Reopen
    BY <2>4 DEF Reopen, Goto, Steady, OfPlace
  <2>5. CASE RecoveryRetreat
    BY <2>5 DEF RecoveryRetreat, Goto, Steady, OfPlace
  <2>6. CASE Approach
    BY <2>6 DEF Approach, Goto, OfPlace
  <2>7. CASE Pregrasp
    BY <2>7 DEF Pregrasp, Goto, Steady, OfPlace
  <2>8. CASE Close
    BY <2>8 DEF Close, Goto, OfPlace
  <2> QED
    BY <2>1, <2>2, <2>3, <2>4, <2>5, <2>6, <2>7, <2>8
<1>3. job.task = "place_one" /\ (watching => pc \in {"pregrasp", "close"})
  BY <1>2 DEF RolloutInv, RolloutTypes
<1>4. CASE pc' = "finish"
  <2>1. outcome' # "success" /\ ~ watching'
    BY <1>2, <1>3, <1>4
  <2> QED
    BY <1>1, <1>2, <1>4, <2>1, MotionKnows, FailStep
<1>5. CASE pc' # "finish"
  <2>1. /\ outcome' = outcome
        /\ pc' \in {"prefix_align", "prefix_close", "reopen", "recovery_retreat",
                    "approach", "pregrasp", "close", "verify"}
        /\ watching' => pc' \in {"pregrasp", "close"}
    BY <1>2, <1>3, <1>5
  <2>2. /\ pc \notin Over /\ pc' \notin Over /\ pc' \notin OfLift /\ pc' \in OfPlace
        /\ pc' \notin AfterVerify /\ pc' \notin AfterJudge /\ pc' # "judge"
    BY <1>2, <2>1 DEF OfPlace, OfLift, Over, AfterVerify, AfterJudge
  <2> QED
    BY <1>1, <1>2, <1>3, <2>1, <2>2, MoveStep
<1> QED
  BY <1>4, <1>5

\* The grasp is refused, or no table or camera was noticed up to it.
LEMMA VerifyStep == RolloutInv /\ VerifyGrasp => RolloutInv'
<1> SUFFICES ASSUME RolloutInv, VerifyGrasp PROVE RolloutInv'
  OBVIOUS
<1> DEFINE tests == << <<"table" \in seen, "table_collision">>,
                       <<"camera" \in seen, "wrist_camera_view_invalid">>,
                       <<target # "hand", "target_not_grasped">> >>
<1>1. /\ pc = "verify" /\ UNCHANGED <<job, watching>> /\ ~ watching
      /\ Motion("grasp_verify", "grasp_verify_start", "grasp_verified", job.pace)
      /\ job.task = "place_one" /\ job.pace \in Nat /\ job.pace >= Every
  BY HoldsAreSampled DEF VerifyGrasp, RolloutInv, RolloutTypes, OfPlace
<1>2. /\ SeenInv' /\ clock' \in Nat /\ look' \in Nat
      /\ "table" \in seen' => "table" \in seen
      /\ "camera" \in seen' => "camera" \in seen
  BY <1>1, MotionKnows
<1>3. /\ Refused = "none" => "table" \notin seen /\ "camera" \notin seen
      /\ Refused # "success"
  <2>1. Refused = FirstOf(tests)
    BY DEF Refused
  <2>2. DOMAIN tests = {1, 2, 3}
    OBVIOUS
  <2>3. /\ tests[1][1] = ("table" \in seen) /\ tests[2][1] = ("camera" \in seen)
        /\ tests[1][2] = "table_collision"
        /\ tests[2][2] = "wrist_camera_view_invalid"
        /\ tests[3][2] = "target_not_grasped"
    OBVIOUS
  <2> HIDE DEF tests
  <2>4. \/ FirstOf(tests) = "none" /\ \A i \in DOMAIN tests : ~ tests[i][1]
        \/ \E i \in DOMAIN tests : tests[i][1] /\ FirstOf(tests) = tests[i][2]
    BY <2>2, FirstOfIs
  <2> QED
    BY <2>1, <2>2, <2>3, <2>4
<1>4. CASE Refused = "none"
  <2>1. /\ checks' = {"wrist_camera_view_valid"} /\ pc' = "lift" /\ outcome' = outcome
    BY <1>4 DEF VerifyGrasp, Goto
  <2>2. RolloutTypes'
    BY <1>1, <1>2, <2>1 DEF RolloutInv, RolloutTypes, OfPlace, OfLift, Over, AfterVerify
  <2>3. SureInv'
    BY <1>1, <1>2, <1>3, <1>4, <2>1
       DEF RolloutInv, RolloutTypes, SureInv, Over, AfterVerify, AfterJudge
  <2> QED
    BY <1>2, <2>2, <2>3 DEF RolloutInv
<1>5. CASE Refused # "none"
  <2>1. pc' = "finish" /\ outcome' # "success" /\ ~ watching'
    BY <1>1, <1>3, <1>5 DEF VerifyGrasp, Fail, RolloutInv, RolloutTypes
  <2> QED
    BY <1>1, <1>2, <2>1, FailStep
<1> QED
  BY <1>4, <1>5

\* From the table to the basket, and the arm drawn back.
LEMMA CarrySteps ==
  RolloutInv /\ (\/ LiftFromTable \/ Transport \/ LowerIntoBasket \/ Release
                 \/ ReleaseVerify \/ Retreat \/ TargetSettle) => RolloutInv'
<1> SUFFICES ASSUME RolloutInv, \/ LiftFromTable \/ Transport \/ LowerIntoBasket \/ Release
                                \/ ReleaseVerify \/ Retreat \/ TargetSettle
             PROVE  RolloutInv'
  OBVIOUS
<1>1. job \in Jobs /\ job.pace \in Nat /\ job.pace >= Every
  BY HoldsAreSampled DEF RolloutInv, RolloutTypes
<1>2. PICK p, e, f :
        /\ Motion(p, e, f, job.pace)
        /\ UNCHANGED <<job, outcome, watching>>
        /\ pc \in AfterVerify \ {"judge"} /\ pc' \in AfterVerify
        /\ pc' = "judge" => p = "target_settle"
        /\ checks' \subseteq checks \cup {"fully_released"}
  BY DEF LiftFromTable, Transport, LowerIntoBasket, Carry, Release, ReleaseVerify, Retreat,
     TargetSettle, Goto, Steady, AfterVerify
<1>3. /\ job.task = "place_one" /\ ~ watching
      /\ checks' \subseteq {"wrist_camera_view_valid", "fully_released"}
  BY <1>2 DEF RolloutInv, RolloutTypes, SureInv, OfPlace, AfterVerify
<1>4. /\ pc \notin Over /\ pc' \notin Over /\ pc' \notin OfLift /\ pc' \in OfPlace
      /\ pc' \notin AfterJudge
  BY <1>2 DEF OfPlace, OfLift, Over, AfterVerify, AfterJudge
<1> QED
  BY <1>1, <1>2, <1>3, <1>4, MoveStep

\* The judgement before the arm returns: whatever it lets pass was unseen.
LEMMA JudgePlaceStep == RolloutInv /\ Judge => RolloutInv'
<1> SUFFICES ASSUME RolloutInv, Judge PROVE RolloutInv'
  OBVIOUS
<1>1. /\ pc = "judge" /\ UNCHANGED <<job, phase, clock, look, watching, seen, happened>>
      /\ job.task = "place_one" /\ ~ watching /\ phase = "target_settle"
      /\ "table" \notin seen /\ "camera" \notin seen
      /\ checks \subseteq {"wrist_camera_view_valid", "fully_released"}
      /\ outcome = "none"
  BY DEF Judge, RolloutInv, RolloutTypes, SureInv, OfPlace, AfterVerify, Over
<1>2. SeenInv' /\ clock' \in Nat /\ look' \in Nat /\ \A h : Unseen(h) <=> Unseen(h)'
  BY <1>1, StillKnows
<1>3. PICK still \in BOOLEAN, clear \in BOOLEAN :
        LET found == checks \cup Undisturbed
                       \cup (IF target = "basket" THEN {"target_newly_inside"} ELSE {})
                       \cup (IF clear THEN {"safe_retreat"} ELSE {})
            reason == FirstOf(<<
              <<target # "basket", "target_outside_basket">>,
              <<"fully_released" \notin found, "incomplete_release">>,
              <<~ still, "target_unstable">>,
              <<Ever("inserted"), "non_target_inserted">>,
              <<"wrong" \in seen, "wrong_target_grasped">>,
              <<"non_target_unchanged" \notin found, "non_target_moved">>,
              <<"preloaded_fruits_remain" \notin found, "preloaded_fruit_ejected">>,
              <<~ clear, "unsafe_retreat">> >>)
        IN  /\ checks' = found
            /\ IF reason = "none" THEN Goto("return") /\ UNCHANGED outcome
               ELSE Fail(reason)
  BY DEF Judge
<1> DEFINE found == checks \cup Undisturbed
                      \cup (IF target = "basket" THEN {"target_newly_inside"} ELSE {})
                      \cup (IF clear THEN {"safe_retreat"} ELSE {})
           tests == << <<target # "basket", "target_outside_basket">>,
                       <<"fully_released" \notin found, "incomplete_release">>,
                       <<~ still, "target_unstable">>,
                       <<Ever("inserted"), "non_target_inserted">>,
                       <<"wrong" \in seen, "wrong_target_grasped">>,
                       <<"non_target_unchanged" \notin found, "non_target_moved">>,
                       <<"preloaded_fruits_remain" \notin found, "preloaded_fruit_ejected">>,
                       <<~ clear, "unsafe_retreat">> >>
<1>4. /\ "non_target_unchanged" \in found => "moved" \notin seen
      /\ "preloaded_fruits_remain" \in found => ~ Ever("ejected")
  BY <1>1 DEF Undisturbed
<1> HIDE DEF found
<1>5. /\ DOMAIN tests = 1 .. 8
      /\ tests[4][1] = Ever("inserted") /\ tests[5][1] = ("wrong" \in seen)
      /\ tests[6][1] = ("non_target_unchanged" \notin found)
      /\ tests[7][1] = ("preloaded_fruits_remain" \notin found)
      /\ \A i \in 1 .. 8 : tests[i][2] # "success" /\ tests[i][2] # "none"
  OBVIOUS
<1>6. IF FirstOf(tests) = "none" THEN pc' = "return" /\ outcome' = outcome
      ELSE pc' = "finish" /\ outcome' = FirstOf(tests)
  BY <1>3 DEF found, Goto, Fail
<1> HIDE DEF tests
<1>7. \/ FirstOf(tests) = "none" /\ \A i \in DOMAIN tests : ~ tests[i][1]
      \/ \E i \in DOMAIN tests : tests[i][1] /\ FirstOf(tests) = tests[i][2]
  BY <1>5, FirstOfIs
<1>8. CASE FirstOf(tests) # "none"
  <2>1. pc' = "finish" /\ outcome' # "success" /\ ~ watching'
    BY <1>1, <1>5, <1>6, <1>7, <1>8
  <2> QED
    BY <1>1, <1>2, <2>1, FailStep
<1>9. CASE FirstOf(tests) = "none"
  <2>1. pc' = "return" /\ outcome' = outcome
    BY <1>6, <1>9
  <2>2. ~ Ever("inserted") /\ "wrong" \notin seen /\ "moved" \notin seen /\ ~ Ever("ejected")
    <3>1. \A i \in DOMAIN tests : ~ tests[i][1]
      BY <1>5, <1>7, <1>9
    <3>2. ~ tests[4][1] /\ ~ tests[5][1] /\ ~ tests[6][1] /\ ~ tests[7][1]
      BY <1>5, <3>1
    <3>3. "non_target_unchanged" \in found /\ "preloaded_fruits_remain" \in found
      BY <1>5, <3>2
    <3>4. ~ Ever("inserted") /\ "wrong" \notin seen
      BY <1>5, <3>2 DEF Ever
    <3> QED
      BY <1>4, <3>3, <3>4
  <2>3. ASSUME NEW h \in happened PROVE h.kind = "arms" \/ Unseen(h)
    <3>1. /\ h.kind \in {"table", "arms", "camera", "wrong", "moved", "inserted", "ejected"}
          /\ h.kind \notin Contacts => h.watched
          /\ h.watched /\ ~ h.brief => h.kind \in seen
          /\ h.stays /\ h.watched => h.kind \in seen \/ (h.brief /\ h.phase = "target_settle")
      BY <1>1 DEF RolloutInv, SeenInv, Kinds
    <3>2. CASE h.kind \in {"table", "camera", "wrong"}
      BY <1>1, <2>2, <3>1, <3>2 DEF Unseen, Contacts
    <3>3. CASE h.kind = "moved"
      BY <2>2, <3>1, <3>3 DEF Unseen, Contacts
    <3>4. CASE h.kind \in {"inserted", "ejected"}
      <4>1. h.kind \notin seen /\ ~ h.stays
        BY <2>2, <3>4 DEF Ever, IsNow
      <4> QED
        BY <3>1, <3>4, <4>1 DEF Unseen, Contacts
    <3> QED
      BY <3>1, <3>2, <3>3, <3>4
  <2>4. RolloutTypes'
    BY <1>1, <1>2, <2>1 DEF RolloutInv, RolloutTypes, OfPlace, OfLift, Over, AfterJudge,
       AfterVerify
  <2>5. SureInv'
    BY <1>1, <1>2, <2>1, <2>3 DEF SureInv, AfterVerify
  <2> QED
    BY <1>2, <2>4, <2>5 DEF RolloutInv
<1> QED
  BY <1>8, <1>9

\* The return and the hold: what goes wrong in them is not looked at again.
LEMMA ReturnSteps == RolloutInv /\ (ReturnToReady \/ TerminalHold) => RolloutInv'
<1> SUFFICES ASSUME RolloutInv, ReturnToReady \/ TerminalHold PROVE RolloutInv'
  OBVIOUS
<1>1. job \in Jobs /\ job.pace \in Nat /\ job.pace >= Every
      /\ job.task \in {"place_one", "lift_basket"}
  BY HoldsAreSampled DEF RolloutInv, RolloutTypes, Jobs
<1>2. CASE ReturnToReady
  <2>1. /\ pc = "return" /\ UNCHANGED <<job, watching>> /\ ~ watching
        /\ job.task = "place_one"
        /\ \/ /\ Motion("return_to_ready", "return_start", "return_end", job.pace)
              /\ pc' = "mark" /\ outcome' = outcome
           \/ /\ Motion("return_to_ready", "return_start", "", job.pace)
              /\ pc' = "finish" /\ outcome' = "arm_return_failed"
    BY <1>2 DEF ReturnToReady, Goto, Fail, Steady, RolloutInv, RolloutTypes, OfPlace,
       AfterJudge
  <2>2. CASE pc' = "mark"
    <3>1. /\ Motion("return_to_ready", "return_start", "return_end", job.pace)
          /\ outcome' = outcome
      BY <2>1, <2>2
    <3>2. /\ pc \in AfterJudge /\ pc \notin Over
          /\ pc' \in OfPlace /\ pc' \notin OfLift /\ pc' \notin Over
          /\ pc' \notin AfterVerify /\ pc' \in AfterJudge
      BY <2>1, <2>2 DEF OfPlace, OfLift, Over, AfterVerify, AfterJudge
    <3> QED
      BY <1>1, <2>1, <2>2, <3>1, <3>2, MoveStep
  <2>3. CASE pc' = "finish"
    <3>1. /\ Motion("return_to_ready", "return_start", "", job.pace)
          /\ outcome' # "success" /\ ~ watching'
      BY <2>1, <2>3
    <3> QED
      BY <1>1, <2>1, <2>3, <3>1, MotionKnows, FailStep
  <2> QED
    BY <2>1, <2>2, <2>3
<1>3. CASE TerminalHold
  <2>1. /\ pc = "terminal_hold" /\ UNCHANGED <<job, watching, outcome>> /\ ~ watching
        /\ Motion("terminal_hold", "terminal_hold_start", "terminal_hold_end", HoldLength)
        /\ pc' \in {"judge_lift", "judge_hold"}
        /\ pc' = "judge_lift" <=> job.task = "lift_basket"
    BY <1>3 DEF TerminalHold, Goto, Steady, RolloutInv, RolloutTypes
  <2>2. /\ pc \in AfterJudge /\ pc \notin Over /\ pc' \notin Over /\ pc' \notin AfterVerify
        /\ pc' \in OfPlace \cup OfLift
        /\ pc' \in OfPlace => pc' = "judge_hold"
        /\ pc' \in OfLift => pc' = "judge_lift"
    BY <2>1 DEF OfPlace, OfLift, Over, AfterVerify, AfterJudge
  <2> QED
    BY <1>1, <2>1, <2>2, HoldsAreSampled, MoveStep
<1> QED
  BY <1>2, <1>3

\* A success is one of the mishaps nobody saw: the arms are asked for at the end.
LEMMA LastJudgement == RolloutInv /\ (JudgeHold \/ JudgeLift) => RolloutInv'
<1> SUFFICES ASSUME RolloutInv, JudgeHold \/ JudgeLift PROVE RolloutInv'
  OBVIOUS
<1>1. /\ pc \in {"judge_hold", "judge_lift"} /\ pc' = "finish"
      /\ UNCHANGED <<job, phase, clock, look, watching, seen, happened>> /\ ~ watching
  BY DEF JudgeHold, JudgeLift, Goto, RolloutInv, RolloutTypes
<1>2. SeenInv' /\ clock' \in Nat /\ look' \in Nat /\ \A h : Unseen(h) <=> Unseen(h)'
  BY <1>1, StillKnows
<1>3. ASSUME outcome' = "success", NEW h \in happened PROVE Unseen(h)
  <2>1. CASE JudgeHold
    <3>1. job.task = "place_one" /\ (h.kind = "arms" \/ Unseen(h))
      BY <2>1 DEF JudgeHold, RolloutInv, RolloutTypes, SureInv, OfPlace, AfterJudge
    <3>2. PICK still \in BOOLEAN, drift \in BOOLEAN, ready \in BOOLEAN :
            LET reason == FirstOf(<<
                  <<target # "basket" \/ ~ still, "target_unstable">>,
                  <<drift, "base_drift">>,
                  <<~ ready, "arm_return_failed">>,
                  <<"arms" \in seen, "inter_arm_collision">> >>)
            IN  outcome' = IF reason = "none" THEN "success" ELSE reason
      BY ZenonT(60), <2>1 DEF JudgeHold
    <3> DEFINE tests == << <<target # "basket" \/ ~ still, "target_unstable">>,
                           <<drift, "base_drift">>,
                           <<~ ready, "arm_return_failed">>,
                           <<"arms" \in seen, "inter_arm_collision">> >>
    <3>3. /\ DOMAIN tests = 1 .. 4 /\ tests[4][1] = ("arms" \in seen)
          /\ \A i \in 1 .. 4 : tests[i][2] # "success" /\ tests[i][2] # "none"
      OBVIOUS
    <3>4. outcome' = IF FirstOf(tests) = "none" THEN "success" ELSE FirstOf(tests)
      BY <3>2
    <3> HIDE DEF tests
    <3>5. DOMAIN tests \subseteq 1 .. 8
      BY <3>3
    <3>6. \/ FirstOf(tests) = "none" /\ \A i \in DOMAIN tests : ~ tests[i][1]
          \/ \E i \in DOMAIN tests : tests[i][1] /\ FirstOf(tests) = tests[i][2]
      BY <3>5, FirstOfIs
    <3>7. "arms" \notin seen
      <4>1. FirstOf(tests) = "none"
        BY <1>3, <3>3, <3>4, <3>6
      <4>2. \A i \in DOMAIN tests : ~ tests[i][1]
        BY <3>3, <3>6, <4>1
      <4>3. ~ tests[4][1]
        BY <3>3, <4>2
      <4> QED
        BY <3>3, <4>3
    <3> QED
      BY <3>1, <3>7 DEF RolloutInv, SeenInv, Unseen, Contacts
  <2>2. CASE JudgeLift
    <3>1. job.task = "lift_basket" /\ h.kind \in {"arms", "ejected"}
      BY <2>2 DEF JudgeLift, RolloutInv, RolloutTypes, SeenInv, OfLift, Kinds
    <3>2. PICK held \in BOOLEAN, drift \in BOOLEAN :
            LET reason == FirstOf(<<
                  <<~ held, "basket_not_lifted">>,
                  <<IsNow("ejected"), "preloaded_fruit_ejected">>,
                  <<drift, "base_drift">>,
                  <<"arms" \in seen, "inter_arm_collision">> >>)
            IN  outcome' = IF reason = "none" THEN "success" ELSE reason
      BY <2>2 DEF JudgeLift
    <3> DEFINE tests == << <<~ held, "basket_not_lifted">>,
                           <<IsNow("ejected"), "preloaded_fruit_ejected">>,
                           <<drift, "base_drift">>,
                           <<"arms" \in seen, "inter_arm_collision">> >>
    <3>3. /\ DOMAIN tests = 1 .. 4 /\ tests[4][1] = ("arms" \in seen)
          /\ tests[2][1] = IsNow("ejected")
          /\ \A i \in 1 .. 4 : tests[i][2] # "success" /\ tests[i][2] # "none"
      OBVIOUS
    <3>4. outcome' = IF FirstOf(tests) = "none" THEN "success" ELSE FirstOf(tests)
      BY <3>2
    <3> HIDE DEF tests
    <3>5. DOMAIN tests \subseteq 1 .. 8
      BY <3>3
    <3>6. \/ FirstOf(tests) = "none" /\ \A i \in DOMAIN tests : ~ tests[i][1]
          \/ \E i \in DOMAIN tests : tests[i][1] /\ FirstOf(tests) = tests[i][2]
      BY <3>5, FirstOfIs
    <3>7. "arms" \notin seen /\ ~ IsNow("ejected")
      <4>1. FirstOf(tests) = "none"
        BY <1>3, <3>3, <3>4, <3>6
      <4>2. \A i \in DOMAIN tests : ~ tests[i][1]
        BY <3>3, <3>6, <4>1
      <4>3. ~ tests[4][1] /\ ~ tests[2][1]
        BY <3>3, <4>2
      <4> QED
        BY <3>3, <4>3 DEF IsNow
    <3> QED
      BY <3>1, <3>7 DEF RolloutInv, SeenInv, IsNow, Unseen, Contacts
  <2> QED
    BY <2>1, <2>2
<1>4. RolloutTypes'
  BY <1>1, <1>2 DEF RolloutInv, RolloutTypes, OfPlace, OfLift, Over, AfterVerify, AfterJudge
<1>5. SureInv'
  BY <1>1, <1>2, <1>3 DEF SureInv, AfterVerify, AfterJudge
<1> QED
  BY <1>2, <1>4, <1>5 DEF RolloutInv

\* The basket is grasped and lifted with the monitors of the fruits off.
LEMMA BasketSteps == RolloutInv /\ (BasketApproach \/ BasketGrasp \/ BasketLift) => RolloutInv'
<1> SUFFICES ASSUME RolloutInv, BasketApproach \/ BasketGrasp \/ BasketLift PROVE RolloutInv'
  OBVIOUS
<1>1. PICK p, e, f :
        /\ Motion(p, e, f, job.pace)
        /\ UNCHANGED <<job, watching>> /\ pc \in OfLift
        /\ \/ pc' \in {"basket_grasp", "basket_lift", "terminal_hold"} /\ outcome' = outcome
           \/ pc' = "finish" /\ outcome' = "basket_not_grasped"
  <2>1. CASE BasketApproach
    BY <2>1 DEF BasketApproach, Goto, Steady, OfLift
  <2>2. CASE BasketGrasp
    BY <2>2 DEF BasketGrasp, Goto, Fail, OfLift
  <2>3. CASE BasketLift
    BY <2>3 DEF BasketLift, Goto, Steady, OfLift
  <2> QED
    BY <2>1, <2>2, <2>3
<1>2. /\ job \in Jobs /\ job.pace \in Nat /\ job.pace >= Every
      /\ job.task = "lift_basket" /\ ~ watching /\ ~ watching' /\ pc \notin Over
  BY <1>1, HoldsAreSampled DEF RolloutInv, RolloutTypes, OfLift, Over
<1>3. CASE pc' = "finish"
  <2>1. outcome' # "success"
    BY <1>1, <1>3
  <2> QED
    BY <1>1, <1>2, <1>3, <2>1, MotionKnows, FailStep
<1>4. CASE pc' # "finish"
  <2>1. pc' \in {"basket_grasp", "basket_lift", "terminal_hold"} /\ outcome' = outcome
    BY <1>1, <1>4
  <2>2. /\ pc' \notin Over /\ pc' \notin OfPlace /\ pc' \notin AfterVerify
        /\ pc' \in {"terminal_hold"} \cup OfLift /\ pc' # "judge"
    BY <2>1 DEF OfPlace, OfLift, Over, AfterVerify, AfterJudge
  <2> QED
    BY <1>1, <1>2, <2>1, <2>2, MoveStep
<1> QED
  BY <1>3, <1>4

\* Only a success is saved.
LEMMA MarkAndFinish == RolloutInv /\ (MarkSuccess \/ Finish) => RolloutInv'
<1> SUFFICES ASSUME RolloutInv, MarkSuccess \/ Finish PROVE RolloutInv'
  OBVIOUS
<1>1. /\ UNCHANGED <<job, phase, clock, look, watching, seen, happened, checks, outcome>>
      /\ \/ pc = "mark" /\ pc' = "terminal_hold"
         \/ pc = "finish" /\ pc' = IF outcome = "success" THEN "saved" ELSE "dropped"
  BY DEF MarkSuccess, Finish, Goto
<1>2. SeenInv' /\ clock' \in Nat /\ look' \in Nat /\ \A h : Unseen(h) <=> Unseen(h)'
  BY <1>1, StillKnows
<1>3. RolloutTypes'
  BY <1>1, <1>2 DEF RolloutInv, RolloutTypes, OfPlace, OfLift, Over, AfterVerify, AfterJudge
<1>4. SureInv'
  BY <1>1, <1>2 DEF RolloutInv, SureInv, AfterVerify, AfterJudge
<1> QED
  BY <1>2, <1>3, <1>4 DEF RolloutInv

\* Every step of the rollout keeps the invariant.
LEMMA RolloutKeeps == RolloutInv /\ Next => RolloutInv'
BY RolloutRests, InitialHoldStep, ApproachSteps, VerifyStep, CarrySteps, JudgePlaceStep,
   ReturnSteps, LastJudgement, BasketSteps, MarkAndFinish
   DEF Next, PlaceStep, LiftStep, Ended

-----------------------------------------------------------------------------
(* The rollout keeps its frames, events and checks together. *)

\* n frames of phase p are recorded, and the first time of event e wins.
Films(p, e, f, n) ==
  /\ n \in Nat \ {0}
  /\ frames' \in Seq(Phases)
  /\ Len(frames') = Len(frames) + n
  /\ \A i \in 1 .. Len(frames) : frames'[i] = frames[i]
  /\ \A i \in Len(frames) + 1 .. Len(frames') : frames'[i] = p
  /\ events' \in [Events -> Nat \cup {Unset}]
  /\ \A x \in Events :
       events'[x] = IF x = f THEN Len(frames')
                    ELSE IF x = e /\ events[x] = Unset THEN Len(frames) ELSE events[x]

Filmed(p, e, f, steps) ==
  \E n \in Nat : Films(p, e, f, n) /\ (steps >= Fps * Every => n >= Fps)

\* A hold of at least a second of steps is a second of frames.
LEMMA HoldsFillASecond ==
  ASSUME clock \in Nat, NEW steps \in Nat, steps >= Fps * Every
  PROVE  Sampled(steps) >= Fps
<1>1. Every \in Nat /\ Every > 0 /\ Fps \in Nat
  BY RolloutAssumption
<1>2. Fps * Every \in Nat
  BY <1>1
<1>3. \A x, d, q \in Nat : d > 0 /\ x >= q * d => x \div d >= q
  OBVIOUS
<1>4. clock + steps \in Nat /\ clock + steps >= Fps * Every
  BY <1>2
<1> QED
  BY <1>1, <1>3, <1>4 DEF Sampled

\* What a motion adds to the frames, and which events it notes.
LEMMA MotionFilms ==
  ASSUME RolloutInv, FrameTypes, NEW p \in Phases, NEW e, NEW f,
         NEW steps \in Nat, steps >= Every, Motion(p, e, f, steps)
  PROVE  Filmed(p, e, f, steps)
<1> DEFINE n == Sampled(steps)
           more == [i \in 1 .. n |-> p]
<1>1. clock \in Nat
  BY DEF RolloutInv, RolloutTypes
<1>2. n \in Nat \ {0}
  <2>1. Every \in Nat /\ Every > 0
    BY RolloutAssumption
  <2>2. n \in Int
    BY <1>1, <2>1 DEF Sampled
  <2> QED
    BY <1>1, <2>2, MotionIsSampled
<1>3. steps >= Fps * Every => n >= Fps
  BY <1>1, HoldsFillASecond
<1> HIDE DEF n
<1>4. more \in Seq(Phases) /\ Len(more) = n /\ \A i \in 1 .. n : more[i] = p
  <2>1. more \in [1 .. n -> Phases] /\ \A i \in 1 .. n : more[i] = p
    OBVIOUS
  <2>2. more \in Seq(Phases)
    BY <1>2, <2>1, SeqDef
  <2>3. Len(more) \in Nat /\ 1 .. n = 1 .. Len(more)
    BY <2>1, <2>2, LenProperties
  <2>4. Len(more) = n
    BY <1>2, <2>3
  <2> QED
    BY <2>1, <2>2, <2>4
<1>5. frames' = frames \o more /\ frames \in Seq(Phases)
  BY DEF Motion, Pass, FrameTypes, n
<1> HIDE DEF more
<1>6. /\ frames' \in Seq(Phases) /\ Len(frames') = Len(frames) + n
      /\ \A i \in 1 .. Len(frames) : frames'[i] = frames[i]
      /\ \A i \in Len(frames) + 1 .. Len(frames') : frames'[i] = p
  <2>1. /\ frames' \in Seq(Phases) /\ Len(frames') = Len(frames) + Len(more)
        /\ \A i \in 1 .. Len(frames) + Len(more) :
             frames'[i] = IF i <= Len(frames) THEN frames[i] ELSE more[i - Len(frames)]
    BY <1>4, <1>5, ConcatProperties
  <2>2. Len(frames) \in Nat /\ Len(frames') = Len(frames) + n /\ Len(more) = n
    BY <1>4, <1>5, <2>1
  <2>3. ASSUME NEW i \in 1 .. Len(frames) PROVE frames'[i] = frames[i]
    BY <1>2, <2>1, <2>2
  <2>4. ASSUME NEW i \in Len(frames) + 1 .. Len(frames') PROVE frames'[i] = p
    <3>1. i - Len(frames) \in 1 .. n /\ ~ (i <= Len(frames)) /\ i \in 1 .. Len(frames) + Len(more)
      BY <1>2, <2>2
    <3> QED
      BY <1>4, <2>1, <3>1
  <2> QED
    BY <2>1, <2>2, <2>3, <2>4
<1>7. events' = Note(Latch(events, e), f, Len(frames'))
  BY DEF Motion
<1>8. events \in [Events -> Nat \cup {Unset}] /\ Len(frames) \in Nat /\ Len(frames') \in Nat
  BY <1>5, <1>6 DEF FrameTypes
<1>9. /\ Latch(events, e) \in [Events -> Nat \cup {Unset}]
      /\ \A x \in Events :
           Latch(events, e)[x] = IF x = e /\ events[x] = Unset THEN Len(frames) ELSE events[x]
  BY <1>8 DEF Latch
<1>10. /\ events' \in [Events -> Nat \cup {Unset}]
       /\ \A x \in Events : events'[x] = IF x = f THEN Len(frames') ELSE Latch(events, e)[x]
  BY <1>7, <1>8, <1>9 DEF Note
<1>11. Films(p, e, f, n)
  BY <1>2, <1>6, <1>9, <1>10 DEF Films
<1> QED
  BY <1>2, <1>3, <1>11 DEF Filmed

\* Frames are only added, and so are the events that point at them.
LEMMA FilmsTyped ==
  ASSUME FrameTypes, NEW p, NEW e, NEW f, NEW n, Films(p, e, f, n),
         pc' \in Over => outcome' # "none"
  PROVE  FrameTypes'
<1>1. Len(frames) \in Nat /\ Len(frames) <= Len(frames')
  BY DEF FrameTypes, Films
<1>2. \A x \in Events : events'[x] <= Len(frames')
  BY <1>1 DEF FrameTypes, Films, Unset
<1> QED
  BY <1>2 DEF FrameTypes, Films

\* The frames between two events that stay where they were stay what they were.
LEMMA BetweenStays ==
  ASSUME FrameTypes, NEW p, NEW e, NEW f, NEW n, Films(p, e, f, n),
         NEW x \in Events, NEW y \in Events, NEW q,
         events'[x] = events[x], events'[y] = events[y], events[x] # Unset, Between(x, y, q)
  PROVE  Between(x, y, q)'
<1>1. /\ events[x] \in Nat \cup {Unset} /\ events[y] \in Nat \cup {Unset}
      /\ events[y] <= Len(frames) /\ Len(frames) \in Nat
  BY DEF FrameTypes
<1>2. \A i \in events[x] + 1 .. events[y] : frames'[i] = q
  <2> TAKE i \in events[x] + 1 .. events[y]
  <2>1. i \in 1 .. Len(frames)
    BY <1>1 DEF Unset
  <2> QED
    BY <2>1 DEF Between, Films
<1> QED
  BY <1>2 DEF Between

\* A motion with both its events has its frames between them.
LEMMA BetweenNew ==
  ASSUME FrameTypes, NEW p, NEW e \in Events, NEW f \in Events, NEW n, Films(p, e, f, n),
         e # f, events[e] = Unset
  PROVE  /\ Between(e, f, p)' /\ events'[e] # Unset /\ events'[f] - events'[e] = n
         /\ events'[e] = Len(frames)
<1>1. events'[e] = Len(frames) /\ events'[f] = Len(frames') /\ Len(frames) \in Nat
      /\ Len(frames') = Len(frames) + n /\ n \in Nat \ {0}
  BY DEF Films, FrameTypes
<1>2. \A i \in events'[e] + 1 .. events'[f] : frames'[i] = p
  BY <1>1 DEF Films
<1> QED
  BY <1>1, <1>2 DEF Between, Unset

\* Where the runs of q end in the first m entries of s.
RunEnds(s, m, q) == {i \in 1 .. m : s[i] = q /\ (i = m \/ s[i + 1] # q)}

\* Entries of another kind end no run, and n more of a kind end one.
LEMMA RunEndsExtended ==
  ASSUME NEW m \in Nat, NEW last \in Nat, m < last,
         NEW s, NEW t, NEW p, NEW q,
         \A i \in 1 .. m : t[i] = s[i],
         \A i \in m + 1 .. last : t[i] = p
  PROVE  /\ p # q => RunEnds(t, last, q) = RunEnds(s, m, q)
         /\ (m > 0 => s[m] # p) => RunEnds(t, last, p) = RunEnds(s, m, p) \cup {last}
<1>1. \A r : \A i \in 1 .. m - 1 :
        (t[i] = r /\ (i = last \/ t[i + 1] # r)) <=> (s[i] = r /\ (i = m \/ s[i + 1] # r))
  <2> TAKE r
  <2> TAKE i \in 1 .. m - 1
  <2>1. i \in 1 .. m /\ i + 1 \in 1 .. m /\ i # m /\ i # last
    OBVIOUS
  <2> QED
    BY <2>1
<1>2. m > 0 => t[m] = s[m] /\ t[m + 1] = p
  <2>1. m > 0 => m \in 1 .. m /\ m + 1 \in m + 1 .. last
    OBVIOUS
  <2> QED
    BY <2>1
<1>3. \A i \in m + 1 .. last - 1 : t[i] = p /\ t[i + 1] = p
  <2> TAKE i \in m + 1 .. last - 1
  <2>1. i \in m + 1 .. last /\ i + 1 \in m + 1 .. last
    OBVIOUS
  <2> QED
    BY <2>1
<1>4. t[last] = p
  <2>1. last \in m + 1 .. last
    OBVIOUS
  <2> QED
    BY <2>1
<1>5. /\ \A i \in 1 .. last :
           i \in 1 .. m - 1 \/ (i = m /\ m > 0) \/ i \in m + 1 .. last - 1 \/ i = last
      /\ \A i \in 1 .. m : i \in 1 .. m - 1 \/ (i = m /\ m > 0)
      /\ \A i \in 1 .. m - 1 : i \in 1 .. m /\ i \in 1 .. last
      /\ \A i \in m + 1 .. last - 1 : i \notin 1 .. m /\ i # last
      /\ m # last /\ last \in 1 .. last /\ last \notin 1 .. m
      /\ m > 0 => m \in 1 .. m /\ m \in 1 .. last
  OBVIOUS
<1>6. ASSUME p # q PROVE RunEnds(t, last, q) = RunEnds(s, m, q)
  <2>1. \A i \in RunEnds(t, last, q) : i \in RunEnds(s, m, q)
    <3> TAKE i \in RunEnds(t, last, q)
    <3>1. i \in 1 .. last /\ t[i] = q /\ (i = last \/ t[i + 1] # q)
      BY DEF RunEnds
    <3>2. i \in 1 .. m - 1 \/ (i = m /\ m > 0)
      BY <1>3, <1>4, <1>5, <1>6, <3>1
    <3>3. i \in 1 .. m /\ s[i] = q /\ (i = m \/ s[i + 1] # q)
      BY <1>1, <1>2, <1>5, <3>1, <3>2
    <3> QED
      BY <3>3 DEF RunEnds
  <2>2. \A i \in RunEnds(s, m, q) : i \in RunEnds(t, last, q)
    <3> TAKE i \in RunEnds(s, m, q)
    <3>1. i \in 1 .. m /\ s[i] = q /\ (i = m \/ s[i + 1] # q)
      BY DEF RunEnds
    <3>2. i \in 1 .. m - 1 \/ (i = m /\ m > 0)
      BY <1>5, <3>1
    <3>3. i \in 1 .. last /\ t[i] = q /\ (i = last \/ t[i + 1] # q)
      BY <1>1, <1>2, <1>5, <1>6, <3>1, <3>2
    <3> QED
      BY <3>3 DEF RunEnds
  <2> QED
    BY <2>1, <2>2
<1>7. ASSUME m > 0 => s[m] # p PROVE RunEnds(t, last, p) = RunEnds(s, m, p) \cup {last}
  <2>1. \A i \in RunEnds(t, last, p) : i \in RunEnds(s, m, p) \cup {last}
    <3> TAKE i \in RunEnds(t, last, p)
    <3>1. i \in 1 .. last /\ t[i] = p /\ (i = last \/ t[i + 1] # p)
      BY DEF RunEnds
    <3>2. i \in 1 .. m - 1 \/ i = last
      BY <1>2, <1>3, <1>5, <1>7, <3>1
    <3>3. i # last => i \in 1 .. m /\ s[i] = p /\ (i = m \/ s[i + 1] # p)
      BY <1>1, <1>5, <3>1, <3>2
    <3> QED
      BY <3>3 DEF RunEnds
  <2>2. \A i \in RunEnds(s, m, p) : i \in RunEnds(t, last, p)
    <3> TAKE i \in RunEnds(s, m, p)
    <3>1. i \in 1 .. m /\ s[i] = p /\ (i = m \/ s[i + 1] # p)
      BY DEF RunEnds
    <3>2. i \in 1 .. m - 1
      BY <1>5, <1>7, <3>1
    <3>3. i \in 1 .. last /\ t[i] = p /\ (i = last \/ t[i + 1] # p)
      BY <1>1, <1>5, <3>1, <3>2
    <3> QED
      BY <3>3 DEF RunEnds
  <2>3. last \in RunEnds(t, last, p)
    BY <1>4, <1>5 DEF RunEnds
  <2> QED
    BY <2>1, <2>2, <2>3
<1> QED
  BY <1>6, <1>7

\* A motion in another phase closes no gripper; one that closes it after another
\* phase is one more run of frames.
LEMMA RunsCount ==
  ASSUME FrameTypes, NEW p, NEW e, NEW f, NEW n, Films(p, e, f, n), NEW q
  PROVE  /\ Runs(q) \in Nat
         /\ p # q => Runs(q)' = Runs(q)
         /\ p = q /\ (Len(frames) > 0 => frames[Len(frames)] # p) => Runs(q)' = Runs(q) + 1
<1>1. PICK s, t, m, last : s = frames /\ t = frames' /\ m = Len(frames) /\ last = Len(frames')
  OBVIOUS
<1>2. m \in Nat /\ last \in Nat /\ m < last /\ Len(frames') = last
  BY <1>1 DEF Films, FrameTypes
<1>3. DOMAIN s = 1 .. m /\ DOMAIN t = 1 .. last
  BY <1>1, <1>2 DEF Films, FrameTypes
<1>4. Runs(q) = Cardinality(RunEnds(s, m, q))
  BY <1>1, <1>3 DEF Runs, RunEnds
<1>5. Runs(q)' = Cardinality(RunEnds(t, last, q))
  BY <1>1, <1>2, <1>3 DEF Runs, RunEnds
<1>6. (\A i \in 1 .. m : t[i] = s[i]) /\ (\A i \in m + 1 .. last : t[i] = p)
  BY <1>1, <1>2 DEF Films
<1>7. /\ p # q => RunEnds(t, last, q) = RunEnds(s, m, q)
      /\ (m > 0 => s[m] # p) => RunEnds(t, last, p) = RunEnds(s, m, p) \cup {last}
  BY <1>2, <1>6, RunEndsExtended
<1>8. /\ IsFiniteSet(RunEnds(s, m, q)) /\ Cardinality(RunEnds(s, m, q)) \in Nat
      /\ last \notin RunEnds(s, m, q)
  <2>1. IsFiniteSet(1 .. m)
    BY <1>2, FS_Interval
  <2>2. RunEnds(s, m, q) \subseteq 1 .. m
    BY DEF RunEnds
  <2>3. last \notin 1 .. m
    BY <1>2
  <2> QED
    BY <2>1, <2>2, <2>3, FS_Subset, FS_CardinalityType
<1>9. Cardinality(RunEnds(s, m, q) \cup {last}) = Cardinality(RunEnds(s, m, q)) + 1
  BY <1>8, FS_AddElement
<1> QED
  BY <1>1, <1>4, <1>5, <1>7, <1>8, <1>9

\* The head of the frames stays, and the last is of the last motion.
LEMMA HeadStays ==
  ASSUME FrameTypes, HeadInv, pc # "initial_hold", pc' # "initial_hold",
         NEW p, NEW e, NEW f, NEW n, Films(p, e, f, n), phase' = p
  PROVE  HeadInv'
<1>1. Len(frames) \in Nat /\ n \in Nat \ {0} /\ Len(frames') = Len(frames) + n /\ Fps \in Nat
  BY RolloutAssumption DEF Films, FrameTypes
<1>2. Len(frames) >= Fps /\ Len(frames') >= Fps /\ \A i \in 1 .. Fps : i \in 1 .. Len(frames)
  BY <1>1 DEF HeadInv
<1>3. Len(frames') \in Len(frames) + 1 .. Len(frames')
  BY <1>1
<1> QED
  BY <1>2, <1>3 DEF HeadInv, Films

\* A motion that notes neither event of another leaves it as marked as it was.
LEMMA MarkedStays ==
  ASSUME FrameTypes, NEW p, NEW e, NEW f, NEW n, Films(p, e, f, n),
         NEW x \in Events, NEW y \in Events, NEW q, NEW later,
         events'[x] = events[x], events'[y] = events[y],
         pc' \in later <=> pc \in later, MarkedAfter(later, x, y, q)
  PROVE  MarkedAfter(later, x, y, q)'
<1>1. CASE pc \in later
  <2>1. events[x] # Unset /\ Between(x, y, q)
    BY <1>1 DEF MarkedAfter
  <2>2. Between(x, y, q)'
    BY <2>1, BetweenStays
  <2> QED
    BY <1>1, <2>1, <2>2 DEF MarkedAfter
<1>2. CASE pc \notin later
  BY <1>2 DEF MarkedAfter, Nowhere
<1> QED
  BY <1>1, <1>2

\* A motion whose events these are marks them.
LEMMA MarkedNow ==
  ASSUME FrameTypes, NEW p, NEW e \in Events, NEW f \in Events, NEW n, Films(p, e, f, n),
         e # f, NEW later, pc \notin later, pc' \in later, MarkedAfter(later, e, f, p)
  PROVE  /\ MarkedAfter(later, e, f, p)'
         /\ events'[e] = Len(frames) /\ events'[f] - events'[e] = n
<1>1. events[e] = Unset
  BY DEF MarkedAfter, Nowhere
<1>2. /\ Between(e, f, p)' /\ events'[e] # Unset /\ events'[f] - events'[e] = n
      /\ events'[e] = Len(frames)
  BY <1>1, BetweenNew
<1> QED
  BY <1>2 DEF MarkedAfter

\* The events that a property is about, and steps before and after which the same of
\* them have been noted.
Marks == {"grasp_close_start", "grasp_verify_start", "grasp_verified", "release_start",
          "release_end", "retreat_start", "retreat_end", "return_start", "return_end",
          "success", "terminal_hold_start", "terminal_hold_end"}

SameMarks ==
  /\ pc # "verify" /\ pc' # "verify"
  /\ \A later \in {BeforeClose, AfterVerify \cup AfterJudge \cup Over, AfterRelease,
                   AfterRetreat, AfterReturn, AfterReturn \ {"mark"}, AfterHold} :
       pc' \in later <=> pc \in later

\* A motion without an event of its own.
LEMMA QuietMotion ==
  ASSUME FrameTypes, PlaceMarks, HoldMarks, NEW p, NEW e, NEW f, NEW n, Films(p, e, f, n),
         e \notin Marks, f \notin Marks, SameMarks
  PROVE  PlaceMarks' /\ HoldMarks'
<1>1. \A x \in Marks : x \in Events /\ events'[x] = events[x]
  BY DEF Films, Marks, Events
<1>2. GraspInv'
  <2>1. pc' \in BeforeClose <=> pc \in BeforeClose
    BY DEF SameMarks
  <2>2. pc' \in AfterVerify \cup AfterJudge \cup Over <=> pc \in AfterVerify \cup AfterJudge \cup Over
    BY DEF SameMarks
  <2>3. pc \in BeforeClose => Nowhere({"grasp_close_start", "grasp_verify_start", "grasp_verified"})'
    BY <1>1 DEF PlaceMarks, GraspInv, Nowhere, Marks
  <2>4. ASSUME pc \in AfterVerify \cup AfterJudge \cup Over
        PROVE  /\ events'["grasp_close_start"] # Unset /\ events'["grasp_verify_start"] # Unset
               /\ Between("grasp_close_start", "grasp_verify_start", "gripper_close")'
               /\ Between("grasp_verify_start", "grasp_verified", "grasp_verify")'
    <3>1. /\ events["grasp_close_start"] # Unset /\ events["grasp_verify_start"] # Unset
          /\ Between("grasp_close_start", "grasp_verify_start", "gripper_close")
          /\ Between("grasp_verify_start", "grasp_verified", "grasp_verify")
      BY <2>4 DEF PlaceMarks, GraspInv
    <3>2. \A x \in {"grasp_close_start", "grasp_verify_start", "grasp_verified"} :
            x \in Events /\ events'[x] = events[x]
      BY <1>1 DEF Marks
    <3> QED
      BY <3>1, <3>2, BetweenStays
  <2> QED
    BY <2>1, <2>2, <2>3, <2>4 DEF GraspInv, SameMarks
<1>3. MarkedAfter(AfterRelease, "release_start", "release_end", "release")'
  <2>1. pc' \in AfterRelease <=> pc \in AfterRelease
    BY DEF SameMarks
  <2>2. \A x \in {"release_start", "release_end"} : x \in Events /\ events'[x] = events[x]
    BY <1>1 DEF Marks
  <2> QED
    BY <2>1, <2>2, MarkedStays DEF PlaceMarks
<1>4. MarkedAfter(AfterRetreat, "retreat_start", "retreat_end", "retreat")'
  <2>1. pc' \in AfterRetreat <=> pc \in AfterRetreat
    BY DEF SameMarks
  <2>2. \A x \in {"retreat_start", "retreat_end"} : x \in Events /\ events'[x] = events[x]
    BY <1>1 DEF Marks
  <2> QED
    BY <2>1, <2>2, MarkedStays DEF PlaceMarks
<1>5. MarkedAfter(AfterReturn, "return_start", "return_end", "return_to_ready")'
  <2>1. pc' \in AfterReturn <=> pc \in AfterReturn
    BY DEF SameMarks
  <2>2. \A x \in {"return_start", "return_end"} : x \in Events /\ events'[x] = events[x]
    BY <1>1 DEF Marks
  <2> QED
    BY <2>1, <2>2, MarkedStays DEF PlaceMarks
<1>6. MarkedAfter(AfterHold, "terminal_hold_start", "terminal_hold_end", "terminal_hold")'
  <2>1. pc' \in AfterHold <=> pc \in AfterHold
    BY DEF SameMarks
  <2>2. \A x \in {"terminal_hold_start", "terminal_hold_end"} :
          x \in Events /\ events'[x] = events[x]
    BY <1>1 DEF Marks
  <2> QED
    BY <2>1, <2>2, MarkedStays DEF HoldMarks
<1>7. /\ pc' \in AfterRetreat => events'["release_end"] <= events'["retreat_start"]
      /\ pc' \in AfterReturn => events'["retreat_end"] <= events'["return_start"]
      /\ pc' \in AfterReturn \ {"mark"} =>
           events'["success"] # Unset /\ events'["return_end"] <= events'["success"]
      /\ pc' \in AfterHold => events'["success"] <= events'["terminal_hold_start"]
      /\ pc' \in AfterHold =>
           events'["terminal_hold_end"] - events'["terminal_hold_start"] >= Fps
  BY <1>1 DEF SameMarks, PlaceMarks, HoldMarks, Marks
<1> QED
  BY <1>2, <1>3, <1>4, <1>5, <1>6, <1>7 DEF PlaceMarks, HoldMarks

\* A step without a motion or an event.
LEMMA QuietStill ==
  ASSUME PlaceMarks, HoldMarks, UNCHANGED <<frames, events>>, SameMarks
  PROVE  PlaceMarks' /\ HoldMarks'
<1>1. \A x, y, q : Between(x, y, q)' <=> Between(x, y, q)
  BY DEF Between
<1>2. GraspInv'
  BY <1>1 DEF PlaceMarks, GraspInv, SameMarks, Nowhere
<1>3. \A later \in {AfterRelease, AfterRetreat, AfterReturn, AfterHold} :
        \A x, y, q : MarkedAfter(later, x, y, q)' <=> MarkedAfter(later, x, y, q)
  BY <1>1 DEF MarkedAfter, Nowhere, SameMarks
<1> QED
  BY <1>2, <1>3 DEF PlaceMarks, HoldMarks, SameMarks

\* The closes of the gripper are counted by the motions that close it.
LEMMA ClosesStay ==
  ASSUME FrameTypes, ClosesInv, NEW p, NEW e, NEW f, NEW n, Films(p, e, f, n),
         p # "gripper_close", phase' = p, grasps' = grasps,
         pc' \in BeforeClose <=> pc \in BeforeClose
  PROVE  ClosesInv'
<1>1. Runs("gripper_close")' = Runs("gripper_close")
  BY RunsCount
<1> QED
  BY <1>1 DEF ClosesInv

\* A motion of a rollout that is not over, with no event of its own.
LEMMA QuietPlaceStep ==
  ASSUME RolloutInv, FrameInv, job.task = "place_one", job' = job,
         pc \notin Over, pc' \notin Over, pc # "initial_hold", pc' # "initial_hold",
         NEW p \in Phases, NEW e, NEW f, NEW steps \in Nat, steps >= Every,
         Motion(p, e, f, steps), e \notin Marks, f \notin Marks, SameMarks,
         p # "gripper_close", grasps' = grasps, PlaceChecks'
  PROVE  FrameInv'
<1>1. FrameTypes /\ HeadInv /\ HoldMarks /\ PlaceMarks /\ ClosesInv
  BY DEF FrameInv, MarksInv, Promising
<1>2. PICK n \in Nat : Films(p, e, f, n)
  BY <1>1, MotionFilms DEF Filmed
<1>3. phase' = p
  BY DEF Motion
<1>4. FrameTypes'
  BY <1>1, <1>2, FilmsTyped
<1>5. HeadInv'
  BY <1>1, <1>2, <1>3, HeadStays
<1>6. PlaceMarks' /\ HoldMarks'
  BY <1>1, <1>2, QuietMotion
<1>7. pc' \in BeforeClose <=> pc \in BeforeClose
  BY DEF SameMarks
<1>8. ClosesInv'
  BY <1>1, <1>2, <1>3, <1>7, ClosesStay
<1> QED
  BY <1>4, <1>5, <1>6, <1>8 DEF FrameInv, MarksInv

\* A rollout that stops for a reason is not saved: its frames alone matter.
LEMMA FailFrames ==
  ASSUME RolloutInv, FrameInv, pc # "initial_hold",
         NEW p \in Phases, NEW e, NEW f, NEW steps \in Nat, steps >= Every,
         Motion(p, e, f, steps), pc' = "finish", outcome' \notin {"none", "success"}
  PROVE  FrameInv'
<1>1. FrameTypes /\ HeadInv
  BY DEF FrameInv
<1>2. PICK n \in Nat : Films(p, e, f, n)
  BY <1>1, MotionFilms DEF Filmed
<1>3. phase' = p
  BY DEF Motion
<1>4. FrameTypes' /\ HeadInv'
  BY <1>1, <1>2, <1>3, FilmsTyped, HeadStays
<1>5. ~ Promising'
  BY DEF Promising, Over
<1> QED
  BY <1>4, <1>5 DEF FrameInv, MarksInv

\* The same of a judgement, which records nothing.
LEMMA FailStill ==
  ASSUME FrameInv, UNCHANGED <<phase, frames, events>>, pc # "initial_hold",
         pc' \in {"finish", "dropped"}, outcome' \notin {"none", "success"}
  PROVE  FrameInv'
<1>1. ~ Promising'
  BY DEF Promising, Over
<1>2. FrameTypes' /\ HeadInv'
  BY DEF FrameInv, FrameTypes, HeadInv
<1> QED
  BY <1>1, <1>2 DEF FrameInv, MarksInv

\* Nothing is recorded at the start.
LEMMA FramesStart == Init => FrameInv
<1> SUFFICES ASSUME Init PROVE FrameInv
  OBVIOUS
<1>1. /\ frames = << >> /\ events = [e \in Events |-> Unset] /\ pc = "initial_hold"
      /\ outcome = "none" /\ grasps = [attempts |-> 0, retries |-> 0]
  BY DEF Init
<1>2. FrameTypes
  BY <1>1 DEF FrameTypes, Over, Unset
<1>3. \A x \in Events : events[x] = Unset
  BY <1>1
<1>4. HoldMarks /\ PlaceMarks
  BY <1>1, <1>3 DEF HoldMarks, PlaceMarks, MarkedAfter, Nowhere, GraspInv, BeforeClose,
     AfterVerify, AfterJudge, AfterRelease, AfterRetreat, AfterReturn, AfterHold, Over, Events
<1>5. Runs("gripper_close") = 0
  <2>1. \A i \in DOMAIN frames : FALSE
    BY <1>1
  <2>2. {i \in DOMAIN frames : frames[i] = "gripper_close"
           /\ (i = Len(frames) \/ frames[i + 1] # "gripper_close")} = {}
    BY <2>1
  <2> QED
    BY <2>2, FS_EmptySet DEF Runs
<1>6. ClosesInv
  BY <1>1, <1>5 DEF ClosesInv, BeforeClose
<1>7. PlaceChecks /\ LiftChecks
  BY <1>1 DEF PlaceChecks, LiftChecks, AfterVerify, AfterJudge, Over
<1> QED
  BY <1>1, <1>2, <1>4, <1>6, <1>7 DEF FrameInv, MarksInv, HeadInv

\* A rollout that does not run records nothing.
LEMMA FramesRest == FrameInv /\ UNCHANGED vars => FrameInv'
<1> SUFFICES ASSUME FrameInv, UNCHANGED vars PROVE FrameInv'
  OBVIOUS
<1>1. /\ job' = job /\ pc' = pc /\ phase' = phase /\ frames' = frames /\ events' = events
      /\ grasps' = grasps /\ checks' = checks /\ outcome' = outcome
  BY DEF vars
<1>2. FrameTypes' /\ HeadInv' /\ (Promising' <=> Promising)
  BY <1>1 DEF FrameInv, FrameTypes, HeadInv, Promising
<1>3. \A x, y, q : Between(x, y, q)' <=> Between(x, y, q)
  BY <1>1 DEF Between
<1>4. \A later, x, y, q : MarkedAfter(later, x, y, q)' <=> MarkedAfter(later, x, y, q)
  BY <1>1, <1>3 DEF MarkedAfter, Nowhere
<1>5. HoldMarks' <=> HoldMarks
  BY <1>1, <1>4 DEF HoldMarks
<1>6. GraspInv' <=> GraspInv
  BY <1>1, <1>3 DEF GraspInv, Nowhere
<1>7. PlaceMarks' <=> PlaceMarks
  BY <1>1, <1>4, <1>6 DEF PlaceMarks
<1>8. (ClosesInv' <=> ClosesInv) /\ (PlaceChecks' <=> PlaceChecks) /\ (LiftChecks' <=> LiftChecks)
  BY <1>1 DEF ClosesInv, Runs, PlaceChecks, LiftChecks, Required
<1>9. MarksInv' <=> MarksInv
  BY <1>1, <1>2, <1>5, <1>7, <1>8 DEF MarksInv
<1> QED
  BY <1>2, <1>9 DEF FrameInv

\* The hold that every rollout begins with.
LEMMA InitialHoldFrames == RolloutInv /\ FrameInv /\ InitialHold => FrameInv'
<1> SUFFICES ASSUME RolloutInv, FrameInv, InitialHold PROVE FrameInv'
  OBVIOUS
<1>1. /\ pc = "initial_hold" /\ UNCHANGED <<job, grasps, checks>>
      /\ Motion("initial_hold", "", "initial_hold_end", InitialSteps)
      /\ job.task \in {"place_one", "lift_basket"}
  BY DEF InitialHold, Steady, RolloutInv, RolloutTypes, Jobs
<1>2. \/ pc' = "finish" /\ outcome' = "target_initially_inside"
      \/ /\ outcome' = outcome /\ outcome' # "success"
         /\ pc' \in {"basket_approach", "approach", "prefix"}
         /\ pc' = "basket_approach" <=> job.task = "lift_basket"
  BY <1>1 DEF InitialHold, Fail, Goto, RolloutInv, RolloutTypes, Over
<1>3. FrameTypes
  BY DEF FrameInv
<1>4. InitialSteps \in Nat /\ InitialSteps >= Every /\ InitialSteps >= Fps * Every
  BY HoldsAreSampled, RolloutAssumption
<1>5. PICK n \in Nat : Films("initial_hold", "", "initial_hold_end", n)
                         /\ (InitialSteps >= Fps * Every => n >= Fps)
  <2>1. "initial_hold" \in Phases
    BY DEF Phases
  <2>2. Filmed("initial_hold", "", "initial_hold_end", InitialSteps)
    BY <1>1, <1>3, <1>4, <2>1, MotionFilms
  <2> QED
    BY <2>2 DEF Filmed
<1>6. n >= Fps
  BY <1>4, <1>5
<1>7. phase' = "initial_hold" /\ frames = << >> /\ Len(frames) = 0
  <2>1. phase' = "initial_hold" /\ frames = << >>
    BY <1>1 DEF Motion, FrameInv, HeadInv
  <2> QED
    BY <2>1
<1>8. FrameTypes'
  BY <1>2, <1>3, <1>5, FilmsTyped DEF Over
<1>9. HeadInv'
  <2>1. Len(frames) = 0 /\ Len(frames') = n /\ n \in Nat \ {0} /\ Fps \in Nat
    <3>1. n \in Nat \ {0} /\ Len(frames') = Len(frames) + n
      BY <1>5 DEF Films
    <3> QED
      BY <1>7, <3>1, RolloutAssumption
  <2>2. \A i \in 1 .. n : frames'[i] = "initial_hold"
    <3>1. \A i \in Len(frames) + 1 .. Len(frames') : frames'[i] = "initial_hold"
      BY <1>5 DEF Films
    <3> QED
      BY <2>1, <3>1
  <2>3. n \in 1 .. n /\ \A i \in 1 .. Fps : i \in 1 .. n
    BY <1>6, <2>1
  <2>4. pc' # "initial_hold"
    BY <1>2
  <2> QED
    BY <1>6, <1>7, <2>1, <2>2, <2>3, <2>4 DEF HeadInv
<1>10. CASE pc' = "finish"
  <2>1. ~ Promising'
    BY <1>2, <1>10 DEF Promising, Over
  <2> QED
    BY <1>8, <1>9, <2>1 DEF FrameInv, MarksInv
<1>11. CASE pc' # "finish"
  <2>1. /\ outcome' # "success" /\ pc' \in {"basket_approach", "approach", "prefix"}
        /\ pc' = "basket_approach" <=> job.task = "lift_basket"
    BY <1>2, <1>11
  <2>2. HoldMarks /\ (job.task = "place_one" => PlaceMarks /\ ClosesInv)
    BY <1>1 DEF FrameInv, MarksInv, Promising, Over
  <2>3. \A x \in {"terminal_hold_start", "terminal_hold_end"} :
          x \in Events /\ events'[x] = events[x]
    BY <1>5 DEF Films, Events
  <2>4. HoldMarks'
    <3>1. pc' \in AfterHold <=> pc \in AfterHold
      BY <1>1, <2>1 DEF AfterHold, Over
    <3>2. MarkedAfter(AfterHold, "terminal_hold_start", "terminal_hold_end", "terminal_hold")'
      BY <1>3, <1>5, <2>2, <2>3, <3>1, MarkedStays DEF HoldMarks
    <3>3. pc' \notin AfterHold
      BY <2>1 DEF AfterHold, Over
    <3> QED
      BY <3>2, <3>3 DEF HoldMarks
  <2>5. ASSUME job.task = "place_one" PROVE PlaceMarks' /\ ClosesInv' /\ PlaceChecks'
    <3>1. SameMarks
      BY <1>1, <2>1, <2>5 DEF SameMarks, BeforeClose, AfterVerify, AfterJudge, Over,
         AfterRelease, AfterRetreat, AfterReturn, AfterHold
    <3>2. PlaceMarks'
      BY <1>3, <1>5, <2>2, <2>5, <3>1, QuietMotion DEF Marks
    <3>3. ClosesInv'
      BY <1>3, <1>5, <1>7, <1>1, <2>2, <2>5, <3>1, ClosesStay DEF SameMarks
    <3>4. PlaceChecks'
      BY <2>1 DEF PlaceChecks, AfterVerify, AfterJudge, Over
    <3> QED
      BY <3>2, <3>3, <3>4
  <2>6. LiftChecks'
    BY <2>1 DEF LiftChecks, Over
  <2> QED
    BY <1>1, <1>8, <1>9, <2>4, <2>5, <2>6 DEF FrameInv, MarksInv
<1> QED
  BY <1>10, <1>11

\* The motions that note no event of the grasp, the release or the way back.
LEMMA QuietFrames ==
  RolloutInv /\ FrameInv
  /\ (\/ Prefix \/ PrefixAlign \/ Reopen \/ RecoveryRetreat \/ Approach \/ Pregrasp
      \/ LiftFromTable \/ Transport \/ LowerIntoBasket \/ ReleaseVerify \/ TargetSettle)
    => FrameInv'
<1> SUFFICES ASSUME RolloutInv, FrameInv,
                    \/ Prefix \/ PrefixAlign \/ Reopen \/ RecoveryRetreat \/ Approach
                    \/ Pregrasp \/ LiftFromTable \/ Transport \/ LowerIntoBasket
                    \/ ReleaseVerify \/ TargetSettle
             PROVE  FrameInv'
  OBVIOUS
<1> DEFINE Fore == BeforeClose \ {"initial_hold", "close"}
           Aft == {"lift", "transport", "lower", "release_verify", "settle"}
<1>1. job \in Jobs /\ job.pace \in Nat /\ job.pace >= Every
  BY HoldsAreSampled DEF RolloutInv, RolloutTypes
<1>2. PICK p, e :
        /\ Motion(p, e, "", job.pace)
        /\ job' = job /\ grasps' = grasps
        /\ p \in Phases \ {"gripper_close"} /\ e \in {"", "approach_start", "pregrasp_start"}
        /\ checks \subseteq checks'
        /\ \/ pc \in Fore /\ pc' \in BeforeClose \ {"initial_hold"}
           \/ pc \in {"lift", "transport"} /\ pc' \in {"transport", "lower"}
           \/ pc = "lower" /\ pc' = "release"
           \/ pc = "release_verify" /\ pc' = "retreat"
           \/ pc = "settle" /\ pc' = "judge"
  <2>1. CASE Prefix \/ PrefixAlign
    BY <2>1 DEF Prefix, PrefixAlign, Goto, Steady, BeforeClose, Phases
  <2>2. CASE Reopen \/ RecoveryRetreat
    BY <2>2 DEF Reopen, RecoveryRetreat, Goto, Steady, BeforeClose, Phases
  <2>3. CASE Approach \/ Pregrasp
    BY <2>3 DEF Approach, Pregrasp, Goto, Steady, BeforeClose, Phases
  <2>4. CASE LiftFromTable \/ Transport \/ LowerIntoBasket
    BY <2>4 DEF LiftFromTable, Transport, LowerIntoBasket, Carry, Goto, Steady, Phases
  <2>5. CASE ReleaseVerify \/ TargetSettle
    BY <2>5 DEF ReleaseVerify, TargetSettle, Goto, Steady, Phases
  <2> QED
    BY <2>1, <2>2, <2>3, <2>4, <2>5
<1>3. /\ pc \in OfPlace /\ pc \notin Over /\ pc' \notin Over
      /\ pc # "initial_hold" /\ pc' # "initial_hold"
      /\ pc \notin AfterJudge /\ pc' \notin AfterJudge
      /\ pc' \in AfterVerify => pc \in AfterVerify
  BY <1>2 DEF BeforeClose, OfPlace, Over, AfterVerify, AfterJudge
<1>4. SameMarks
  BY <1>2 DEF SameMarks, BeforeClose, AfterVerify, AfterJudge, Over, AfterRelease,
     AfterRetreat, AfterReturn, AfterHold
<1>5. job.task = "place_one"
  BY <1>3 DEF RolloutInv, RolloutTypes
<1>6. e \notin Marks /\ "" \notin Marks
  BY <1>2 DEF Marks
<1>7. PlaceChecks'
  <2>1. PlaceChecks
    BY <1>3, <1>5 DEF FrameInv, MarksInv, Promising
  <2> QED
    BY <1>2, <1>3, <2>1 DEF PlaceChecks
<1> QED
  BY <1>1, <1>2, <1>3, <1>4, <1>5, <1>6, <1>7, QuietPlaceStep

\* The gripper closes once more.
LEMMA ClosesGrow ==
  ASSUME FrameTypes, HeadInv, ClosesInv, pc \in {"prefix_close", "close"},
         NEW e, NEW f, NEW n, Films("gripper_close", e, f, n)
  PROVE  Runs("gripper_close")' = grasps.attempts + 1
<1>1. phase # "gripper_close" /\ frames[Len(frames)] = phase
  BY DEF HeadInv, ClosesInv
<1>2. Runs("gripper_close")' = Runs("gripper_close") + 1
  BY <1>1, RunsCount
<1> QED
  BY <1>2 DEF ClosesInv

\* The close over the fruit is a try, and a retry unless it grasps by mistake.
LEMMA PrefixCloseFrames == RolloutInv /\ FrameInv /\ PrefixClose => FrameInv'
<1> SUFFICES ASSUME RolloutInv, FrameInv, PrefixClose PROVE FrameInv'
  OBVIOUS
<1>1. /\ pc = "prefix_close" /\ UNCHANGED <<job, checks>>
      /\ Motion("gripper_close", "recovery_close_start", "", job.pace)
      /\ \/ pc' = "finish" /\ outcome' = "recovery_setup_invalid"
         \/ /\ pc' = "reopen"
            /\ grasps' = [attempts |-> grasps.attempts + 1, retries |-> grasps.retries + 1]
  BY DEF PrefixClose, Fail, Goto
<1>2. /\ job.pace \in Nat /\ job.pace >= Every /\ job.task = "place_one"
      /\ "gripper_close" \in Phases
  BY <1>1, HoldsAreSampled DEF RolloutInv, RolloutTypes, OfPlace, Phases
<1>3. CASE pc' = "finish"
  BY <1>1, <1>2, <1>3, FailFrames
<1>4. CASE pc' = "reopen"
  <2>1. FrameTypes /\ HeadInv /\ HoldMarks /\ PlaceMarks /\ ClosesInv
    BY <1>1, <1>2 DEF FrameInv, MarksInv, Promising, Over
  <2>2. PICK n \in Nat : Films("gripper_close", "recovery_close_start", "", n)
    <3>1. Filmed("gripper_close", "recovery_close_start", "", job.pace)
      BY <1>1, <1>2, <2>1, MotionFilms
    <3> QED
      BY <3>1 DEF Filmed
  <2>3. phase' = "gripper_close"
    BY <1>1 DEF Motion
  <2>4. FrameTypes' /\ HeadInv'
    BY <1>1, <1>4, <2>1, <2>2, <2>3, FilmsTyped, HeadStays DEF Over
  <2>5. SameMarks
    BY <1>1, <1>4 DEF SameMarks, BeforeClose, AfterVerify, AfterJudge, Over,
       AfterRelease, AfterRetreat, AfterReturn, AfterHold
  <2>6. PlaceMarks' /\ HoldMarks'
    <3>1. "recovery_close_start" \notin Marks /\ "" \notin Marks
      BY DEF Marks
    <3> QED
      BY <2>1, <2>2, <2>5, <3>1, QuietMotion
  <2>7. ClosesInv'
    <3>1. Runs("gripper_close")' = grasps.attempts + 1
      BY <1>1, <2>1, <2>2, ClosesGrow
    <3>2. /\ grasps.attempts \in Nat /\ grasps.retries \in Nat
          /\ grasps.retries = grasps.attempts
      BY <1>1, <2>1 DEF ClosesInv, BeforeClose
    <3>3. /\ grasps' \in [attempts : Nat, retries : Nat]
          /\ grasps'.attempts = grasps.attempts + 1 /\ grasps'.retries = grasps.retries + 1
      <4>1. grasps' = [attempts |-> grasps.attempts + 1, retries |-> grasps.retries + 1]
        BY <1>1, <1>4
      <4> QED
        BY <3>2, <4>1
    <3> QED
      BY <1>4, <3>1, <3>2, <3>3 DEF ClosesInv, BeforeClose
  <2>8. PlaceChecks'
    BY <1>4 DEF PlaceChecks, AfterVerify, AfterJudge, Over
  <2> QED
    BY <1>1, <1>2, <2>4, <2>6, <2>7, <2>8 DEF FrameInv, MarksInv
<1> QED
  BY <1>1, <1>3, <1>4

\* The close that is verified next: its frames begin where its event points.
LEMMA CloseFrames == RolloutInv /\ FrameInv /\ Close => FrameInv'
<1> SUFFICES ASSUME RolloutInv, FrameInv, Close PROVE FrameInv'
  OBVIOUS
<1>1. /\ pc = "close" /\ UNCHANGED <<job, checks, outcome>> /\ pc' = "verify"
      /\ Motion("gripper_close", "grasp_close_start", "", job.pace)
      /\ grasps' = [grasps EXCEPT !.attempts = @ + 1]
  BY DEF Close, Goto
<1>2. /\ job.pace \in Nat /\ job.pace >= Every /\ job.task = "place_one"
      /\ "gripper_close" \in Phases
  BY <1>1, HoldsAreSampled DEF RolloutInv, RolloutTypes, OfPlace, Phases
<1>3. FrameTypes /\ HeadInv /\ HoldMarks /\ PlaceMarks /\ ClosesInv
  BY <1>1, <1>2 DEF FrameInv, MarksInv, Promising, Over
<1>4. PICK n \in Nat : Films("gripper_close", "grasp_close_start", "", n)
  <2>1. Filmed("gripper_close", "grasp_close_start", "", job.pace)
    BY <1>1, <1>2, <1>3, MotionFilms
  <2> QED
    BY <2>1 DEF Filmed
<1>5. phase' = "gripper_close"
  BY <1>1 DEF Motion
<1>6. FrameTypes' /\ HeadInv'
  BY <1>1, <1>3, <1>4, <1>5, FilmsTyped, HeadStays DEF Over
<1>7. \A x \in Marks \ {"grasp_close_start"} : x \in Events /\ events'[x] = events[x]
  BY <1>4 DEF Films, Marks, Events
<1>8. events'["grasp_close_start"] = Len(frames)
  <2>1. "grasp_close_start" \in Events /\ events["grasp_close_start"] = Unset
    BY <1>1, <1>3 DEF PlaceMarks, GraspInv, Nowhere, BeforeClose, Events
  <2> QED
    BY <1>4, <2>1 DEF Films
<1>9. GraspInv'
  <2>1. /\ Len(frames) \in Nat /\ n \in Nat \ {0} /\ Len(frames') = Len(frames) + n
        /\ \A i \in Len(frames) + 1 .. Len(frames') : frames'[i] = "gripper_close"
    <3>1. Len(frames) \in Nat
      BY <1>3 DEF FrameTypes
    <3>2. n \in Nat \ {0} /\ Len(frames') = Len(frames) + n
      BY <1>4 DEF Films
    <3>3. \A i \in Len(frames) + 1 .. Len(frames') : frames'[i] = "gripper_close"
      BY <1>4 DEF Films
    <3> QED
      BY <3>1, <3>2, <3>3
  <2>2. Nowhere({"grasp_verify_start", "grasp_verified"})'
    BY <1>1, <1>3, <1>7 DEF PlaceMarks, GraspInv, Nowhere, BeforeClose, Marks
  <2>3. pc' \notin BeforeClose /\ pc' \notin AfterVerify \cup AfterJudge \cup Over
    BY <1>1 DEF BeforeClose, AfterVerify, AfterJudge, Over
  <2>4. events'["grasp_close_start"] # Unset /\ events'["grasp_close_start"] < Len(frames')
    BY <1>8, <2>1 DEF Unset
  <2> QED
    BY <1>8, <2>1, <2>2, <2>3, <2>4 DEF GraspInv
<1>10. /\ pc \notin AfterRelease /\ pc' \notin AfterRelease
       /\ pc \notin AfterRetreat /\ pc' \notin AfterRetreat
       /\ pc \notin AfterReturn /\ pc' \notin AfterReturn
       /\ pc \notin AfterHold /\ pc' \notin AfterHold
  BY <1>1 DEF AfterRelease, AfterRetreat, AfterReturn, AfterHold, Over
<1>11. PlaceMarks' /\ HoldMarks'
  BY <1>3, <1>7, <1>9, <1>10 DEF PlaceMarks, HoldMarks, MarkedAfter, Nowhere, Marks
<1>12. ClosesInv'
  <2>1. Runs("gripper_close")' = grasps.attempts + 1
    BY <1>1, <1>3, <1>4, ClosesGrow
  <2>2. /\ grasps.attempts \in Nat /\ grasps.retries \in Nat
        /\ grasps.retries = grasps.attempts /\ grasps \in [attempts : Nat, retries : Nat]
    BY <1>1, <1>3 DEF ClosesInv, BeforeClose
  <2>3. /\ grasps' \in [attempts : Nat, retries : Nat]
        /\ grasps'.attempts = grasps.attempts + 1 /\ grasps'.retries = grasps.retries
    <3>1. grasps' = [grasps EXCEPT !.attempts = @ + 1]
      BY <1>1
    <3> QED
      BY <2>2, <3>1
  <2>4. pc' = "verify"
    BY <1>1
  <2> QED
    BY <2>1, <2>2, <2>3, <2>4 DEF ClosesInv, BeforeClose
<1>13. PlaceChecks'
  BY <1>1 DEF PlaceChecks, AfterVerify, AfterJudge, Over
<1> QED
  BY <1>1, <1>2, <1>6, <1>11, <1>12, <1>13 DEF FrameInv, MarksInv

\* Which test refused, if one did.
LEMMA RefusedIs == Refused \in {"none", "table_collision", "wrist_camera_view_invalid",
                                "target_not_grasped"}
<1> DEFINE tests == << <<"table" \in seen, "table_collision">>,
                       <<"camera" \in seen, "wrist_camera_view_invalid">>,
                       <<target # "hand", "target_not_grasped">> >>
<1>1. Refused = FirstOf(tests)
  BY DEF Refused
<1>2. /\ DOMAIN tests = {1, 2, 3}
      /\ tests[1][2] = "table_collision"
      /\ tests[2][2] = "wrist_camera_view_invalid"
      /\ tests[3][2] = "target_not_grasped"
  OBVIOUS
<1> HIDE DEF tests
<1>3. \/ FirstOf(tests) = "none" /\ \A i \in DOMAIN tests : ~ tests[i][1]
      \/ \E i \in DOMAIN tests : tests[i][1] /\ FirstOf(tests) = tests[i][2]
  BY <1>2, FirstOfIs
<1> QED
  BY <1>1, <1>2, <1>3

\* The grasp that is verified starts where the close ends.
LEMMA VerifyFrames == RolloutInv /\ FrameInv /\ VerifyGrasp => FrameInv'
<1> SUFFICES ASSUME RolloutInv, FrameInv, VerifyGrasp PROVE FrameInv'
  OBVIOUS
<1>1. /\ pc = "verify" /\ UNCHANGED <<job, grasps>>
      /\ Motion("grasp_verify", "grasp_verify_start", "grasp_verified", job.pace)
  BY DEF VerifyGrasp
<1>2. /\ job.pace \in Nat /\ job.pace >= Every /\ job.task = "place_one"
      /\ "grasp_verify" \in Phases
  BY <1>1, HoldsAreSampled DEF RolloutInv, RolloutTypes, OfPlace, Phases
<1>3. CASE Refused # "none"
  <2>1. pc' = "finish" /\ outcome' \notin {"none", "success"}
    BY <1>3, RefusedIs DEF VerifyGrasp, Fail
  <2> QED
    BY <1>1, <1>2, <2>1, FailFrames
<1>4. CASE Refused = "none"
  <2>1. /\ checks' = {"wrist_camera_view_valid"} /\ pc' = "lift"
    BY <1>4 DEF VerifyGrasp, Goto
  <2>2. FrameTypes /\ HeadInv /\ HoldMarks /\ PlaceMarks /\ ClosesInv
    BY <1>1, <1>2 DEF FrameInv, MarksInv, Promising, Over
  <2>3. PICK n \in Nat : Films("grasp_verify", "grasp_verify_start", "grasp_verified", n)
    <3>1. Filmed("grasp_verify", "grasp_verify_start", "grasp_verified", job.pace)
      BY <1>1, <1>2, <2>2, MotionFilms
    <3> QED
      BY <3>1 DEF Filmed
  <2>4. phase' = "grasp_verify"
    BY <1>1 DEF Motion
  <2>5. FrameTypes' /\ HeadInv'
    BY <1>1, <2>1, <2>2, <2>3, <2>4, FilmsTyped, HeadStays DEF Over
  <2>6. \A x \in Marks \ {"grasp_verify_start", "grasp_verified"} :
          x \in Events /\ events'[x] = events[x]
    BY <2>3 DEF Films, Marks, Events
  <2>7. GraspInv'
    <3>1. /\ Nowhere({"grasp_verify_start", "grasp_verified"})
          /\ events["grasp_close_start"] # Unset
          /\ events["grasp_close_start"] < Len(frames)
          /\ \A i \in events["grasp_close_start"] + 1 .. Len(frames) :
               frames[i] = "gripper_close"
      BY <1>1, <2>2 DEF PlaceMarks, GraspInv
    <3>2. /\ "grasp_close_start" \in Events /\ "grasp_verify_start" \in Events
          /\ "grasp_verified" \in Events /\ "grasp_close_start" \in Marks
      BY DEF Events, Marks
    <3>3. events["grasp_verify_start"] = Unset
      BY <3>1 DEF Nowhere
    <3>4. /\ Between("grasp_verify_start", "grasp_verified", "grasp_verify")'
          /\ events'["grasp_verify_start"] # Unset
          /\ events'["grasp_verify_start"] = Len(frames)
      BY <2>2, <2>3, <3>2, <3>3, BetweenNew
    <3>5. events'["grasp_close_start"] = events["grasp_close_start"]
      BY <2>6, <3>2
    <3>6. Between("grasp_close_start", "grasp_verify_start", "gripper_close")'
      <4>1. events["grasp_close_start"] \in Nat /\ Len(frames) \in Nat
        BY <2>2, <3>1, <3>2 DEF FrameTypes
      <4>2. \A i \in events["grasp_close_start"] + 1 .. Len(frames) : i \in 1 .. Len(frames)
        BY <4>1
      <4>3. \A i \in events["grasp_close_start"] + 1 .. Len(frames) :
              frames'[i] = "gripper_close"
        BY <2>3, <3>1, <4>2 DEF Films
      <4> QED
        BY <3>1, <3>4, <3>5, <4>3 DEF Between
    <3>7. pc' \notin BeforeClose /\ pc' # "verify"
      BY <2>1 DEF BeforeClose
    <3> QED
      BY <3>1, <3>4, <3>5, <3>6, <3>7 DEF GraspInv
  <2>8. /\ pc \notin AfterRelease /\ pc' \notin AfterRelease
        /\ pc \notin AfterRetreat /\ pc' \notin AfterRetreat
        /\ pc \notin AfterReturn /\ pc' \notin AfterReturn
        /\ pc \notin AfterHold /\ pc' \notin AfterHold
        /\ pc \notin BeforeClose /\ pc' \notin BeforeClose
    BY <1>1, <2>1 DEF BeforeClose, AfterRelease, AfterRetreat, AfterReturn, AfterHold, Over
  <2>9. PlaceMarks' /\ HoldMarks'
    BY <2>2, <2>6, <2>7, <2>8 DEF PlaceMarks, HoldMarks, MarkedAfter, Nowhere, Marks
  <2>10. ClosesInv'
    BY <1>1, <2>2, <2>3, <2>4, <2>8, ClosesStay
  <2>11. PlaceChecks'
    BY <2>1 DEF PlaceChecks, AfterJudge, Over
  <2> QED
    BY <1>1, <1>2, <2>5, <2>9, <2>10, <2>11 DEF FrameInv, MarksInv
<1> QED
  BY <1>3, <1>4

\* After the grasp its events stay.
LEMMA GraspStays ==
  ASSUME FrameTypes, GraspInv, NEW p, NEW e, NEW f, NEW n, Films(p, e, f, n),
         {e, f} \cap {"grasp_close_start", "grasp_verify_start", "grasp_verified"} = {},
         pc \in AfterVerify \cup AfterJudge \cup Over,
         pc' \in AfterVerify \cup AfterJudge \cup Over
  PROVE  GraspInv'
<1>1. \A x \in {"grasp_close_start", "grasp_verify_start", "grasp_verified"} :
        x \in Events /\ events'[x] = events[x]
  BY DEF Films, Events
<1>2. /\ events["grasp_close_start"] # Unset /\ events["grasp_verify_start"] # Unset
      /\ Between("grasp_close_start", "grasp_verify_start", "gripper_close")
      /\ Between("grasp_verify_start", "grasp_verified", "grasp_verify")
  BY DEF GraspInv
<1>3. /\ events'["grasp_close_start"] # Unset /\ events'["grasp_verify_start"] # Unset
      /\ Between("grasp_close_start", "grasp_verify_start", "gripper_close")'
      /\ Between("grasp_verify_start", "grasp_verified", "grasp_verify")'
  BY <1>1, <1>2, BetweenStays
<1>4. pc' \notin BeforeClose /\ pc' # "verify"
  BY DEF BeforeClose, AfterVerify, AfterJudge, Over
<1> QED
  BY <1>3, <1>4 DEF GraspInv

\* The release, with both its events.
LEMMA ReleaseFrames == RolloutInv /\ FrameInv /\ Release => FrameInv'
<1> SUFFICES ASSUME RolloutInv, FrameInv, Release PROVE FrameInv'
  OBVIOUS
<1>1. /\ pc = "release" /\ pc' = "release_verify" /\ UNCHANGED <<job, grasps, checks>>
      /\ Motion("release", "release_start", "release_end", job.pace)
  BY DEF Release, Goto, Steady
<1>2. /\ job.pace \in Nat /\ job.pace >= Every /\ job.task = "place_one"
      /\ "release" \in Phases
  BY <1>1, HoldsAreSampled DEF RolloutInv, RolloutTypes, OfPlace, AfterVerify, Phases
<1>3. FrameTypes /\ HeadInv /\ HoldMarks /\ PlaceMarks /\ ClosesInv /\ PlaceChecks
  BY <1>1, <1>2 DEF FrameInv, MarksInv, Promising, Over
<1>4. PICK n \in Nat : Films("release", "release_start", "release_end", n)
  <2>1. Filmed("release", "release_start", "release_end", job.pace)
    BY <1>1, <1>2, <1>3, MotionFilms
  <2> QED
    BY <2>1 DEF Filmed
<1>5. phase' = "release"
  BY <1>1 DEF Motion
<1>6. FrameTypes' /\ HeadInv'
  BY <1>1, <1>3, <1>4, <1>5, FilmsTyped, HeadStays DEF Over
<1>7. \A x \in Marks \ {"release_start", "release_end"} :
        x \in Events /\ events'[x] = events[x]
  BY <1>4 DEF Films, Marks, Events
<1>8. /\ pc \notin AfterRelease /\ pc' \in AfterRelease
      /\ pc \notin AfterRetreat /\ pc' \notin AfterRetreat
      /\ pc \notin AfterReturn /\ pc' \notin AfterReturn
      /\ pc \notin AfterHold /\ pc' \notin AfterHold
      /\ pc \notin BeforeClose /\ pc' \notin BeforeClose
      /\ pc \in AfterVerify /\ pc' \in AfterVerify
      /\ pc \notin AfterJudge /\ pc' \notin AfterJudge /\ pc' \notin Over
  BY <1>1 DEF BeforeClose, AfterRelease, AfterRetreat, AfterReturn, AfterHold, AfterVerify,
     AfterJudge, Over
<1>9. GraspInv'
  BY <1>3, <1>4, <1>8, GraspStays DEF PlaceMarks
<1>10. MarkedAfter(AfterRelease, "release_start", "release_end", "release")'
  <2>1. "release_start" \in Events /\ "release_end" \in Events
    BY DEF Events
  <2> QED
    BY <1>3, <1>4, <1>8, <2>1, MarkedNow DEF PlaceMarks
<1>11. PlaceMarks' /\ HoldMarks'
  BY <1>3, <1>7, <1>8, <1>9, <1>10 DEF PlaceMarks, HoldMarks, MarkedAfter, Nowhere, Marks
<1>12. ClosesInv'
  BY <1>1, <1>3, <1>4, <1>5, <1>8, ClosesStay
<1>13. PlaceChecks'
  BY <1>1, <1>3, <1>8 DEF PlaceChecks
<1> QED
  BY <1>1, <1>2, <1>6, <1>11, <1>12, <1>13 DEF FrameInv, MarksInv

\* The retreat, after the release.
LEMMA RetreatFrames == RolloutInv /\ FrameInv /\ Retreat => FrameInv'
<1> SUFFICES ASSUME RolloutInv, FrameInv, Retreat PROVE FrameInv'
  OBVIOUS
<1>1. /\ pc = "retreat" /\ pc' = "settle" /\ UNCHANGED <<job, grasps, checks>>
      /\ Motion("retreat", "retreat_start", "retreat_end", job.pace)
  BY DEF Retreat, Goto, Steady
<1>2. /\ job.pace \in Nat /\ job.pace >= Every /\ job.task = "place_one"
      /\ "retreat" \in Phases
  BY <1>1, HoldsAreSampled DEF RolloutInv, RolloutTypes, OfPlace, AfterVerify, Phases
<1>3. FrameTypes /\ HeadInv /\ HoldMarks /\ PlaceMarks /\ ClosesInv /\ PlaceChecks
  BY <1>1, <1>2 DEF FrameInv, MarksInv, Promising, Over
<1>4. PICK n \in Nat : Films("retreat", "retreat_start", "retreat_end", n)
  <2>1. Filmed("retreat", "retreat_start", "retreat_end", job.pace)
    BY <1>1, <1>2, <1>3, MotionFilms
  <2> QED
    BY <2>1 DEF Filmed
<1>5. phase' = "retreat"
  BY <1>1 DEF Motion
<1>6. FrameTypes' /\ HeadInv'
  BY <1>1, <1>3, <1>4, <1>5, FilmsTyped, HeadStays DEF Over
<1>7. \A x \in Marks \ {"retreat_start", "retreat_end"} :
        x \in Events /\ events'[x] = events[x]
  BY <1>4 DEF Films, Marks, Events
<1>8. /\ pc \in AfterRelease /\ pc' \in AfterRelease
      /\ pc \notin AfterRetreat /\ pc' \in AfterRetreat
      /\ pc \notin AfterReturn /\ pc' \notin AfterReturn
      /\ pc \notin AfterHold /\ pc' \notin AfterHold
      /\ pc \notin BeforeClose /\ pc' \notin BeforeClose
      /\ pc \in AfterVerify /\ pc' \in AfterVerify
      /\ pc \notin AfterJudge /\ pc' \notin AfterJudge /\ pc' \notin Over
  BY <1>1 DEF BeforeClose, AfterRelease, AfterRetreat, AfterReturn, AfterHold, AfterVerify,
     AfterJudge, Over
<1>9. GraspInv'
  BY <1>3, <1>4, <1>8, GraspStays DEF PlaceMarks
<1>10. MarkedAfter(AfterRelease, "release_start", "release_end", "release")'
  <2>1. \A x \in {"release_start", "release_end"} : x \in Events /\ events'[x] = events[x]
    BY <1>7 DEF Marks
  <2> QED
    BY <1>3, <1>4, <1>8, <2>1, MarkedStays DEF PlaceMarks
<1>11. /\ MarkedAfter(AfterRetreat, "retreat_start", "retreat_end", "retreat")'
       /\ events'["retreat_start"] = Len(frames)
  <2>1. "retreat_start" \in Events /\ "retreat_end" \in Events
    BY DEF Events
  <2> QED
    BY <1>3, <1>4, <1>8, <2>1, MarkedNow DEF PlaceMarks
<1>12. events'["release_end"] <= events'["retreat_start"]
  BY <1>3, <1>7, <1>11 DEF FrameTypes, Marks
<1>13. PlaceMarks' /\ HoldMarks'
  BY <1>3, <1>7, <1>8, <1>9, <1>10, <1>11, <1>12
     DEF PlaceMarks, HoldMarks, MarkedAfter, Nowhere, Marks
<1>14. ClosesInv'
  BY <1>1, <1>3, <1>4, <1>5, <1>8, ClosesStay
<1>15. PlaceChecks'
  BY <1>1, <1>3, <1>8 DEF PlaceChecks
<1> QED
  BY <1>1, <1>2, <1>6, <1>13, <1>14, <1>15 DEF FrameInv, MarksInv

\* The way back of the arm, unless the wait for it times out.
LEMMA ReturnFrames == RolloutInv /\ FrameInv /\ ReturnToReady => FrameInv'
<1> SUFFICES ASSUME RolloutInv, FrameInv, ReturnToReady PROVE FrameInv'
  OBVIOUS
<1>1. /\ pc = "return" /\ UNCHANGED <<job, grasps, checks>>
      /\ \/ /\ Motion("return_to_ready", "return_start", "return_end", job.pace)
            /\ pc' = "mark" /\ outcome' = outcome
         \/ /\ Motion("return_to_ready", "return_start", "", job.pace)
            /\ pc' = "finish" /\ outcome' = "arm_return_failed"
  BY DEF ReturnToReady, Goto, Fail, Steady
<1>2. /\ job.pace \in Nat /\ job.pace >= Every /\ job.task = "place_one"
      /\ "return_to_ready" \in Phases
  BY <1>1, HoldsAreSampled DEF RolloutInv, RolloutTypes, OfPlace, AfterJudge, Phases
<1>3. CASE pc' = "finish"
  <2>1. /\ Motion("return_to_ready", "return_start", "", job.pace)
        /\ outcome' = "arm_return_failed"
    BY <1>1, <1>3
  <2> QED
    BY <1>1, <1>2, <1>3, <2>1, FailFrames
<1>4. CASE pc' = "mark"
  <2>1. Motion("return_to_ready", "return_start", "return_end", job.pace)
    BY <1>1, <1>4
  <2>2. FrameTypes /\ HeadInv /\ HoldMarks /\ PlaceMarks /\ ClosesInv /\ PlaceChecks
    BY <1>1, <1>2 DEF FrameInv, MarksInv, Promising, Over
  <2>3. PICK n \in Nat : Films("return_to_ready", "return_start", "return_end", n)
    <3>1. Filmed("return_to_ready", "return_start", "return_end", job.pace)
      BY <1>2, <2>1, <2>2, MotionFilms
    <3> QED
      BY <3>1 DEF Filmed
  <2>4. phase' = "return_to_ready"
    BY <2>1 DEF Motion
  <2>5. FrameTypes' /\ HeadInv'
    BY <1>1, <1>4, <2>2, <2>3, <2>4, FilmsTyped, HeadStays DEF Over
  <2>6. \A x \in Marks \ {"return_start", "return_end"} :
          x \in Events /\ events'[x] = events[x]
    BY <2>3 DEF Films, Marks, Events
  <2>7. /\ pc \in AfterRelease /\ pc' \in AfterRelease
        /\ pc \in AfterRetreat /\ pc' \in AfterRetreat
        /\ pc \notin AfterReturn /\ pc' \in AfterReturn /\ pc' \notin AfterReturn \ {"mark"}
        /\ pc \notin AfterHold /\ pc' \notin AfterHold
        /\ pc \notin BeforeClose /\ pc' \notin BeforeClose
        /\ pc \in AfterJudge /\ pc' \in AfterJudge /\ pc' \notin Over
    BY <1>1, <1>4 DEF BeforeClose, AfterRelease, AfterRetreat, AfterReturn, AfterHold,
       AfterJudge, Over
  <2>8. GraspInv'
    BY <2>2, <2>3, <2>7, GraspStays DEF PlaceMarks
  <2>9. MarkedAfter(AfterRelease, "release_start", "release_end", "release")'
    <3>1. \A x \in {"release_start", "release_end"} : x \in Events /\ events'[x] = events[x]
      BY <2>6 DEF Marks
    <3> QED
      BY <2>2, <2>3, <2>7, <3>1, MarkedStays DEF PlaceMarks
  <2>10. MarkedAfter(AfterRetreat, "retreat_start", "retreat_end", "retreat")'
    <3>1. \A x \in {"retreat_start", "retreat_end"} : x \in Events /\ events'[x] = events[x]
      BY <2>6 DEF Marks
    <3> QED
      BY <2>2, <2>3, <2>7, <3>1, MarkedStays DEF PlaceMarks
  <2>11. /\ MarkedAfter(AfterReturn, "return_start", "return_end", "return_to_ready")'
         /\ events'["return_start"] = Len(frames)
    <3>1. "return_start" \in Events /\ "return_end" \in Events
      BY DEF Events
    <3> QED
      BY <2>2, <2>3, <2>7, <3>1, MarkedNow DEF PlaceMarks
  <2>12. /\ events'["release_end"] <= events'["retreat_start"]
         /\ events'["retreat_end"] <= events'["return_start"]
    BY <2>2, <2>6, <2>7, <2>11 DEF PlaceMarks, FrameTypes, Marks
  <2>13. PlaceMarks' /\ HoldMarks'
    BY <2>2, <2>6, <2>7, <2>8, <2>9, <2>10, <2>11, <2>12
       DEF PlaceMarks, HoldMarks, MarkedAfter, Nowhere, Marks
  <2>14. ClosesInv'
    BY <1>1, <2>2, <2>3, <2>4, <2>7, ClosesStay
  <2>15. PlaceChecks'
    BY <1>1, <2>2, <2>7 DEF PlaceChecks
  <2> QED
    BY <1>1, <1>2, <2>5, <2>13, <2>14, <2>15 DEF FrameInv, MarksInv
<1> QED
  BY <1>1, <1>3, <1>4

\* A step that only looks leaves the frames and events as they are.
LEMMA StillFrames ==
  ASSUME FrameInv, UNCHANGED <<phase, frames, events>>, pc # "initial_hold",
         pc' # "initial_hold", pc' \in Over => outcome' # "none"
  PROVE  /\ FrameTypes' /\ HeadInv'
         /\ \A x, y, q : Between(x, y, q)' <=> Between(x, y, q)
         /\ Runs("gripper_close")' = Runs("gripper_close")
BY DEF FrameInv, FrameTypes, HeadInv, Between, Runs

\* The frame of success is the one after the return.
LEMMA MarkFrames == RolloutInv /\ FrameInv /\ MarkSuccess => FrameInv'
<1> SUFFICES ASSUME RolloutInv, FrameInv, MarkSuccess PROVE FrameInv'
  OBVIOUS
<1>1. /\ pc = "mark" /\ pc' = "terminal_hold"
      /\ UNCHANGED <<job, phase, frames, grasps, checks>>
      /\ events' = Note(events, "success", Len(frames))
  BY DEF MarkSuccess, Goto
<1>2. job.task = "place_one"
  BY <1>1 DEF RolloutInv, RolloutTypes, OfPlace, AfterJudge
<1>3. FrameTypes /\ HeadInv /\ HoldMarks /\ PlaceMarks /\ ClosesInv /\ PlaceChecks
  BY <1>1, <1>2 DEF FrameInv, MarksInv, Promising, Over
<1>4. /\ Len(frames) \in Nat /\ events' = [events EXCEPT !["success"] = Len(frames)]
      /\ events'["success"] = Len(frames)
      /\ \A x \in Events \ {"success"} : events'[x] = events[x]
  <2>1. events' = [events EXCEPT !["success"] = Len(frames)]
    BY <1>1 DEF Note, Events
  <2> QED
    BY <1>3, <2>1 DEF FrameTypes, Events
<1>5. FrameTypes' /\ HeadInv'
  <2>1. frames' = frames /\ pc' \notin Over /\ pc' # "initial_hold" /\ pc # "initial_hold"
        /\ phase' = phase
    BY <1>1 DEF Over
  <2>2. events' \in [Events -> Nat \cup {Unset}]
    BY <1>3, <1>4 DEF FrameTypes
  <2>3. \A x \in Events : events'[x] <= Len(frames)
    BY <1>3, <1>4 DEF FrameTypes
  <2> QED
    BY <1>3, <2>1, <2>2, <2>3 DEF FrameTypes, HeadInv
<1>6. \A x \in Marks \ {"success"} : x \in Events /\ events'[x] = events[x]
  BY <1>4 DEF Marks, Events
<1>7. \A x, y \in Marks \ {"success"} : \A q : Between(x, y, q)' <=> Between(x, y, q)
  BY <1>1, <1>6 DEF Between
<1>8. /\ pc \in AfterRelease /\ pc' \in AfterRelease
      /\ pc \in AfterRetreat /\ pc' \in AfterRetreat
      /\ pc \in AfterReturn /\ pc' \in AfterReturn
      /\ pc \notin AfterHold /\ pc' \notin AfterHold
      /\ pc \notin BeforeClose /\ pc' \notin BeforeClose
      /\ pc \in AfterJudge /\ pc' \in AfterJudge /\ pc' \notin Over
      /\ pc' # "verify"
  BY <1>1 DEF BeforeClose, AfterRelease, AfterRetreat, AfterReturn, AfterHold,
     AfterJudge, Over
<1>9. GraspInv'
  BY <1>3, <1>6, <1>7, <1>8 DEF PlaceMarks, GraspInv, Marks
<1>10. \A x, y \in Marks \ {"success"} : \A q :
         \A later \in {AfterRelease, AfterRetreat, AfterReturn, AfterHold} :
           MarkedAfter(later, x, y, q)' <=> MarkedAfter(later, x, y, q)
  BY <1>6, <1>7, <1>8 DEF MarkedAfter, Nowhere
<1>11. /\ MarkedAfter(AfterRelease, "release_start", "release_end", "release")'
       /\ MarkedAfter(AfterRetreat, "retreat_start", "retreat_end", "retreat")'
       /\ MarkedAfter(AfterReturn, "return_start", "return_end", "return_to_ready")'
       /\ MarkedAfter(AfterHold, "terminal_hold_start", "terminal_hold_end",
                      "terminal_hold")'
  BY <1>3, <1>10 DEF PlaceMarks, HoldMarks, Marks
<1>12. /\ events'["release_end"] <= events'["retreat_start"]
       /\ events'["retreat_end"] <= events'["return_start"]
  BY <1>3, <1>6, <1>8 DEF PlaceMarks, Marks
<1>13. events'["success"] # Unset /\ events'["return_end"] <= events'["success"]
  BY <1>3, <1>4, <1>6 DEF FrameTypes, Marks, Unset
<1>14. PlaceMarks' /\ HoldMarks'
  BY <1>8, <1>9, <1>11, <1>12, <1>13 DEF PlaceMarks, HoldMarks
<1>15. ClosesInv'
  <2>1. Runs("gripper_close")' = Runs("gripper_close")
    BY <1>1 DEF Runs
  <2> QED
    BY <1>1, <1>3, <1>8, <2>1 DEF ClosesInv
<1>16. PlaceChecks'
  BY <1>1, <1>3, <1>8 DEF PlaceChecks
<1> QED
  BY <1>1, <1>2, <1>5, <1>14, <1>15, <1>16 DEF FrameInv, MarksInv

\* The hold at the end is a second of frames, in both kinds of rollout.
LEMMA TerminalHoldFrames == RolloutInv /\ FrameInv /\ TerminalHold => FrameInv'
<1> SUFFICES ASSUME RolloutInv, FrameInv, TerminalHold PROVE FrameInv'
  OBVIOUS
<1>1. /\ pc = "terminal_hold" /\ pc' \in {"judge_hold", "judge_lift"}
      /\ UNCHANGED <<job, grasps, checks, outcome>>
      /\ Motion("terminal_hold", "terminal_hold_start", "terminal_hold_end", HoldLength)
      /\ job.task = "place_one" => pc' = "judge_hold"
  BY DEF TerminalHold, Goto, Steady
<1>2. /\ HoldLength \in Nat /\ HoldLength >= Every /\ HoldLength >= Fps * Every
      /\ "terminal_hold" \in Phases
  BY HoldsAreSampled, RolloutAssumption DEF HoldLength, Phases
<1>3. /\ FrameTypes /\ HeadInv /\ HoldMarks
      /\ job.task = "place_one" => PlaceMarks /\ ClosesInv /\ PlaceChecks
  BY <1>1 DEF FrameInv, MarksInv, Promising, Over
<1>4. PICK n \in Nat : Films("terminal_hold", "terminal_hold_start", "terminal_hold_end", n)
                         /\ (HoldLength >= Fps * Every => n >= Fps)
  <2>1. Filmed("terminal_hold", "terminal_hold_start", "terminal_hold_end", HoldLength)
    BY <1>1, <1>2, <1>3, MotionFilms
  <2> QED
    BY <2>1 DEF Filmed
<1>5. phase' = "terminal_hold" /\ n >= Fps
  BY <1>1, <1>2, <1>4 DEF Motion
<1>6. FrameTypes' /\ HeadInv'
  BY <1>1, <1>3, <1>4, <1>5, FilmsTyped, HeadStays DEF Over
<1>7. \A x \in Marks \ {"terminal_hold_start", "terminal_hold_end"} :
        x \in Events /\ events'[x] = events[x]
  BY <1>4 DEF Films, Marks, Events
<1>8. /\ pc \in AfterRelease /\ pc' \in AfterRelease
      /\ pc \in AfterRetreat /\ pc' \in AfterRetreat
      /\ pc \in AfterReturn \ {"mark"} /\ pc' \in AfterReturn \ {"mark"}
      /\ pc \notin AfterHold /\ pc' \in AfterHold
      /\ pc \notin BeforeClose /\ pc' \notin BeforeClose
      /\ pc \in AfterJudge /\ pc' \notin Over
      /\ job.task = "place_one" => pc' \in AfterJudge
  BY <1>1 DEF BeforeClose, AfterRelease, AfterRetreat, AfterReturn, AfterHold,
     AfterJudge, Over
<1>9. /\ MarkedAfter(AfterHold, "terminal_hold_start", "terminal_hold_end",
                     "terminal_hold")'
      /\ events'["terminal_hold_start"] = Len(frames)
      /\ events'["terminal_hold_end"] - events'["terminal_hold_start"] = n
  <2>1. "terminal_hold_start" \in Events /\ "terminal_hold_end" \in Events
    BY DEF Events
  <2> QED
    BY <1>3, <1>4, <1>8, <2>1, MarkedNow DEF HoldMarks
<1>10. HoldMarks'
  BY <1>5, <1>9 DEF HoldMarks
<1>11. ASSUME job.task = "place_one" PROVE PlaceMarks' /\ ClosesInv' /\ PlaceChecks'
  <2>1. PlaceMarks /\ ClosesInv /\ PlaceChecks /\ pc' \in AfterJudge
    BY <1>3, <1>8, <1>11
  <2>2. GraspInv'
    BY <1>3, <1>4, <1>8, <2>1, GraspStays DEF PlaceMarks
  <2>3. MarkedAfter(AfterRelease, "release_start", "release_end", "release")'
    <3>1. \A x \in {"release_start", "release_end"} : x \in Events /\ events'[x] = events[x]
      BY <1>7 DEF Marks
    <3> QED
      BY <1>3, <1>4, <1>8, <2>1, <3>1, MarkedStays DEF PlaceMarks
  <2>4. MarkedAfter(AfterRetreat, "retreat_start", "retreat_end", "retreat")'
    <3>1. \A x \in {"retreat_start", "retreat_end"} : x \in Events /\ events'[x] = events[x]
      BY <1>7 DEF Marks
    <3> QED
      BY <1>3, <1>4, <1>8, <2>1, <3>1, MarkedStays DEF PlaceMarks
  <2>5. MarkedAfter(AfterReturn, "return_start", "return_end", "return_to_ready")'
    <3>1. \A x \in {"return_start", "return_end"} : x \in Events /\ events'[x] = events[x]
      BY <1>7 DEF Marks
    <3> QED
      BY <1>3, <1>4, <1>8, <2>1, <3>1, MarkedStays DEF PlaceMarks
  <2>6. /\ events'["release_end"] <= events'["retreat_start"]
        /\ events'["retreat_end"] <= events'["return_start"]
        /\ events'["success"] # Unset /\ events'["return_end"] <= events'["success"]
    BY <1>7, <1>8, <2>1 DEF PlaceMarks, Marks
  <2>7. events'["success"] <= events'["terminal_hold_start"]
    BY <1>3, <1>7, <1>9 DEF FrameTypes, Marks
  <2>8. PlaceMarks'
    BY <1>8, <2>2, <2>3, <2>4, <2>5, <2>6, <2>7 DEF PlaceMarks
  <2>9. ClosesInv'
    BY <1>1, <1>3, <1>4, <1>5, <1>8, <2>1, ClosesStay
  <2>10. PlaceChecks'
    BY <1>1, <1>8, <2>1 DEF PlaceChecks
  <2> QED
    BY <2>8, <2>9, <2>10
<1>12. LiftChecks'
  BY <1>8 DEF LiftChecks
<1> QED
  BY <1>1, <1>6, <1>10, <1>11, <1>12 DEF FrameInv, MarksInv

\* A rollout that is judged good has the checks the judgement asks for.
LEMMA JudgeFrames == RolloutInv /\ FrameInv /\ Judge => FrameInv'
<1> SUFFICES ASSUME RolloutInv, FrameInv, Judge PROVE FrameInv'
  OBVIOUS
<1>1. /\ pc = "judge" /\ UNCHANGED <<job, phase, frames, events, grasps>>
      /\ job.task = "place_one" /\ outcome = "none"
  BY DEF Judge, RolloutInv, RolloutTypes, OfPlace, AfterVerify, Over
<1>2. PICK still \in BOOLEAN, clear \in BOOLEAN :
        LET found == checks \cup Undisturbed
                       \cup (IF target = "basket" THEN {"target_newly_inside"} ELSE {})
                       \cup (IF clear THEN {"safe_retreat"} ELSE {})
            reason == FirstOf(<<
              <<target # "basket", "target_outside_basket">>,
              <<"fully_released" \notin found, "incomplete_release">>,
              <<~ still, "target_unstable">>,
              <<Ever("inserted"), "non_target_inserted">>,
              <<"wrong" \in seen, "wrong_target_grasped">>,
              <<"non_target_unchanged" \notin found, "non_target_moved">>,
              <<"preloaded_fruits_remain" \notin found, "preloaded_fruit_ejected">>,
              <<~ clear, "unsafe_retreat">> >>)
        IN  /\ checks' = found
            /\ IF reason = "none" THEN Goto("return") /\ UNCHANGED outcome
               ELSE Fail(reason)
  BY DEF Judge
<1> DEFINE found == checks \cup Undisturbed
                      \cup (IF target = "basket" THEN {"target_newly_inside"} ELSE {})
                      \cup (IF clear THEN {"safe_retreat"} ELSE {})
           tests == << <<target # "basket", "target_outside_basket">>,
                       <<"fully_released" \notin found, "incomplete_release">>,
                       <<~ still, "target_unstable">>,
                       <<Ever("inserted"), "non_target_inserted">>,
                       <<"wrong" \in seen, "wrong_target_grasped">>,
                       <<"non_target_unchanged" \notin found, "non_target_moved">>,
                       <<"preloaded_fruits_remain" \notin found, "preloaded_fruit_ejected">>,
                       <<~ clear, "unsafe_retreat">> >>
<1>3. /\ checks \subseteq found
      /\ target = "basket" => "target_newly_inside" \in found
      /\ clear => "safe_retreat" \in found
  OBVIOUS
<1>4. /\ checks' = found
      /\ IF FirstOf(tests) = "none" THEN pc' = "return" /\ outcome' = outcome
         ELSE pc' = "finish" /\ outcome' = FirstOf(tests)
  BY <1>2 DEF Goto, Fail
<1> HIDE DEF found
<1>5. /\ DOMAIN tests = 1 .. 8
      /\ tests[1][1] = (target # "basket")
      /\ tests[2][1] = ("fully_released" \notin found)
      /\ tests[6][1] = ("non_target_unchanged" \notin found)
      /\ tests[7][1] = ("preloaded_fruits_remain" \notin found)
      /\ tests[8][1] = ~ clear
      /\ \A i \in 1 .. 8 : tests[i][2] # "success" /\ tests[i][2] # "none"
  OBVIOUS
<1> HIDE DEF tests
<1>6. \/ FirstOf(tests) = "none" /\ \A i \in DOMAIN tests : ~ tests[i][1]
      \/ \E i \in DOMAIN tests : tests[i][1] /\ FirstOf(tests) = tests[i][2]
  BY <1>5, FirstOfIs
<1>7. CASE FirstOf(tests) # "none"
  <2>1. pc' = "finish" /\ outcome' \notin {"none", "success"}
    BY <1>4, <1>5, <1>6, <1>7
  <2> QED
    BY <1>1, <2>1, FailStill
<1>8. CASE FirstOf(tests) = "none"
  <2>1. pc' = "return"
    BY <1>4, <1>8
  <2>2. {"target_newly_inside", "fully_released", "non_target_unchanged",
         "preloaded_fruits_remain", "safe_retreat"} \subseteq found
    <3>1. \A i \in DOMAIN tests : ~ tests[i][1]
      BY <1>5, <1>6, <1>8
    <3>2. ~ tests[1][1] /\ ~ tests[2][1] /\ ~ tests[6][1] /\ ~ tests[7][1] /\ ~ tests[8][1]
      BY <1>5, <3>1
    <3>3. target = "basket" /\ clear
      BY <1>5, <3>2
    <3>4. /\ "fully_released" \in found /\ "non_target_unchanged" \in found
          /\ "preloaded_fruits_remain" \in found
      BY <1>5, <3>2
    <3> QED
      BY <1>3, <3>3, <3>4
  <2>3. HoldMarks /\ PlaceMarks /\ ClosesInv /\ PlaceChecks
    BY <1>1 DEF FrameInv, MarksInv, Promising, Over
  <2>4. /\ FrameTypes' /\ HeadInv' /\ Runs("gripper_close")' = Runs("gripper_close")
    BY <1>1, <2>1, StillFrames DEF Over
  <2>5. SameMarks
    BY <1>1, <2>1 DEF SameMarks, BeforeClose, AfterVerify, AfterJudge, Over, AfterRelease,
       AfterRetreat, AfterReturn, AfterHold
  <2>6. PlaceMarks' /\ HoldMarks'
    BY <1>1, <2>3, <2>5, QuietStill
  <2>7. ClosesInv'
    BY <1>1, <2>1, <2>3, <2>4 DEF ClosesInv, BeforeClose
  <2>8. PlaceChecks'
    <3>1. "wrist_camera_view_valid" \in checks'
      BY <1>1, <1>3, <1>4, <2>3 DEF PlaceChecks, AfterVerify
    <3>2. {"target_newly_inside", "fully_released", "non_target_unchanged",
           "preloaded_fruits_remain", "safe_retreat"} \subseteq checks'
      BY <1>4, <2>2
    <3> QED
      BY <2>1, <3>1, <3>2 DEF PlaceChecks, Over
  <2> QED
    BY <1>1, <2>4, <2>6, <2>7, <2>8 DEF FrameInv, MarksInv
<1> QED
  BY <1>7, <1>8

\* The last judgement asks for the rest, and the hold is long enough without asking.
LEMMA JudgeHoldFrames == RolloutInv /\ FrameInv /\ JudgeHold => FrameInv'
<1> SUFFICES ASSUME RolloutInv, FrameInv, JudgeHold PROVE FrameInv'
  OBVIOUS
<1>1. /\ pc = "judge_hold" /\ pc' = "finish"
      /\ UNCHANGED <<job, phase, frames, events, grasps>>
      /\ job.task = "place_one"
  BY DEF JudgeHold, Goto, RolloutInv, RolloutTypes, OfPlace, AfterJudge
<1>2. PICK still \in BOOLEAN, drift \in BOOLEAN, ready \in BOOLEAN :
        LET reason == FirstOf(<<
              <<target # "basket" \/ ~ still, "target_unstable">>,
              <<drift, "base_drift">>,
              <<~ ready, "arm_return_failed">>,
              <<"arms" \in seen, "inter_arm_collision">> >>)
        IN  /\ checks' = checks \cup HoldValid
                           \cup (IF ready THEN {"returned_to_ready"} ELSE {})
            /\ outcome' = IF reason = "none" THEN "success" ELSE reason
  BY DEF JudgeHold
<1> DEFINE tests == << <<target # "basket" \/ ~ still, "target_unstable">>,
                       <<drift, "base_drift">>,
                       <<~ ready, "arm_return_failed">>,
                       <<"arms" \in seen, "inter_arm_collision">> >>
<1>3. /\ DOMAIN tests = 1 .. 4 /\ tests[3][1] = ~ ready
      /\ \A i \in 1 .. 4 : tests[i][2] # "success" /\ tests[i][2] # "none"
  OBVIOUS
<1>4. /\ outcome' = IF FirstOf(tests) = "none" THEN "success" ELSE FirstOf(tests)
      /\ checks' = checks \cup HoldValid \cup (IF ready THEN {"returned_to_ready"} ELSE {})
  BY <1>2
<1> HIDE DEF tests
<1>5. DOMAIN tests \subseteq 1 .. 8
  BY <1>3
<1>6. \/ FirstOf(tests) = "none" /\ \A i \in DOMAIN tests : ~ tests[i][1]
      \/ \E i \in DOMAIN tests : tests[i][1] /\ FirstOf(tests) = tests[i][2]
  BY <1>5, FirstOfIs
<1>7. CASE FirstOf(tests) # "none"
  <2>1. outcome' \notin {"none", "success"}
    BY <1>3, <1>4, <1>6, <1>7
  <2> QED
    BY <1>1, <2>1, FailStill
<1>8. CASE FirstOf(tests) = "none"
  <2>1. ready
    <3>1. \A i \in DOMAIN tests : ~ tests[i][1]
      BY <1>3, <1>6, <1>8
    <3>2. ~ tests[3][1]
      BY <1>3, <3>1
    <3> QED
      BY <1>3, <3>2
  <2>2. HoldMarks /\ PlaceMarks /\ ClosesInv /\ PlaceChecks
    BY <1>1 DEF FrameInv, MarksInv, Promising, Over
  <2>3. /\ FrameTypes' /\ HeadInv' /\ Runs("gripper_close")' = Runs("gripper_close")
    BY <1>1, <1>4, <1>8, StillFrames
  <2>4. SameMarks
    BY <1>1 DEF SameMarks, BeforeClose, AfterVerify, AfterJudge, Over, AfterRelease,
       AfterRetreat, AfterReturn, AfterHold
  <2>5. PlaceMarks' /\ HoldMarks'
    BY <1>1, <2>2, <2>4, QuietStill
  <2>6. ClosesInv'
    BY <1>1, <2>2, <2>3 DEF ClosesInv, BeforeClose
  <2>7. PlaceChecks'
    <3>1. HoldValid = {"terminal_hold_valid"}
      BY <1>1, <2>2 DEF HoldMarks, HoldValid, AfterHold
    <3>2. /\ "wrist_camera_view_valid" \in checks
          /\ {"target_newly_inside", "fully_released", "non_target_unchanged",
              "preloaded_fruits_remain", "safe_retreat"} \subseteq checks
      BY <1>1, <2>2 DEF PlaceChecks, AfterJudge
    <3>3. Required' \subseteq checks'
      BY <1>1, <1>4, <2>1, <3>1, <3>2 DEF Required
    <3> QED
      BY <1>1, <3>3 DEF PlaceChecks, AfterVerify, AfterJudge
  <2> QED
    BY <1>1, <2>3, <2>5, <2>6, <2>7 DEF FrameInv, MarksInv
<1> QED
  BY <1>7, <1>8

\* The judgement of a lifted basket.
LEMMA JudgeLiftFrames == RolloutInv /\ FrameInv /\ JudgeLift => FrameInv'
<1> SUFFICES ASSUME RolloutInv, FrameInv, JudgeLift PROVE FrameInv'
  OBVIOUS
<1>1. /\ pc = "judge_lift" /\ pc' = "finish"
      /\ UNCHANGED <<job, phase, frames, events, grasps>>
      /\ job.task = "lift_basket"
  BY DEF JudgeLift, Goto, RolloutInv, RolloutTypes, OfLift
<1>2. PICK held \in BOOLEAN, drift \in BOOLEAN :
        LET reason == FirstOf(<<
              <<~ held, "basket_not_lifted">>,
              <<IsNow("ejected"), "preloaded_fruit_ejected">>,
              <<drift, "base_drift">>,
              <<"arms" \in seen, "inter_arm_collision">> >>)
        IN  /\ checks' = HoldValid
                  \cup (IF held THEN {"basket_grasp_held"} ELSE {})
                  \cup (IF IsNow("ejected") THEN {} ELSE {"preloaded_fruits_remain"})
            /\ outcome' = IF reason = "none" THEN "success" ELSE reason
  BY DEF JudgeLift
<1> DEFINE tests == << <<~ held, "basket_not_lifted">>,
                       <<IsNow("ejected"), "preloaded_fruit_ejected">>,
                       <<drift, "base_drift">>,
                       <<"arms" \in seen, "inter_arm_collision">> >>
<1>3. /\ DOMAIN tests = 1 .. 4 /\ tests[1][1] = ~ held /\ tests[2][1] = IsNow("ejected")
      /\ \A i \in 1 .. 4 : tests[i][2] # "success" /\ tests[i][2] # "none"
  OBVIOUS
<1>4. /\ outcome' = IF FirstOf(tests) = "none" THEN "success" ELSE FirstOf(tests)
      /\ checks' = HoldValid \cup (IF held THEN {"basket_grasp_held"} ELSE {})
                     \cup (IF IsNow("ejected") THEN {} ELSE {"preloaded_fruits_remain"})
  BY <1>2
<1> HIDE DEF tests
<1>5. DOMAIN tests \subseteq 1 .. 8
  BY <1>3
<1>6. \/ FirstOf(tests) = "none" /\ \A i \in DOMAIN tests : ~ tests[i][1]
      \/ \E i \in DOMAIN tests : tests[i][1] /\ FirstOf(tests) = tests[i][2]
  BY <1>5, FirstOfIs
<1>7. CASE FirstOf(tests) # "none"
  <2>1. outcome' \notin {"none", "success"}
    BY <1>3, <1>4, <1>6, <1>7
  <2> QED
    BY <1>1, <2>1, FailStill
<1>8. CASE FirstOf(tests) = "none"
  <2>1. held /\ ~ IsNow("ejected")
    <3>1. \A i \in DOMAIN tests : ~ tests[i][1]
      BY <1>3, <1>6, <1>8
    <3>2. ~ tests[1][1] /\ ~ tests[2][1]
      BY <1>3, <3>1
    <3> QED
      BY <1>3, <3>2
  <2>2. HoldMarks
    BY <1>1 DEF FrameInv, MarksInv, Promising, Over
  <2>3. /\ FrameTypes' /\ HeadInv'
        /\ \A x, y, q : Between(x, y, q)' <=> Between(x, y, q)
    BY <1>1, <1>4, <1>8, StillFrames
  <2>4. HoldMarks'
    BY <1>1, <2>2, <2>3 DEF HoldMarks, MarkedAfter, AfterHold, Over
  <2>5. LiftChecks'
    <3>1. HoldValid = {"terminal_hold_valid"}
      BY <1>1, <2>2 DEF HoldMarks, HoldValid, AfterHold
    <3>2. Required' \subseteq checks'
      BY <1>1, <1>4, <2>1, <3>1 DEF Required
    <3> QED
      BY <3>2 DEF LiftChecks
  <2> QED
    BY <1>1, <2>3, <2>4, <2>5 DEF FrameInv, MarksInv
<1> QED
  BY <1>7, <1>8

\* The motions of a lift before its hold.
LEMMA BasketFrames ==
  RolloutInv /\ FrameInv /\ (BasketApproach \/ BasketGrasp \/ BasketLift) => FrameInv'
<1> SUFFICES ASSUME RolloutInv, FrameInv, BasketApproach \/ BasketGrasp \/ BasketLift
             PROVE  FrameInv'
  OBVIOUS
<1>1. PICK p, e, f :
        /\ Motion(p, e, f, job.pace)
        /\ job' = job /\ pc \in OfLift \ {"judge_lift"}
        /\ p \in {"basket_approach", "basket_grasp", "basket_lift"}
        /\ {e, f} \cap {"terminal_hold_start", "terminal_hold_end"} = {}
        /\ \/ pc' \in {"basket_grasp", "basket_lift", "terminal_hold"} /\ outcome' = outcome
           \/ pc' = "finish" /\ outcome' = "basket_not_grasped"
  <2>1. CASE BasketApproach
    BY <2>1 DEF BasketApproach, Goto, Steady, OfLift
  <2>2. CASE BasketGrasp
    BY <2>2 DEF BasketGrasp, Goto, Fail, OfLift
  <2>3. CASE BasketLift
    BY <2>3 DEF BasketLift, Goto, Steady, OfLift
  <2> QED
    BY <2>1, <2>2, <2>3
<1>2. /\ job.pace \in Nat /\ job.pace >= Every /\ job.task = "lift_basket"
      /\ p \in Phases /\ pc # "initial_hold" /\ pc \notin Over /\ pc \notin AfterHold
  BY <1>1, HoldsAreSampled DEF RolloutInv, RolloutTypes, OfLift, Phases, Over, AfterHold
<1>3. CASE pc' = "finish"
  <2>1. outcome' \notin {"none", "success"}
    BY <1>1, <1>3
  <2> QED
    BY <1>1, <1>2, <1>3, <2>1, FailFrames
<1>4. CASE pc' # "finish"
  <2>1. pc' \in {"basket_grasp", "basket_lift", "terminal_hold"} /\ outcome' = outcome
    BY <1>1, <1>4
  <2>2. FrameTypes /\ HeadInv /\ HoldMarks
    BY <1>2 DEF FrameInv, MarksInv, Promising
  <2>3. PICK n \in Nat : Films(p, e, f, n)
    <3>1. Filmed(p, e, f, job.pace)
      BY <1>1, <1>2, <2>2, MotionFilms
    <3> QED
      BY <3>1 DEF Filmed
  <2>4. phase' = p
    BY <1>1 DEF Motion
  <2>5. FrameTypes' /\ HeadInv'
    BY <1>2, <2>1, <2>2, <2>3, <2>4, FilmsTyped, HeadStays DEF Over
  <2>6. pc' \notin AfterHold /\ pc' \notin Over
    BY <2>1 DEF AfterHold, Over
  <2>7. HoldMarks'
    <3>1. \A x \in {"terminal_hold_start", "terminal_hold_end"} :
            x \in Events /\ events'[x] = events[x]
      BY <1>1, <2>3 DEF Films, Events
    <3> QED
      BY <1>2, <2>2, <2>6, <3>1 DEF HoldMarks, MarkedAfter, Nowhere
  <2>8. LiftChecks'
    BY <2>6 DEF LiftChecks
  <2> QED
    BY <1>1, <1>2, <2>5, <2>7, <2>8 DEF FrameInv, MarksInv
<1> QED
  BY <1>3, <1>4

\* What is saved is what was judged.
LEMMA FinishFrames == RolloutInv /\ FrameInv /\ Finish => FrameInv'
<1> SUFFICES ASSUME RolloutInv, FrameInv, Finish PROVE FrameInv'
  OBVIOUS
<1>1. /\ pc = "finish" /\ pc' = IF outcome = "success" THEN "saved" ELSE "dropped"
      /\ UNCHANGED <<job, phase, frames, events, grasps, checks, outcome>>
      /\ outcome # "none"
  BY DEF Finish, Goto, FrameInv, FrameTypes, Over
<1>2. CASE outcome # "success"
  BY <1>1, <1>2, FailStill
<1>3. CASE outcome = "success"
  <2>1. /\ HoldMarks
        /\ job.task = "place_one" => PlaceMarks /\ ClosesInv /\ PlaceChecks
        /\ job.task = "lift_basket" => LiftChecks
    BY <1>3 DEF FrameInv, MarksInv, Promising
  <2>2. pc' = "saved"
    BY <1>1, <1>3
  <2>3. /\ FrameTypes' /\ HeadInv' /\ Runs("gripper_close")' = Runs("gripper_close")
        /\ \A x, y, q : Between(x, y, q)' <=> Between(x, y, q)
    BY <1>1, <2>2, StillFrames
  <2>4. HoldMarks'
    BY <1>1, <2>1, <2>2, <2>3 DEF HoldMarks, MarkedAfter, AfterHold, Over
  <2>5. ASSUME job.task = "place_one" PROVE PlaceMarks' /\ ClosesInv' /\ PlaceChecks'
    <3>1. SameMarks
      BY <1>1, <2>2 DEF SameMarks, BeforeClose, AfterVerify, AfterJudge, Over, AfterRelease,
         AfterRetreat, AfterReturn, AfterHold
    <3>2. PlaceMarks'
      BY <1>1, <2>1, <2>5, <3>1, QuietStill
    <3>3. ClosesInv'
      BY <1>1, <2>1, <2>2, <2>3, <2>5 DEF ClosesInv, BeforeClose
    <3>4. PlaceChecks'
      BY <1>1, <2>1, <2>2, <2>5 DEF PlaceChecks, Required, AfterVerify, AfterJudge, Over
    <3> QED
      BY <3>2, <3>3, <3>4
  <2>6. job.task = "lift_basket" => LiftChecks'
    BY <1>1, <2>1, <2>2 DEF LiftChecks, Required, Over
  <2> QED
    BY <1>1, <2>3, <2>4, <2>5, <2>6 DEF FrameInv, MarksInv
<1> QED
  BY <1>2, <1>3

\* Every step of the rollout keeps the frames and events together.
LEMMA FramesKeep == RolloutInv /\ FrameInv /\ Next => FrameInv'
BY FramesRest, InitialHoldFrames, QuietFrames, PrefixCloseFrames, CloseFrames, VerifyFrames,
   ReleaseFrames, RetreatFrames, JudgeFrames, ReturnFrames, MarkFrames, TerminalHoldFrames,
   JudgeHoldFrames, JudgeLiftFrames, BasketFrames, FinishFrames
   DEF Next, PlaceStep, LiftStep, Ended

\* What of the frames a saved rollout shows to the validator.
LEMMA SavedIsAccepted == RolloutInv /\ FrameInv => SuccessValidates
<1> SUFFICES ASSUME RolloutInv, FrameInv, pc = "saved" PROVE Accepted
  BY DEF SuccessValidates
<1>1. /\ FrameTypes /\ HeadInv /\ HoldMarks
      /\ job.task = "place_one" => PlaceMarks /\ PlaceChecks
      /\ job.task = "lift_basket" => LiftChecks
      /\ job.task \in {"place_one", "lift_basket"}
  BY DEF FrameInv, MarksInv, Promising, RolloutInv, RolloutTypes, Jobs
<1>2. /\ Len(frames) \in Nat /\ Fps \in Nat \ {0} /\ DOMAIN frames = 1 .. Len(frames)
      /\ Len(frames) >= Fps /\ \A i \in 1 .. Fps : frames[i] = "initial_hold"
  BY <1>1, RolloutAssumption DEF FrameTypes, HeadInv
<1>3. \A a, b \in Nat : \A q :
        a <= b /\ b <= Len(frames) /\ (\A i \in a + 1 .. b : frames[i] = q) => Count(q) >= b - a
  <2> TAKE a, b \in Nat
  <2> TAKE q
  <2> HAVE a <= b /\ b <= Len(frames) /\ (\A i \in a + 1 .. b : frames[i] = q)
  <2> DEFINE S == {i \in DOMAIN frames : frames[i] = q}
  <2>1. IsFiniteSet(1 .. Len(frames)) /\ S \subseteq 1 .. Len(frames)
    BY <1>2, FS_Interval
  <2>2. IsFiniteSet(S)
    BY <2>1, FS_Subset
  <2>3. \A i \in a + 1 .. b : i \in 1 .. Len(frames)
    BY <1>2
  <2>4. a + 1 .. b \subseteq S
    BY <1>2, <2>3
  <2>5. Cardinality(a + 1 .. b) = b - a
    <3>1. PICK c \in Int : c = a + 1
      OBVIOUS
    <3>2. Cardinality(c .. b) = IF c > b THEN 0 ELSE b - c + 1
      BY FS_Interval
    <3> QED
      BY <3>1, <3>2
  <2>6. Cardinality(a + 1 .. b) <= Cardinality(S)
    BY <2>2, <2>4, FS_Subset
  <2> QED
    BY <2>5, <2>6 DEF Count
<1>4. frames # << >> /\ frames[1] = "initial_hold" /\ Count("initial_hold") >= Fps
  BY <1>2, <1>3
<1>5. Count("terminal_hold") >= Fps
  <2>1. /\ events["terminal_hold_start"] # Unset
        /\ Between("terminal_hold_start", "terminal_hold_end", "terminal_hold")
        /\ events["terminal_hold_end"] - events["terminal_hold_start"] >= Fps
    BY <1>1 DEF HoldMarks, MarkedAfter, AfterHold, Over
  <2>2. /\ events["terminal_hold_start"] \in Nat /\ events["terminal_hold_end"] \in Nat
        /\ events["terminal_hold_end"] <= Len(frames)
    BY <1>1, <1>2, <2>1 DEF FrameTypes, Between, Events, Unset
  <2>3. Count("terminal_hold") >= events["terminal_hold_end"] - events["terminal_hold_start"]
    <3>1. PICK a \in Nat, b \in Nat :
            a = events["terminal_hold_start"] /\ b = events["terminal_hold_end"]
      BY <2>2
    <3>2. a <= b /\ b <= Len(frames) /\ \A i \in a + 1 .. b : frames[i] = "terminal_hold"
      BY <2>1, <2>2, <3>1 DEF Between
    <3>3. Count("terminal_hold") >= b - a
      BY <1>3, <3>2
    <3> QED
      BY <3>1, <3>3
  <2>4. Count("terminal_hold") \in Int
    <3>1. IsFiniteSet(1 .. Len(frames))
            /\ {i \in DOMAIN frames : frames[i] = "terminal_hold"} \subseteq 1 .. Len(frames)
      BY <1>2, FS_Interval
    <3> QED
      BY <3>1, FS_Subset, FS_CardinalityType DEF Count
  <2> QED
    BY <1>2, <2>1, <2>2, <2>3, <2>4
<1>6. Required \subseteq checks
  BY <1>1 DEF PlaceChecks, LiftChecks, Over
<1>7. ASSUME job.task = "place_one"
      PROVE  /\ \A i \in DOMAIN Ordered : events[Ordered[i]] # Unset
             /\ \A i \in 1 .. Len(Ordered) - 1 : events[Ordered[i]] <= events[Ordered[i + 1]]
  <2>1. /\ PlaceMarks /\ HoldMarks
        /\ pc \in AfterRelease /\ pc \in AfterRetreat
        /\ pc \in AfterReturn \ {"mark"} /\ pc \in AfterHold
    BY <1>1, <1>7 DEF AfterRelease, AfterRetreat, AfterReturn, AfterHold, Over
  <2>2. /\ events["release_start"] # Unset /\ events["release_start"] < events["release_end"]
        /\ events["retreat_start"] # Unset /\ events["retreat_start"] < events["retreat_end"]
        /\ events["return_start"] # Unset /\ events["return_start"] < events["return_end"]
        /\ events["terminal_hold_start"] # Unset
        /\ events["terminal_hold_start"] < events["terminal_hold_end"]
    BY <2>1 DEF PlaceMarks, HoldMarks, MarkedAfter, Between
  <2>3. /\ events["release_end"] <= events["retreat_start"]
        /\ events["retreat_end"] <= events["return_start"]
        /\ events["success"] # Unset /\ events["return_end"] <= events["success"]
        /\ events["success"] <= events["terminal_hold_start"]
    BY <2>1 DEF PlaceMarks
  <2>4. \A x \in Marks : events[x] \in Nat \cup {Unset}
    BY <1>1 DEF FrameTypes, Marks, Events
  <2>5. /\ events["release_end"] # Unset /\ events["release_end"] <= events["retreat_start"]
        /\ events["retreat_start"] # Unset /\ events["retreat_start"] <= events["retreat_end"]
        /\ events["retreat_end"] # Unset /\ events["retreat_end"] <= events["return_start"]
        /\ events["return_start"] # Unset /\ events["return_start"] <= events["return_end"]
        /\ events["return_end"] # Unset /\ events["return_end"] <= events["success"]
        /\ events["success"] # Unset /\ events["success"] <= events["terminal_hold_end"]
        /\ events["terminal_hold_end"] # Unset
    BY <2>2, <2>3, <2>4 DEF Marks, Unset
  <2>6. /\ DOMAIN Ordered = 1 .. 7 /\ Len(Ordered) = 7
        /\ Ordered[1] = "release_end" /\ Ordered[2] = "retreat_start"
        /\ Ordered[3] = "retreat_end" /\ Ordered[4] = "return_start"
        /\ Ordered[5] = "return_end" /\ Ordered[6] = "success"
        /\ Ordered[7] = "terminal_hold_end"
    BY DEF Ordered
  <2>7. ASSUME NEW i \in 1 .. 7 PROVE events[Ordered[i]] # Unset
    BY <2>5, <2>6
  <2>8. ASSUME NEW i \in 1 .. 6 PROVE events[Ordered[i]] <= events[Ordered[i + 1]]
    <3>1. i = 1 \/ i = 2 \/ i = 3 \/ i = 4 \/ i = 5 \/ i = 6
      OBVIOUS
    <3> QED
      BY <2>5, <2>6, <3>1
  <2> QED
    BY <2>6, <2>7, <2>8
<1> QED
  BY <1>4, <1>5, <1>6, <1>7 DEF Accepted

\* What of the events a saved row points at.
LEMMA SavedIsMarked == RolloutInv /\ FrameInv => EventsMarkTheirFrames
<1> SUFFICES ASSUME RolloutInv, FrameInv, pc = "saved", job.task = "place_one"
             PROVE  /\ Between("grasp_close_start", "grasp_verify_start", "gripper_close")
                    /\ Between("grasp_verify_start", "grasp_verified", "grasp_verify")
                    /\ Between("release_start", "release_end", "release")
                    /\ Between("retreat_start", "retreat_end", "retreat")
                    /\ Between("return_start", "return_end", "return_to_ready")
                    /\ Between("terminal_hold_start", "terminal_hold_end", "terminal_hold")
                    /\ grasps.attempts = Runs("gripper_close")
                    /\ grasps.retries = grasps.attempts - 1
  BY DEF EventsMarkTheirFrames
<1>1. PlaceMarks /\ HoldMarks /\ ClosesInv
  BY DEF FrameInv, MarksInv, Promising, RolloutInv, RolloutTypes
<1>2. /\ pc \in Over /\ pc \in AfterRelease /\ pc \in AfterRetreat /\ pc \in AfterReturn
      /\ pc \in AfterHold /\ pc \notin BeforeClose
  BY DEF AfterRelease, AfterRetreat, AfterReturn, AfterHold, Over, BeforeClose
<1> QED
  BY <1>1, <1>2 DEF PlaceMarks, HoldMarks, GraspInv, MarkedAfter, ClosesInv

-----------------------------------------------------------------------------
\* Every program is ready to run.
LEMMA TasksInitInv == TasksInit => RolloutInv /\ PackInv /\ HandoffInv
BY RolloutStarts, PackStarts, HandoffStarts DEF TasksInit

\* The program that runs keeps its invariant, and the others rest.
LEMMA TasksNextInv ==
  RolloutInv /\ PackInv /\ HandoffInv
  /\ [TasksNext]_<<script, vars, packVars, handoffVars>>
    => RolloutInv' /\ PackInv' /\ HandoffInv'
BY RolloutRests, RolloutKeeps, PackRests, PackKeeps, HandoffRests, HandoffKeeps DEF TasksNext

\* Whichever program runs, it knows at each step what its invariant says.
THEOREM TasksKeepTheirInvariants == TasksSpec => [](RolloutInv /\ PackInv /\ HandoffInv)
BY TasksInitInv, TasksNextInv, PTL DEF TasksSpec

\* The frames, the events and the checks of a rollout stay in step, as long as
\* the rollout itself does: only its own program writes them.
LEMMA FramesNext ==
  RolloutInv /\ FrameInv /\ [TasksNext]_<<script, vars, packVars, handoffVars>> => FrameInv'
BY FramesKeep, FramesRest DEF TasksNext

(***************************************************************************)
(* The frames that a rollout records cover its phases in their order, and  *)
(* its events and checks point into them, at each step of the script       *)
(* (transport_atomic.py).                                                  *)
(***************************************************************************)
THEOREM FramesAreKept == TasksSpec => []FrameInv
<1>1. TasksInit => FrameInv
  BY FramesStart DEF TasksInit
<1> QED
  BY <1>1, FramesNext, TasksKeepTheirInvariants, PTL DEF TasksSpec

(***************************************************************************)
(* A rollout that is saved as a success passes the checks of its own       *)
(* validator, although the validator looks at frames and events that other *)
(* steps wrote, for every sampling rate, pace and hold                     *)
(* (transport_atomic.py, atomic validation).                               *)
(***************************************************************************)
THEOREM SavedRolloutsValidate == TasksSpec => []SuccessValidates
BY FramesAreKept, TasksKeepTheirInvariants, SavedIsAccepted, PTL

(***************************************************************************)
(* The events of a saved rollout lie on the frames of the phases they      *)
(* name, in the order of the script, for every sampling rate, pace and     *)
(* hold: the close on the last closing motion, whichever try it was        *)
(* (transport_atomic.py).                                                  *)
(***************************************************************************)
THEOREM EventsPointAtTheirFrames == TasksSpec => []EventsMarkTheirFrames
BY FramesAreKept, TasksKeepTheirInvariants, SavedIsMarked, PTL

(***************************************************************************)
(* What went wrong in a rollout that is saved as a success went wrong      *)
(* between two looks or where nothing looked: nothing that lasted from one *)
(* look to the next is hidden in it, however many things went wrong and at *)
(* whatever step, for every period of the looks and frames and every speed *)
(* (transport_atomic.py).                                                  *)
(***************************************************************************)
THEOREM SuccessesWereWatched == TasksSpec => []SuccessWasWatched
<1>1. RolloutInv => SuccessWasWatched
  BY DEF RolloutInv, RolloutTypes, SureInv, SuccessWasWatched
<1> QED
  BY <1>1, TasksKeepTheirInvariants, PTL

(***************************************************************************)
(* While one arm picks or drops the other is at rest, for every set of     *)
(* fruits and every order of them, wherever a fruit rolls to between the   *)
(* choice of the arm and its use (transport_pack_lift.py).                 *)
(***************************************************************************)
THEOREM PackingUsesOneArm == TasksSpec => []OneArmOut
<1>1. PackInv => OneArmOut
  BY DEF PackInv, ArmsInv, InPacking, OneArmOut, Pack!OneArmOut
<1> QED
  BY <1>1, TasksKeepTheirInvariants, PTL

(***************************************************************************)
(* What a packing program calls a success is all of what it was asked for, *)
(* for every list of fruits, however early each of them was packed.        *)
(***************************************************************************)
THEOREM PackingSuccessIsWhole == TasksSpec => []SuccessIsWhole
<1>1. PackInv => SuccessIsWhole
  BY DEF PackInv, JudgedInv, SuccessIsWhole
<1> QED
  BY <1>1, TasksKeepTheirInvariants, PTL

(***************************************************************************)
(* The block falls only where a close missed it or a gripper that had it   *)
(* let it slip, and is delivered when the taker did neither; although no   *)
(* step of the script looks at it, an unmarked episode is one in which     *)
(* every close found it (handoff_left_to_right.py,                         *)
(* handoff_right_to_left.py, block_pick.py).                               *)
(***************************************************************************)
THEOREM TheBlockIsHandedOver == TasksSpec => []HandedOver
<1>1. HandoffInv => HandedOver
  <2> SUFFICES ASSUME HandoffInv PROVE HandedOver
    OBVIOUS
  <2>1. block = "floor" => slipped # {} \/ "receiver" \in missed
    BY DEF HandoffInv, BlockInv, FallInv
  <2>2. Handoff!Taker \notin missed \cup slipped =>
          /\ h_phase = "deliver" /\ wp <= 4 => Handoff!Taker \in gripping
          /\ h_phase = "judge" /\ ~ live => block = "container"
    BY DEF HandoffInv, BlockInv, TakenInv, FallInv
  <2>3. h_phase = "judge" /\ ~ live => moving = {} /\ gripping = {}
    BY DEF HandoffInv, BlockInv, GripInv, RestInv
  <2>4. h_saved = "episode" /\ ~ live =>
          missed = {} /\ {"giver_close", "deliver", "hold"} \subseteq recorded
    <3>1. h_saved = "episode" => block = "container"
      BY DEF HandoffInv, BlockInv, FallInv
    <3>2. block = "container" => missed = {}
      BY DEF HandoffInv, HandoffTypes, BlockInv, MissInv, Handoff!Arms
    <3> QED
      BY <3>1, <3>2 DEF HandoffInv, FramesInv
  <2>5. h_saved = "episode" /\ live =>
          "giver" \in slipped /\ recorded = {"approach", "giver_close", "lift", "carry"}
    BY DEF HandoffInv, BlockInv, FallInv, FramesInv, Verdicts
  <2> QED
    BY <2>1, <2>2, <2>3, <2>4, <2>5 DEF HandedOver, Handoff!HandedOver
<1> QED
  BY <1>1, TasksKeepTheirInvariants, PTL
=============================================================================
