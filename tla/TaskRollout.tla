----------------------------- MODULE TaskRollout -----------------------------
(***************************************************************************)
(* One rollout of tasks/transport_atomic.py: place_one, with its recovery  *)
(* prefixes, and lift_basket.  Every motion runs physics steps; a callback *)
(* after each step looks for contacts every Look steps and, every Every    *)
(* steps, at the fruits and records a frame labelled with the phase.  Time *)
(* is counted in steps, so that the frame at which an event is noted, the  *)
(* frames of a phase and what the monitors get to see are what the         *)
(* sampling makes them.                                                    *)
(*                                                                         *)
(* The world is free: objects fall, hands touch things, for any number of  *)
(* steps.  happened is what went wrong in it; the program knows seen.      *)
(***************************************************************************)
EXTENDS Integers, Sequences, SequencesExt, FiniteSets, FiniteSetsExt

CONSTANTS
  Every,           \* physics steps per frame: semantic_period
  Look,            \* physics steps per look at the contacts: contact_period
  Fps,             \* frames per second
  InitialSteps,    \* --initial-hold
  TerminalSteps,   \* --terminal-hold
  Paces,           \* steps a motion takes, by --speed-scale
  MaxMishaps       \* bound on what goes wrong in a rollout

\* With the defaults of the collectors (15 fps, 100 looks a second, 2 ms steps,
\* holds of a second or more) a second of frames fits a hold, every motion
\* outlasts one frame, and a frame lasts some looks.
ASSUME RolloutAssumption ==
  /\ {Every, Look, Fps, InitialSteps, TerminalSteps} \subseteq Nat \ {0}
  /\ Look <= Every
  /\ Fps * Every <= InitialSteps
  /\ Fps * Every <= TerminalSteps
  /\ \A p \in Paces : p \in Nat /\ p >= Every
  /\ MaxMishaps \in Nat

VARIABLES
  job,        \* [task, recovery, pace]: the options of the process
  pc,
  phase,      \* tracker.phase
  clock,      \* steps since the last frame
  look,       \* steps since the last look at the contacts
  frames,     \* phase_index of the recorded frames
  events,     \* tracker.events: the frame of each event, Unset before it
  target,     \* where the target is: "table", "hand", "basket" or "away"
  watching,   \* the table and wrist camera monitors are on
  seen,       \* what the monitors have noticed
  happened,   \* what did happen
  grasps,     \* [attempts, retries]
  checks,     \* the checks found true
  outcome     \* "none", "success" or a failure reason

vars == <<job, pc, phase, clock, look, frames, events, target, watching, seen,
          happened, grasps, checks, outcome>>

Recoveries == {"none", "empty_close", "early_close", "occlusion_reobserve",
               "unsafe_path_replan"}
Jobs == [task : {"place_one", "lift_basket"}, recovery : Recoveries, pace : Paces]

Events == {"initial_hold_end", "approach_start", "pregrasp_start",
           "recovery_close_start", "grasp_close_start", "grasp_verify_start",
           "grasp_verified", "release_start", "release_end", "retreat_start",
           "retreat_end", "return_start", "return_end", "success",
           "terminal_hold_start", "terminal_hold_end"}
Unset == -1

Init ==
  /\ job \in {j \in Jobs : j.task = "lift_basket" => j.recovery = "none"}
  /\ pc = "initial_hold"
  /\ phase = "initial_hold"
  /\ clock = 0
  /\ look = 0
  /\ frames = << >>
  /\ events = [e \in Events |-> Unset]
  /\ target \in IF job.task = "place_one" THEN {"table", "basket"} ELSE {"table"}
  /\ watching = FALSE
  /\ seen = {}
  /\ happened = {}
  /\ grasps = [attempts |-> 0, retries |-> 0]
  /\ checks = {}
  /\ outcome = "none"

\* tracker.set with an event: the first time wins.
Latch(evs, e) == IF e \in Events /\ evs[e] = Unset
                 THEN [evs EXCEPT ![e] = Len(frames)] ELSE evs

\* An assignment to tracker.events after a motion.
Note(evs, e, n) == IF e \in Events THEN [evs EXCEPT ![e] = n] ELSE evs

Sampled(steps) == (clock + steps) \div Every

Kinds == IF job.task = "place_one"
         THEN {"table", "arms", "camera", "wrong", "moved", "inserted", "ejected"}
         ELSE {"arms", "ejected"}

Contacts == {"table", "arms", "camera", "wrong"}

\* The phases in which the other fruits are looked for in the gripper.
Gripping == {"gripper_close", "grasp_verify", "lift_from_table", "transport",
             "lower_into_basket"}

\* Whether a mishap can come in phase p: a gripper may have a wrong fruit from its
\* closing until it has opened again, and the view of the wrist camera is only
\* asked for up to the grasp.
CanHappen(k, p) ==
  CASE k = "wrong"  -> p \in Gripping \cup {"release", "recovery_reopen"}
    [] k = "camera" -> watching
    [] OTHER        -> TRUE

\* Whether anything looks for mishap k in phase p: at the arms always, at fingers
\* and table and through the wrist camera from the pregrasp to the closed gripper.
\* The fruits other than the target are looked at if there is a target.
LookedFor(k, p) ==
  CASE k = "arms"                -> TRUE
    [] k = "wrong"               -> p \in Gripping
    [] k \in {"table", "camera"} -> watching
    [] OTHER                     -> job.task = "place_one"

Period(k) == IF k \in Contacts THEN Look ELSE Every

\* A plausible bug: the contacts are looked at with the frames.
NoticedWithFrames(k, p, a, b) ==
  /\ LookedFor(k, p)
  /\ \E i \in a .. b : (clock + i) % Every = 0

\* Whether a look falls on one of the steps a .. b of a motion.
Noticed(k, p, a, b) ==
  /\ LookedFor(k, p)
  /\ \E i \in a .. b : ((IF k \in Contacts THEN look ELSE clock) + i) % Period(k) = 0

\* A mishap on the steps a .. b of a motion is brief when it can slip through
\* between two looks.  A fruit may also stay where it should not be.
Mishap(k, p, a, b, stays) ==
  [kind |-> k, phase |-> p, watched |-> LookedFor(k, p),
   brief |-> b - a + 1 < Period(k), stays |-> stays]

\* A frame shows every fruit that has stayed where it should not be.
AtFrame == {h.kind : h \in {x \in happened : x.stays /\ x.watched}}

\* The callback over the steps of one motion in phase p, in which at most one
\* thing goes wrong.  A contact that goes on in the next motion is another one.
Pass(p, steps) ==
  LET n == Sampled(steps)
  IN  /\ clock' = (clock + steps) % Every
      /\ look' = (look + steps) % Look
      /\ frames' = frames \o [i \in 1 .. n |-> p]
      /\ \/ /\ happened' = happened
            /\ seen' = seen \cup IF n > 0 THEN AtFrame ELSE {}
         \/ /\ Cardinality(happened) < MaxMishaps
            /\ \E k \in Kinds, a, b \in 1 .. steps, stays \in BOOLEAN :
                 /\ CanHappen(k, p) /\ a <= b
                 /\ stays => k \notin Contacts /\ b = steps
                 /\ happened' = happened \cup {Mishap(k, p, a, b, stays)}
                 /\ seen' = seen
                      \cup (IF n > 0 THEN AtFrame ELSE {})
                      \cup {x \in {k} : Noticed(x, p, a, b)}

\* A motion: tracker.set(p, e), its steps, then tracker.events[f].
Motion(p, e, f, steps) ==
  /\ phase' = p
  /\ Pass(p, steps)
  /\ events' = Note(Latch(events, e), f, Len(frames'))

Goto(l) == pc' = l
Fail(reason) == pc' = "finish" /\ outcome' = reason
Steady == UNCHANGED <<job, watching, grasps, checks>>

\* The reason of the first test that fails.
FirstOf(tests) ==
  LET failed == {i \in DOMAIN tests : tests[i][1]}
  IN  IF failed = {} THEN "none" ELSE tests[Min(failed)][2]

InitialHold ==
  /\ pc = "initial_hold"
  /\ Motion("initial_hold", "", "initial_hold_end", InitialSteps)
  /\ IF job.task = "place_one" /\ target = "basket"
     THEN Fail("target_initially_inside")
     ELSE /\ Goto(IF job.task = "lift_basket" THEN "basket_approach"
                  ELSE IF job.recovery = "none" THEN "approach" ELSE "prefix")
          /\ UNCHANGED outcome
  /\ Steady /\ UNCHANGED target

\* tracker.set without an event notes the start of the phase.
\* The prefix of a recovery episode goes to the fruit, over it for a close that
\* finds nothing, or stops on the way.
Prefix ==
  /\ pc = "prefix"
  /\ Motion("approach", "approach_start", "", job.pace)
  /\ Goto(IF job.recovery \in {"empty_close", "early_close"}
          THEN "prefix_align" ELSE "reopen")
  /\ Steady /\ UNCHANGED <<target, outcome>>

PrefixAlign ==
  /\ pc = "prefix_align"
  /\ Motion("pregrasp_align", "", "", job.pace)
  /\ Goto("prefix_close")
  /\ Steady /\ UNCHANGED <<target, outcome>>

\* A plausible bug: the close that finds nothing is noted as the grasp.
PrefixCloseAsGrasp ==
  /\ pc = "prefix_close"
  /\ Motion("gripper_close", "grasp_close_start", "", job.pace)
  /\ grasps' = [attempts |-> grasps.attempts + 1, retries |-> grasps.retries + 1]
  /\ Goto("reopen")
  /\ UNCHANGED <<job, watching, checks, target, outcome>>

\* The close 8 cm over the fruit; one that does grasp it ends the rollout.
PrefixClose ==
  /\ pc = "prefix_close"
  /\ Motion("gripper_close", "recovery_close_start", "", job.pace)
  /\ target' \in {"table", "hand"}
  /\ IF target' = "hand"
     THEN /\ Fail("recovery_setup_invalid")
          /\ grasps' = [grasps EXCEPT !.attempts = @ + 1]
     ELSE /\ Goto("reopen")
          /\ grasps' = [attempts |-> grasps.attempts + 1,
                        retries |-> grasps.retries + 1]
          /\ UNCHANGED outcome
  /\ UNCHANGED <<job, watching, checks>>

Reopen ==
  /\ pc = "reopen"
  /\ Motion("recovery_reopen", "", "", job.pace)
  /\ Goto("recovery_retreat")
  /\ Steady /\ UNCHANGED <<target, outcome>>

RecoveryRetreat ==
  /\ pc = "recovery_retreat"
  /\ Motion("recovery_retreat", "", "", job.pace)
  /\ Goto("approach")
  /\ Steady /\ UNCHANGED <<target, outcome>>

\* The phase recovery_reapproach is set and replaced before any step: no frame
\* has it.  The monitors are started at the end of the approach.
Approach ==
  /\ pc = "approach"
  /\ Motion("approach", "approach_start", "", job.pace)
  /\ watching' = TRUE
  /\ Goto("pregrasp")
  /\ UNCHANGED <<job, grasps, checks, target, outcome>>

Pregrasp ==
  /\ pc = "pregrasp"
  /\ Motion("pregrasp_align", "pregrasp_start", "", job.pace)
  /\ target' \in {"table", "away"}
  /\ Goto("close")
  /\ Steady /\ UNCHANGED outcome

Close ==
  /\ pc = "close"
  /\ Motion("gripper_close", "grasp_close_start", "", job.pace)
  /\ target' \in {target, "hand", "away"}
  /\ watching' = FALSE
  /\ grasps' = [grasps EXCEPT !.attempts = @ + 1]
  /\ Goto("verify")
  /\ UNCHANGED <<job, checks, outcome>>

\* What the grasp is refused for.  The pregrasp and the close are longer than the
\* time between two looks, so the camera has been asked.
Refused == FirstOf(<< <<"table" \in seen, "table_collision">>,
                      <<"camera" \in seen, "wrist_camera_view_invalid">>,
                      <<target # "hand", "target_not_grasped">> >>)

\* The grasp is judged before the short hold, in which the fruit may still fall.
VerifyGrasp ==
  /\ pc = "verify"
  /\ Motion("grasp_verify", "grasp_verify_start", "grasp_verified", job.pace)
  /\ IF Refused = "none"
     THEN /\ target' \in {"hand", "away"}
          /\ checks' = {"wrist_camera_view_valid"}
          /\ Goto("lift") /\ UNCHANGED outcome
     ELSE Fail(Refused) /\ UNCHANGED <<target, checks>>
  /\ UNCHANGED <<job, watching, grasps>>

\* The fruit may fall on the way, above the basket into it.
Carry(l, p, next) ==
  /\ pc = l
  /\ Motion(p, "", "", job.pace)
  /\ target' \in {target} \cup (IF target = "hand" THEN {"away", "basket"} ELSE {})
  /\ Goto(next)
  /\ Steady /\ UNCHANGED outcome

LiftFromTable == Carry("lift", "lift_from_table", "transport")
Transport == Carry("transport", "transport", "lower")
LowerIntoBasket == Carry("lower", "lower_into_basket", "release")

\* After every motion near the basket a loose fruit may have left it.
Settles(place) ==
  CASE place = "hand"   -> {"hand", "basket", "away"}
    [] place = "basket" -> {"basket", "away"}
    [] OTHER            -> {place}

Release ==
  /\ pc = "release"
  /\ Motion("release", "release_start", "release_end", job.pace)
  /\ target' \in Settles(target)
  /\ Goto("release_verify")
  /\ Steady /\ UNCHANGED outcome

\* The release is judged before the hold that follows it.
ReleaseVerify ==
  /\ pc = "release_verify"
  /\ Motion("release_verify", "", "", job.pace)
  /\ checks' = checks \cup (IF target = "hand" THEN {} ELSE {"fully_released"})
  /\ target' \in Settles(target)
  /\ Goto("retreat")
  /\ UNCHANGED <<job, watching, grasps, outcome>>

Retreat ==
  /\ pc = "retreat"
  /\ Motion("retreat", "retreat_start", "retreat_end", job.pace)
  /\ target' \in Settles(target)
  /\ Goto("settle")
  /\ Steady /\ UNCHANGED outcome

TargetSettle ==
  /\ pc = "settle"
  /\ Motion("target_settle", "", "", job.pace)
  /\ target' \in Settles(target)
  /\ Goto("judge")
  /\ Steady /\ UNCHANGED outcome

\* Where the other fruits are now counts besides what the frames showed; how far
\* they moved is known from the frames alone.
IsNow(kind) == \E h \in happened : h.kind = kind /\ h.stays
Ever(kind) == kind \in seen \/ IsNow(kind)

Undisturbed ==
  (IF "moved" \in seen THEN {} ELSE {"non_target_unchanged"}) \cup
  (IF Ever("ejected") THEN {} ELSE {"preloaded_fruits_remain"})

\* The checks before the return of the arm, in the order of their reasons.
Judge ==
  /\ pc = "judge"
  /\ \E still, clear \in BOOLEAN :
       LET found == checks \cup Undisturbed
                      \cup (IF target = "basket" THEN {"target_newly_inside"} ELSE {})
                      \cup (IF clear THEN {"safe_retreat"} ELSE {})
           reason == FirstOf(<<
             <<target # "basket", "target_outside_basket">>,
             <<"fully_released" \notin found, "incomplete_release">>,
             <<~ still, "target_unstable">>,
             <<Ever("inserted"), "non_target_inserted">>,
             <<"wrong" \in seen, "wrong_target_grasped">>,
             <<"non_target_unchanged" \notin found, "non_target_moved">>,
             <<"preloaded_fruits_remain" \notin found, "preloaded_fruit_ejected">>,
             <<~ clear, "unsafe_retreat">> >>)
       IN  /\ checks' = found
           /\ IF reason = "none" THEN Goto("return") /\ UNCHANGED outcome
              ELSE Fail(reason)
  /\ UNCHANGED <<job, phase, clock, look, frames, events, target, watching, seen,
                 happened, grasps>>

\* The arm goes back and is waited for; a wait that times out ends the rollout.
ReturnToReady ==
  /\ pc = "return"
  /\ target' \in Settles(target)
  /\ \/ /\ Motion("return_to_ready", "return_start", "return_end", job.pace)
        /\ Goto("mark") /\ UNCHANGED outcome
     \/ /\ Motion("return_to_ready", "return_start", "", job.pace)
        /\ Fail("arm_return_failed")
  /\ Steady

\* The frame of success comes before the terminal hold.
MarkSuccess ==
  /\ pc = "mark"
  /\ events' = Note(events, "success", Len(frames))
  /\ Goto("terminal_hold")
  /\ UNCHANGED <<job, phase, clock, look, frames, target, watching, seen, happened,
                 grasps, checks, outcome>>

\* A plausible bug: the hold is shortened with the motions.
TerminalStepsScaled == job.pace

HoldLength == TerminalSteps

TerminalHold ==
  /\ pc = "terminal_hold"
  /\ Motion("terminal_hold", "terminal_hold_start", "terminal_hold_end", HoldLength)
  /\ target' \in Settles(target)
  /\ Goto(IF job.task = "lift_basket" THEN "judge_lift" ELSE "judge_hold")
  /\ Steady /\ UNCHANGED outcome

HoldValid ==
  IF events["terminal_hold_end"] - events["terminal_hold_start"] >= Fps
  THEN {"terminal_hold_valid"} ELSE {}

\* After the hold the target, the base, the arm and the arms' contacts are judged;
\* the other fruits are not judged again, and a short hold refuses nothing.
JudgeHold ==
  /\ pc = "judge_hold"
  /\ \E still, drift, ready \in BOOLEAN :
       LET reason == FirstOf(<<
             <<target # "basket" \/ ~ still, "target_unstable">>,
             <<drift, "base_drift">>,
             <<~ ready, "arm_return_failed">>,
             <<"arms" \in seen, "inter_arm_collision">> >>)
       IN  /\ checks' = checks \cup HoldValid
                          \cup (IF ready THEN {"returned_to_ready"} ELSE {})
           /\ outcome' = IF reason = "none" THEN "success" ELSE reason
  /\ Goto("finish")
  /\ UNCHANGED <<job, phase, clock, look, frames, events, target, watching, seen,
                 happened, grasps>>

BasketApproach ==
  /\ pc = "basket_approach"
  /\ Motion("basket_approach", "", "", job.pace)
  /\ Goto("basket_grasp")
  /\ Steady /\ UNCHANGED <<target, outcome>>

BasketGrasp ==
  /\ pc = "basket_grasp"
  /\ Motion("basket_grasp", "grasp_close_start", "grasp_verified", job.pace)
  /\ \/ Goto("basket_lift") /\ UNCHANGED outcome
     \/ Fail("basket_not_grasped")
  /\ grasps' = [attempts |-> 1, retries |-> 0]
  /\ UNCHANGED <<job, watching, checks, target>>

BasketLift ==
  /\ pc = "basket_lift"
  /\ Motion("basket_lift", "", "success", job.pace)
  /\ Goto("terminal_hold")
  /\ Steady /\ UNCHANGED <<target, outcome>>

JudgeLift ==
  /\ pc = "judge_lift"
  /\ \E held, drift \in BOOLEAN :
       LET lost == IsNow("ejected")
           reason == FirstOf(<<
             <<~ held, "basket_not_lifted">>,
             <<lost, "preloaded_fruit_ejected">>,
             <<drift, "base_drift">>,
             <<"arms" \in seen, "inter_arm_collision">> >>)
       IN  /\ checks' = HoldValid
                 \cup (IF held THEN {"basket_grasp_held"} ELSE {})
                 \cup (IF lost THEN {} ELSE {"preloaded_fruits_remain"})
           /\ outcome' = IF reason = "none" THEN "success" ELSE reason
  /\ Goto("finish")
  /\ UNCHANGED <<job, phase, clock, look, frames, events, target, watching, seen,
                 happened, grasps>>

\* Only a success is saved, with the metadata row of events, checks and grasps.
Finish ==
  /\ pc = "finish"
  /\ Goto(IF outcome = "success" THEN "saved" ELSE "dropped")
  /\ UNCHANGED <<job, phase, clock, look, frames, events, target, watching, seen,
                 happened, grasps, checks, outcome>>

Ended == pc \in {"saved", "dropped"} /\ UNCHANGED vars

PlaceStep ==
  \/ Prefix \/ PrefixAlign \/ PrefixClose \/ Reopen \/ RecoveryRetreat
  \/ Approach \/ Pregrasp \/ Close \/ VerifyGrasp
  \/ LiftFromTable \/ Transport \/ LowerIntoBasket \/ Release \/ ReleaseVerify
  \/ Retreat \/ TargetSettle \/ Judge \/ ReturnToReady \/ MarkSuccess \/ JudgeHold

LiftStep == BasketApproach \/ BasketGrasp \/ BasketLift \/ JudgeLift

Next == InitialHold \/ PlaceStep \/ LiftStep \/ TerminalHold \/ Finish \/ Ended

Spec == Init /\ [][Next]_vars

-----------------------------------------------------------------------------
Count(p) == Cardinality({i \in DOMAIN frames : frames[i] = p})

Ordered == <<"release_end", "retreat_start", "retreat_end", "return_start",
             "return_end", "success", "terminal_hold_end">>

Required ==
  IF job.task = "place_one"
  THEN {"target_newly_inside", "fully_released", "non_target_unchanged",
        "preloaded_fruits_remain", "safe_retreat", "returned_to_ready",
        "wrist_camera_view_valid", "terminal_hold_valid"}
  ELSE {"basket_grasp_held", "preloaded_fruits_remain", "terminal_hold_valid"}

\* What validate_atomic_dataset asks of an episode and its row.
Accepted ==
  /\ frames # << >> /\ frames[1] = "initial_hold"
  /\ Count("initial_hold") >= Fps
  /\ Count("terminal_hold") >= Fps
  /\ job.task = "place_one" =>
       /\ \A i \in DOMAIN Ordered : events[Ordered[i]] # Unset
       /\ \A i \in 1 .. Len(Ordered) - 1 : events[Ordered[i]] <= events[Ordered[i + 1]]
  /\ Required \subseteq checks

(***************************************************************************)
(* An episode the program saves as a success is one the validator of the   *)
(* dataset accepts: the program itself does not refuse a short hold or a   *)
(* missing event, so this rests on the sampling and on every path through  *)
(* the phases.                                                             *)
(***************************************************************************)
SuccessValidates == pc = "saved" => Accepted

\* The frames from event e up to event f are all of phase p, and there is one.
Between(e, f, p) ==
  /\ events[e] < events[f]
  /\ \A i \in events[e] + 1 .. events[f] : frames[i] = p

Runs(p) == Cardinality({i \in DOMAIN frames :
                          frames[i] = p /\ (i = Len(frames) \/ frames[i + 1] # p)})

(***************************************************************************)
(* The events of a saved row point at the frames they name, also after a   *)
(* recovery, in which phases come twice: the grasp is the one that was     *)
(* verified, and the row counts as many attempts as there are closes in    *)
(* the frames.                                                             *)
(***************************************************************************)
EventsMarkTheirFrames ==
  pc = "saved" /\ job.task = "place_one" =>
    /\ Between("grasp_close_start", "grasp_verify_start", "gripper_close")
    /\ Between("grasp_verify_start", "grasp_verified", "grasp_verify")
    /\ Between("release_start", "release_end", "release")
    /\ Between("retreat_start", "retreat_end", "retreat")
    /\ Between("return_start", "return_end", "return_to_ready")
    /\ Between("terminal_hold_start", "terminal_hold_end", "terminal_hold")
    /\ grasps.attempts = Runs("gripper_close")
    /\ grasps.retries = grasps.attempts - 1

\* What goes wrong unseen.  A contact: when nothing looks for it in that phase, or
\* when it is shorter than the time between two looks.  A fruit: when it comes back
\* between two frames, when it moves after the last frame before the judgement,
\* when it leaves the lifted basket and is in it again, and after the judgement.
Unseen(h) ==
  IF h.kind \in Contacts THEN h.brief \/ ~ h.watched
  ELSE \/ h.brief /\ ~ h.stays
       \/ h.brief /\ h.kind = "moved" /\ h.phase = "target_settle"
       \/ ~ h.stays /\ ~ h.watched
       \/ h.watched /\ h.phase \in {"return_to_ready", "terminal_hold"}

(***************************************************************************)
(* What went wrong in a rollout saved as a success went wrong where no     *)
(* look falls: nothing that lasted from one look to the next, while looked *)
(* for, is hidden in a success.  The looks are 10 ms apart for contacts, a *)
(* frame for fruits, count on over the motions and end with the last step. *)
(***************************************************************************)
SuccessWasWatched == pc = "saved" => \A h \in happened : Unseen(h)

(***************************************************************************)
(* ATOMIC_BASKET_DATASET_14D_KO.md asks of a saved episode that over the   *)
(* whole of it no other fruit moved, fell into the basket or left it.      *)
(***************************************************************************)
SuccessUndisturbed ==
  pc = "saved" /\ job.task = "place_one" =>
    \A h \in happened : h.kind \notin {"moved", "inserted", "ejected"}
=============================================================================
