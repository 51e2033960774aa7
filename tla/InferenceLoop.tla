---------------------------- MODULE InferenceLoop ----------------------------
(***************************************************************************)
(* The rollout of a policy in simulation, rby1_bringup/pi05_infer.py.      *)
(*                                                                         *)
(* Every Horizon steps the loop freezes the simulation, sends an           *)
(* observation and receives a chunk of actions, of which it applies one    *)
(* row per step.  With --safe-remote the server judges each chunk, and the *)
(* loop holds the arms instead of applying a chunk that may not run.  Time *)
(* is the number of steps simulated so far; an actuator target is known by *)
(* where it came from.                                                     *)
(*                                                                         *)
(* SafeRemoteClient, HoldController and ExecutionLog belong to another     *)
(* repository: Executes, HoldTarget, CountHold and the feedback are        *)
(* modelled from the calls and comments of the loop.                       *)
(***************************************************************************)
EXTENDS Integers, Sequences

CONSTANTS
  Horizon,      \* OPEN_LOOP_HORIZON, the rows of a chunk that are applied
  MaxSteps,     \* --max-steps
  HoldLimit,    \* the value given to --safe-max-hold-chunks
  Wall,         \* wall clock an action should take, --speed
  MaxWork       \* bound on the wall clock one part of a step takes

ASSUME LoopAssumption ==
  /\ Horizon \in Nat \ {0}
  /\ MaxSteps \in Nat \ {0}
  /\ HoldLimit \in Nat
  /\ Wall \in Nat \ {0}
  /\ MaxWork \in Nat

VARIABLES
  args,      \* the command line
  pc,        \* the statement the loop is at
  t,         \* t_step
  cs,        \* chunk_step
  chunk,     \* the chunk being applied
  ctrl,      \* the arm targets in d.ctrl
  hold,      \* HoldController: is it holding, its target, consecutive chunks
  log,       \* ExecutionLog: steps of this chunk applied and held
  request,   \* the last request to the policy server
  buffer,    \* the arrays of --trajectory-out, the frames of --record-inputs
  saved,     \* what of them was written at the end
  why,       \* why the loop ended
  clock      \* wall clock since the deadline, and since the last paced step

vars == <<args, pc, t, cs, chunk, ctrl, hold, log, request, buffer,
          saved, why, clock>>

Formats == {"rby1", "rby1_16d"}
Verdicts == {"safe", "unsafe", "lost"}
Shapes == {"good", "short", "narrow", "nan"}

Args == [fmt : Formats, remote : BOOLEAN, safe : BOOLEAN, shadow : BOOLEAN,
         gate : {"reasons", "off"}, hold : {"fixed", "legacy"},
         limited : BOOLEAN, seeded : BOOLEAN, paced : BOOLEAN,
         inputs : BOOLEAN, obstacles : BOOLEAN]

\* The combinations main() does not refuse.
Accepted(a) ==
  /\ a.safe => a.remote
  /\ a.shadow => a.safe /\ a.gate # "off"
  /\ a.gate = "off" => a.safe
  /\ a.limited => a.safe
  /\ a.seeded => a.remote

NoChunk == [obs |-> -1, verdict |-> "lost", shape |-> "good"]
ResetPose == [src |-> "reset", obs |-> 0, row |-> 0, at |-> 0,
              verdict |-> "safe", shape |-> "good"]
NothingApplied == [executed |-> 0, held |-> 0]
NoFile == [executed |-> -1, measured |-> -1, predicted |-> -1, starts |-> << >>,
           inputs |-> -1]

\* Every actuator holds the pose the scene was reset to.
Init ==
  /\ args \in {a \in Args : Accepted(a)}
  /\ pc = "scene"
  /\ t = 0
  /\ cs = 0
  /\ chunk = NoChunk
  /\ ctrl = ResetPose
  /\ hold = [on |-> FALSE, target |-> ResetPose, chunks |-> 0]
  /\ log = NothingApplied
  /\ request = [at |-> -1, since |-> 0, reset |-> FALSE, seed |-> FALSE,
                feedback |-> NothingApplied]
  /\ buffer = [executed |-> 0, measured |-> 0, predicted |-> 0, starts |-> << >>,
                inputs |-> 0]
  /\ saved = NoFile
  /\ why = "running"
  /\ clock = [behind |-> 0, since |-> Wall, gap |-> Wall]

Work == 0 .. MaxWork
SettingUp == {"scene", "reset_scene", "obstacles", "connect"}
Running == pc \notin SettingUp \cup {"finally", "trajectory", "done"}
Leave(reason) == pc' = "finally" /\ why' = reason

\* An error before the loop ends the command; nothing has been recorded.
SetUp(from, next) ==
  /\ pc = from
  /\ \/ pc' = next /\ UNCHANGED why
     \/ pc' = "done" /\ why' = "refused"
  /\ UNCHANGED <<args, t, cs, chunk, ctrl, hold, log, request, buffer,
                 saved, clock>>

\* A 16-D run replays the scene of a recorded episode, which must be listed and
\* fit the model; its grippers are open already.
LoadEpisode  == args.fmt = "rby1_16d" /\ SetUp("scene", "reset_scene")
ResetScene   == SetUp("reset_scene", "obstacles")

\* A 14-D run lays out a fruit grid, if asked, and opens the grippers.
ResetGrid    == args.fmt = "rby1" /\ SetUp("scene", "obstacles")

\* Obstacles too close to the robot or in an object are refused.
PlaceObstacles ==
  /\ IF args.obstacles THEN SetUp("obstacles", "connect")
     ELSE /\ pc = "obstacles"
          /\ pc' = "connect"
          /\ UNCHANGED <<args, t, cs, chunk, ctrl, hold, log, request, buffer,
                         saved, why, clock>>

Connect == SetUp("connect", "warmup")

\* The initial scene is shown, or stepped a fixed number of times; closing the
\* viewer ends the command.
Warmup ==
  /\ pc = "warmup"
  /\ \/ pc' = "observe" /\ UNCHANGED why
     \/ Leave("closed")
  /\ UNCHANGED <<args, t, cs, chunk, ctrl, hold, log, request, buffer,
                 saved, clock>>

\* A plausible bug: one row too many of a chunk.
NeedsChunkLate == chunk = NoChunk \/ cs > Horizon

NeedsChunk == chunk = NoChunk \/ cs >= Horizon

\* build_obs reads the scene as it is: an observation is known by its step.
BuildObs == t

\* The very images that are sent are kept, before the request.
CaptureInput ==
  buffer' = IF args.inputs THEN [buffer EXCEPT !.inputs = @ + 1] ELSE buffer

\* The simulation stands still from here to the first step of the chunk.
Observe ==
  /\ pc = "observe"
  /\ t < MaxSteps
  /\ NeedsChunk
  /\ request' = [at |-> BuildObs, since |-> IF t = 0 THEN 0 ELSE request.at,
                 reset |-> t = 0, seed |-> args.seeded /\ t = 0,
                 feedback |-> IF t = 0 THEN NothingApplied ELSE log]
  /\ CaptureInput
  /\ pc' = "infer"
  /\ UNCHANGED <<args, t, cs, chunk, ctrl, hold, log, saved, why, clock>>

\* validate_rby1_observation, for 14-D runs: a scene that diverged ends the run.
RefuseObservation ==
  /\ pc = "observe"
  /\ t < MaxSteps
  /\ NeedsChunk
  /\ args.fmt = "rby1"
  /\ Leave("raised")
  /\ UNCHANGED <<args, t, cs, chunk, ctrl, hold, log, request, buffer,
                 saved, clock>>

KeepChunk ==
  /\ pc = "observe"
  /\ t < MaxSteps
  /\ ~ NeedsChunk
  /\ pc' = "apply"
  /\ UNCHANGED <<args, t, cs, chunk, ctrl, hold, log, request, buffer,
                 saved, why, clock>>

StepsOver ==
  /\ pc = "observe"
  /\ t = MaxSteps
  /\ Leave("steps")
  /\ UNCHANGED <<args, t, cs, chunk, ctrl, hold, log, request, buffer,
                 saved, clock>>

\* A plausible bug: the verdict is not asked.
ExecutesUnlessLost(c) == ~ args.safe \/ c.verdict # "lost"

\* should_execute: shadow runs the policy's own chunk, gate "off" any chunk that
\* arrived; otherwise the verdict decides.  Without a safety server all run.
Executes(c) ==
  \/ ~ args.safe
  \/ c.verdict = "safe"
  \/ c.verdict = "unsafe" /\ (args.shadow \/ args.gate = "off")

\* begin_chunk.
CountHold(c) == IF Executes(c) THEN 0 ELSE hold.chunks + 1
HoldAborts == args.limited /\ hold.chunks > HoldLimit

\* What the policy can answer.  The client turns a timeout, a stale reply or a
\* server error into a chunk of the last command that may not run.
Replies ==
  {c \in [obs : {request.at}, verdict : Verdicts, shape : Shapes] :
     /\ c.verdict = "lost" => args.safe /\ c.shape = "good"
     /\ ~ args.safe => c.verdict = "safe"}

\* validate_rby1_action_chunk looks at 14-D chunks only, and asks for one row.
Refused(c) == args.fmt = "rby1" /\ c.shape \in {"narrow", "nan"}

Infer ==
  /\ pc = "infer"
  /\ \E c \in Replies :
       /\ chunk' = c
       /\ IF args.safe
          THEN log' = NothingApplied /\ hold' = [hold EXCEPT !.chunks = CountHold(c)]
          ELSE UNCHANGED <<log, hold>>
       /\ \/ /\ ~ Refused(c)
             /\ cs' = 0
             /\ pc' = "predicted"
             /\ UNCHANGED why
          \/ /\ Refused(c) \/ request.seed     \* or the server does not echo the seed
             /\ Leave("raised")
             /\ UNCHANGED <<cs>>
  /\ UNCHANGED <<args, t, ctrl, request, buffer, saved, clock>>

\* The chunk and the step it starts at are appended one after the other; then
\* the deadline is anchored again.
AppendChunk ==
  /\ pc = "predicted"
  /\ buffer' = [buffer EXCEPT !.predicted = @ + 1]
  /\ pc' = "starts"
  /\ UNCHANGED <<args, t, cs, chunk, ctrl, hold, log, request, saved,
                 why, clock>>

AppendStart ==
  /\ pc = "starts"
  /\ buffer' = [buffer EXCEPT !.starts = Append(@, t)]
  /\ clock' = [clock EXCEPT !.behind = 0]
  /\ pc' = "apply"
  /\ UNCHANGED <<args, t, cs, chunk, ctrl, hold, log, request, saved, why>>

\* The limit on consecutive holds ends the loop before the step.
AbortHold ==
  /\ pc = "apply"
  /\ HoldAborts
  /\ Leave("hold_abort")
  /\ UNCHANGED <<args, t, cs, chunk, ctrl, hold, log, request, buffer,
                 saved, clock>>

\* rby1_state: the joints and grippers as they are.
Measured == [ResetPose EXCEPT !.src = "measured", !.at = t]

\* hold_action: the command before the hold, taken once, or what is measured now.
HoldTarget ==
  IF args.hold = "legacy" THEN Measured
  ELSE IF hold.on THEN hold.target
  ELSE ctrl

Row == [src |-> "row", obs |-> chunk.obs, row |-> cs, at |-> t,
        verdict |-> chunk.verdict, shape |-> chunk.shape]

\* Every row is read, for the log when it is not applied, so a chunk shorter
\* than the horizon raises; apply_action refuses a row of the wrong length.
RowMissing == chunk.shape = "short" /\ cs > 0
RowUnusable == RowMissing \/ chunk.shape = "narrow"

\* A plausible bug: a held step is not logged.
LogApplied(step) ==
  log' = IF args.safe /\ step = "executed" THEN [log EXCEPT ![step] = @ + 1] ELSE log

\* exec_log.step.
Log(step) == log' = IF args.safe THEN [log EXCEPT ![step] = @ + 1] ELSE log

Hold ==
  /\ pc = "apply"
  /\ ~ HoldAborts
  /\ ~ Executes(chunk)
  /\ ctrl' = HoldTarget
  /\ hold' = [hold EXCEPT !.on = TRUE, !.target = HoldTarget]
  /\ IF RowMissing
     THEN Leave("raised") /\ UNCHANGED <<log>>
     ELSE /\ Log("held")
          /\ pc' = "simulate"
          /\ UNCHANGED why
  /\ UNCHANGED <<args, t, cs, chunk, request, buffer, saved, clock>>

\* A plausible bug: the hold is not released by an executed chunk.
ApplyKeepingHold ==
  /\ pc = "apply"
  /\ ~ HoldAborts
  /\ Executes(chunk)
  /\ IF RowUnusable
     THEN Leave("raised") /\ UNCHANGED <<ctrl, log>>
     ELSE /\ ctrl' = Row
          /\ Log("executed")
          /\ pc' = "simulate"
          /\ UNCHANGED why
  /\ UNCHANGED <<args, t, cs, chunk, hold, request, buffer, saved, clock>>

Apply ==
  /\ pc = "apply"
  /\ ~ HoldAborts
  /\ Executes(chunk)
  /\ hold' = [hold EXCEPT !.on = FALSE]
  /\ IF RowUnusable
     THEN Leave("raised") /\ UNCHANGED <<ctrl, log>>
     ELSE /\ ctrl' = Row
          /\ Log("executed")
          /\ pc' = "simulate"
          /\ UNCHANGED why
  /\ UNCHANGED <<args, t, cs, chunk, request, buffer, saved, clock>>

Larger(a, b) == IF a > b THEN a ELSE b

\* A plausible bug: the backlog of a slow step is kept.
PaceWithBacklog(work, after) ==
  LET sleep == Larger(0, Wall - clock.behind - work)
  IN  clock' = [behind |-> clock.behind + work + sleep - Wall + after,
                since |-> after, gap |-> clock.since + work + sleep]

\* The action takes its time; the loop sleeps until the deadline, or drops the
\* backlog.  What follows (a frame of the video) counts for the next step.
Pace(work, after) ==
  LET sleep == Larger(0, Wall - clock.behind - work)
  IN  clock' = [behind |-> after, since |-> after,
                gap |-> clock.since + work + sleep]

\* The physics of one action.  Close to an obstacle the loop freezes every
\* actuator where it is measured and, after recording the step, ends.
Simulate ==
  /\ pc = "simulate"
  /\ \/ args.obstacles /\ ctrl' = [ResetPose EXCEPT !.src = "stopped", !.at = t]
     \/ UNCHANGED ctrl
  /\ IF args.paced
     THEN \E work, after \in Work : Pace(work, after)
     ELSE UNCHANGED clock
  /\ buffer' = [buffer EXCEPT !.executed = @ + 1]
  /\ pc' = "measured"
  /\ UNCHANGED <<args, t, cs, chunk, hold, log, request, saved, why>>

\* A plausible bug: an obstacle stop leaves before the state is recorded.
StopUnrecorded ==
  /\ pc = "measured"
  /\ IF ctrl.src = "stopped"
     THEN Leave("obstacle") /\ UNCHANGED <<cs, t, buffer>>
     ELSE /\ buffer' = [buffer EXCEPT !.measured = @ + 1]
          /\ cs' = cs + 1
          /\ t' = t + 1
          /\ \/ pc' = "observe" /\ UNCHANGED why
             \/ Leave("viewer")
  /\ UNCHANGED <<args, chunk, ctrl, hold, log, request, saved, clock>>

FinishStep ==
  /\ pc = "measured"
  /\ buffer' = [buffer EXCEPT !.measured = @ + 1]
  /\ IF ctrl.src = "stopped"
     THEN Leave("obstacle") /\ UNCHANGED <<cs, t>>
     ELSE /\ cs' = cs + 1
          /\ t' = t + 1
          /\ \/ pc' = "observe" /\ UNCHANGED why
             \/ Leave("viewer")
  /\ UNCHANGED <<args, chunk, ctrl, hold, log, request, saved, clock>>

\* A KeyboardInterrupt is raised between any two statements.
Interrupt ==
  /\ Running
  /\ Leave("interrupted")
  /\ UNCHANGED <<args, t, cs, chunk, ctrl, hold, log, request, buffer,
                 saved, clock>>

\* The finally block: the videos of the inputs first, in a directory of their own;
\* an error there loses the trajectory.
SaveInputs ==
  /\ pc = "finally"
  /\ \/ /\ saved' = IF buffer.inputs > 0 THEN [saved EXCEPT !.inputs = buffer.inputs]
                    ELSE saved
        /\ pc' = "trajectory"
     \/ args.inputs /\ buffer.inputs > 0 /\ pc' = "done" /\ UNCHANGED saved
  /\ UNCHANGED <<args, t, cs, chunk, ctrl, hold, log, request, buffer,
                 why, clock>>

\* The arrays are written as they are.
SaveTrajectory ==
  /\ pc = "trajectory"
  /\ saved' = IF buffer.executed > 0 THEN [buffer EXCEPT !.inputs = saved.inputs]
              ELSE saved
  /\ pc' = "done"
  /\ UNCHANGED <<args, t, cs, chunk, ctrl, hold, log, request, buffer,
                 why, clock>>

Done == pc = "done" /\ UNCHANGED vars

LoopStep ==
  \/ Warmup \/ Observe \/ RefuseObservation \/ KeepChunk \/ StepsOver \/ Infer
  \/ AppendChunk \/ AppendStart \/ AbortHold \/ Hold \/ Apply
  \/ Simulate \/ FinishStep \/ SaveInputs \/ SaveTrajectory

SetUpStep == LoadEpisode \/ ResetScene \/ ResetGrid \/ PlaceObstacles \/ Connect

Next == SetUpStep \/ LoopStep \/ Interrupt \/ Done

Spec == Init /\ [][Next]_vars

-----------------------------------------------------------------------------
Judged == args.safe /\ ~ args.shadow /\ args.gate = "reasons"
Blocked(c) == c.verdict = "lost" \/ (c.verdict = "unsafe" /\ Judged)
Sources == {"reset", "row", "measured", "stopped"}

(***************************************************************************)
(* A row reaches the actuators only at the step it was predicted for: the  *)
(* chunk's observation is at most Horizon - 1 steps old, and no later one  *)
(* had been requested (OPEN_LOOP_HORIZON and chunk_step, line 1592).       *)
(***************************************************************************)
RowsAreFresh ==
  ctrl.src = "row" =>
    /\ ctrl.obs + ctrl.row = ctrl.at
    /\ ctrl.row < Horizon
    /\ pc = "simulate" /\ ~ hold.on => ctrl.at = t /\ ctrl.obs = request.at

(***************************************************************************)
(* Whatever the arms are commanded to, in a hold of any length, in any     *)
(* sequence of holds and chunks and at the end: it never comes from a      *)
(* chunk the verdict or the link ruled out.  pi05_infer.py:1853 says that  *)
(* not one step of an unsafe chunk is executed.                            *)
(***************************************************************************)
BlockedNeverCommanded ==
  /\ ~ Blocked(ctrl)
  /\ ~ Blocked(hold.target)

(***************************************************************************)
(* A fixed hold keeps the command it started from, across the chunks it    *)
(* lasts (T23, pi05_infer.py:1858).                                        *)
(***************************************************************************)
HoldIsFixed ==
  [][ hold.on /\ hold'.on /\ args.hold = "fixed" /\ pc = "apply" => ctrl' = ctrl ]_vars

(***************************************************************************)
(* What the server is told of the chunk before: the steps applied and the  *)
(* steps held add up to the steps since its request, and none of them was  *)
(* applied if that chunk could not run (T18, pi05_infer.py:1618).          *)
(***************************************************************************)
FeedbackAddsUp ==
  args.safe /\ request.at >= 0 =>
    /\ request.feedback.executed + request.feedback.held = request.at - request.since
    /\ request.feedback.executed = 0 \/ request.feedback.held = 0

(***************************************************************************)
(* The arrays written at the end fit each other, unless the command was    *)
(* interrupted between two appends: a measured state for each action, a    *)
(* start for each chunk, and starts that put each step inside the chunk it *)
(* came from, as analyze_boundary_risk.phase_of_step reads them, and an    *)
(* input image for each chunk, and for the reply that was refused.         *)
(***************************************************************************)
SavedArraysFit ==
  LET starts == {saved.starts[i] : i \in DOMAIN saved.starts} IN
  saved.executed >= 0 /\ why # "interrupted" =>
    /\ saved.executed = saved.measured
    /\ Len(saved.starts) = saved.predicted
    /\ \A i \in DOMAIN saved.starts : saved.starts[i] = (i - 1) * Horizon
    /\ saved.executed <= Horizon * Len(saved.starts)
    /\ saved.executed >= Horizon * (Len(saved.starts) - 1)
    /\ args.inputs =>
         saved.inputs - saved.predicted = IF why = "raised" /\ request.at \notin starts
                                          THEN 1 ELSE 0

(***************************************************************************)
(* No two actions end closer than the wall clock of one action, however    *)
(* late one of them or an inference was: a delay is never made up for by   *)
(* hurrying (pi05_infer.py:1588, 1941).                                    *)
(***************************************************************************)
NeverHurries == args.paced => clock.gap >= Wall
=============================================================================
