------------------------- MODULE InferenceLoopProofs -------------------------
(***************************************************************************)
(* What the inference loop promises of the commands it gives, for every    *)
(* horizon, number of steps and hold limit.  The invariant says what the   *)
(* loop knows at each statement: at which step the chunk it holds was      *)
(* asked for, how much of it has been applied, and where the last command  *)
(* and the target of a hold came from.                                     *)
(***************************************************************************)
EXTENDS InferenceLoop, TLAPS

Targets == [src : Sources, obs : Int, row : Int, at : Int,
            verdict : Verdicts, shape : Shapes]
Chunks == [obs : Int, verdict : Verdicts, shape : Shapes]
Tally == [executed : Nat, held : Nat]

Types ==
  /\ args \in Args
  /\ t \in Nat
  /\ cs \in Nat
  /\ chunk \in Chunks
  /\ ctrl \in Targets
  /\ hold \in [on : BOOLEAN, target : Targets, chunks : Nat]
  /\ log \in Tally
  /\ request \in [at : Int, since : Int, reset : BOOLEAN, seed : BOOLEAN,
                  feedback : Tally]

Before == SettingUp \cup {"warmup"}
Fetched == {"predicted", "starts"}
Stepping == {"apply", "simulate", "measured"}
Ending == {"finally", "trajectory", "done"}

\* Where the chunk comes from, and how far it has been applied.
ChunkInv ==
  /\ pc \in Before => chunk = NoChunk /\ t = 0 /\ request.at = -1
  /\ pc = "observe" /\ chunk = NoChunk => t = 0
  /\ pc = "infer" => request.at = t
  /\ pc \in Fetched => chunk # NoChunk /\ chunk.obs = t /\ request.at = t /\ cs = 0
  /\ pc \in Stepping => chunk # NoChunk /\ cs < Horizon
  /\ pc \in Stepping \cup {"observe"} /\ chunk # NoChunk =>
       chunk.obs + cs = t /\ request.at = chunk.obs

\* Without a safety server there is nothing to rule a chunk out.
VerdictInv == ~ args.safe => chunk = NoChunk \/ chunk.verdict = "safe"

\* A command that came from a row came from the row of its step.
Fresh(c) == c.src = "row" => c.obs + c.row = c.at /\ c.row < Horizon

RowInv ==
  /\ Fresh(ctrl)
  /\ Fresh(hold.target)
  /\ pc = "simulate" /\ ~ hold.on /\ ctrl.src = "row" =>
       ctrl.at = t /\ ctrl.obs = request.at

\* A fixed hold has been commanded since it began, unless an obstacle stopped it.
HoldInv ==
  hold.on /\ args.hold = "fixed" =>
    \/ ctrl = hold.target
    \/ pc = "measured" /\ ctrl.src = "stopped"
    \/ pc \in Ending

\* The steps of a chunk are all applied or all held, and counted.
LogInv ==
  args.safe =>
    /\ pc \in Fetched => log = NothingApplied
    /\ pc \in {"apply", "observe"} /\ chunk # NoChunk => log.executed + log.held = cs
    /\ pc \in {"simulate", "measured"} => log.executed + log.held = cs + 1
    /\ pc \in Stepping \cup {"observe"} /\ chunk # NoChunk =>
         IF Executes(chunk) THEN log.held = 0 ELSE log.executed = 0

LoopInv ==
  /\ Types
  /\ ChunkInv
  /\ VerdictInv
  /\ BlockedNeverCommanded
  /\ RowInv
  /\ HoldInv
  /\ LogInv
  /\ FeedbackAddsUp

\* The state the invariant speaks of, next to pc.
commandVars == <<args, t, cs, chunk, ctrl, hold, log, request>>

-----------------------------------------------------------------------------
\* A chunk that executes is one that neither the verdict nor the link ruled out.
LEMMA ExecutesIsAllowed ==
  ASSUME args \in Args, chunk \in Chunks,
         ~ args.safe => chunk.verdict = "safe",
         Executes(chunk)
  PROVE  ~ Blocked(chunk)
BY DEF Args, Chunks, Executes, Blocked, Judged, Verdicts

\* The initial state.
LEMMA InitLoop == Init => LoopInv
<1> SUFFICES ASSUME Init PROVE LoopInv
  OBVIOUS
<1>1. ResetPose \in Targets
  BY DEF ResetPose, Targets, Sources, Verdicts, Shapes
<1>2. NoChunk \in Chunks
  BY DEF NoChunk, Chunks, Verdicts, Shapes
<1>3. NothingApplied \in Tally
  BY DEF NothingApplied, Tally
<1>4. Types
  BY <1>1, <1>2, <1>3 DEF Init, Types
<1>5. ChunkInv /\ VerdictInv /\ LogInv /\ FeedbackAddsUp
  BY DEF Init, ChunkInv, VerdictInv, LogInv, FeedbackAddsUp, Before, SettingUp,
         Fetched, Stepping
<1>6. BlockedNeverCommanded /\ RowInv /\ HoldInv
  BY DEF Init, BlockedNeverCommanded, Blocked, RowInv, Fresh, HoldInv, ResetPose
<1> QED
  BY <1>4, <1>5, <1>6 DEF LoopInv

\* A statement that commands nothing and fetches nothing keeps the invariant, if
\* what it leads to asks for no more than what it comes from knew.
LEMMA QuietStep ==
  ASSUME LoopInv, UNCHANGED commandVars,
         \/ pc \in Before /\ pc' \in Before \cup {"observe", "finally", "done"}
         \/ pc = "observe" /\ ~ NeedsChunk /\ pc' = "apply"
         \/ pc \in Fetched /\ pc' \in Fetched \cup {"apply"}
         \/ pc' \in Ending
  PROVE  LoopInv'
<1> USE DEF LoopInv, commandVars
<1>1. Types' /\ VerdictInv' /\ BlockedNeverCommanded' /\ FeedbackAddsUp'
  BY DEF Types, VerdictInv, BlockedNeverCommanded, Blocked, Judged, FeedbackAddsUp
<1>2. ChunkInv'
  BY LoopAssumption DEF ChunkInv, Types, Chunks, NeedsChunk, Before, SettingUp, Fetched,
     Stepping, Ending
<1>3. RowInv'
  BY DEF RowInv, Fresh, Before, SettingUp, Fetched, Ending
<1>4. HoldInv'
  BY DEF HoldInv, Before, SettingUp, Fetched, Ending
<1>5. LogInv'
  BY DEF LogInv, ChunkInv, NothingApplied, NeedsChunk, Executes, Before, SettingUp,
     Fetched, Stepping, Ending
<1> QED
  BY <1>1, <1>2, <1>3, <1>4, <1>5

\* Asking for a chunk: the counts of the chunk before become the feedback.
LEMMA ObserveStep == ASSUME LoopInv, Observe PROVE LoopInv'
<1> USE DEF LoopInv, Observe
<1>1. Types'
  BY DEF Types, CaptureInput, BuildObs, NothingApplied, Tally
<1>2. ChunkInv' /\ RowInv' /\ LogInv'
  BY DEF ChunkInv, RowInv, Fresh, LogInv, BuildObs, Before, SettingUp, Fetched, Stepping
<1>3. VerdictInv' /\ BlockedNeverCommanded' /\ HoldInv'
  BY DEF VerdictInv, BlockedNeverCommanded, Blocked, Judged, HoldInv, Ending
<1>4. FeedbackAddsUp'
  <2>1. CASE t = 0
    BY <2>1 DEF FeedbackAddsUp, BuildObs, NothingApplied
  <2>2. CASE t # 0 /\ args.safe
    <3>1. chunk # NoChunk /\ chunk.obs + cs = t /\ request.at = chunk.obs
      BY <2>2 DEF ChunkInv
    <3>2. log.executed + log.held = cs /\ (log.executed = 0 \/ log.held = 0)
      BY <2>2, <3>1 DEF LogInv
    <3>3. chunk.obs \in Int /\ cs \in Nat /\ t \in Nat /\ log \in Tally
      BY DEF Types, Chunks
    <3>4. request'.feedback = log /\ request'.at = t /\ request'.since = request.at
      BY <2>2 DEF BuildObs
    <3> QED
      BY <3>1, <3>2, <3>3, <3>4 DEF FeedbackAddsUp, Tally
  <2>3. CASE ~ args.safe
    BY <2>3 DEF FeedbackAddsUp
  <2> QED
    BY <2>1, <2>2, <2>3
<1> QED
  BY <1>1, <1>2, <1>3, <1>4

\* The answer: a chunk of the step the loop stands at.
LEMMA InferStep == ASSUME LoopInv, Infer PROVE LoopInv'
<1> USE DEF LoopInv
<1>1. PICK c \in Replies :
        /\ chunk' = c
        /\ IF args.safe
           THEN log' = NothingApplied /\ hold' = [hold EXCEPT !.chunks = CountHold(c)]
           ELSE UNCHANGED <<log, hold>>
        /\ \/ cs' = 0 /\ pc' = "predicted"
           \/ cs' = cs /\ pc' = "finally"
  BY DEF Infer, Leave
<1>2. pc = "infer" /\ UNCHANGED <<args, t, ctrl, request>>
  BY DEF Infer
<1>3. c \in Chunks /\ c.obs = t /\ request.at = t /\ (~ args.safe => c.verdict = "safe")
  BY <1>2 DEF Replies, Types, Chunks, ChunkInv
<1>4. c # NoChunk
  BY <1>3 DEF NoChunk, Types
<1>5. hold'.on = hold.on /\ hold'.target = hold.target
  BY <1>1 DEF Types
<1>6. Types'
  BY <1>1, <1>2, <1>3 DEF Types, CountHold, NothingApplied, Tally
<1>7. ChunkInv' /\ VerdictInv' /\ LogInv'
  BY <1>1, <1>2, <1>3, <1>4 DEF ChunkInv, VerdictInv, LogInv, Before, SettingUp, Fetched,
     Stepping
<1>8. BlockedNeverCommanded' /\ RowInv' /\ HoldInv' /\ FeedbackAddsUp'
  BY <1>1, <1>2, <1>5 DEF BlockedNeverCommanded, Blocked, Judged, RowInv, Fresh, HoldInv,
     FeedbackAddsUp, Ending
<1> QED
  BY <1>6, <1>7, <1>8

\* A pose that is not a row of a chunk, at a step of the trial.
LEMMA PoseAt ==
  ASSUME NEW src \in Sources, NEW step \in Int
  PROVE /\ [ResetPose EXCEPT !.src = src, !.at = step] \in Targets
        /\ [ResetPose EXCEPT !.src = src, !.at = step].src = src
        /\ [ResetPose EXCEPT !.src = src, !.at = step].verdict = "safe"
<1>1. /\ [ResetPose EXCEPT !.src = src, !.at = step].src = src
      /\ [ResetPose EXCEPT !.src = src, !.at = step].obs = 0
      /\ [ResetPose EXCEPT !.src = src, !.at = step].row = 0
      /\ [ResetPose EXCEPT !.src = src, !.at = step].at = step
      /\ [ResetPose EXCEPT !.src = src, !.at = step].verdict = "safe"
      /\ [ResetPose EXCEPT !.src = src, !.at = step].shape = "good"
  BY DEF ResetPose
<1>2. ResetPose \in Targets
  BY DEF ResetPose, Targets, Sources, Verdicts, Shapes
<1>3. [ResetPose EXCEPT !.src = src, !.at = step] \in Targets
  BY <1>2 DEF Targets
<1> QED
  BY <1>1, <1>3

\* A held step: the target of the hold, or what is measured, never the chunk.
LEMMA HoldStep == ASSUME LoopInv, Hold PROVE LoopInv'
<1> USE DEF LoopInv
<1>1. /\ pc = "apply" /\ ~ Executes(chunk)
      /\ ctrl' = HoldTarget
      /\ hold' = [hold EXCEPT !.on = TRUE, !.target = HoldTarget]
      /\ \/ pc' = "finally" /\ log' = log
         \/ pc' = "simulate" /\ Log("held")
      /\ UNCHANGED <<args, t, cs, chunk, request>>
  BY DEF Hold, Leave
<1>2. /\ Measured \in Targets
      /\ Measured.src = "measured" /\ Measured.verdict = "safe"
  <2>1. t \in Int
    BY DEF Types
  <2> QED
    BY <2>1, PoseAt DEF Measured, Sources
<1>3. HoldTarget \in {Measured, hold.target, ctrl}
  BY DEF HoldTarget
<1>4. hold' \in [on : BOOLEAN, target : Targets, chunks : Nat]
      /\ hold'.on = TRUE /\ hold'.target = HoldTarget /\ HoldTarget \in Targets
  BY <1>1, <1>2, <1>3 DEF Types
<1>5. args.safe
  BY <1>1 DEF Executes
<1>6. pc' = "simulate" => log' = [log EXCEPT !.held = @ + 1]
  BY <1>1, <1>5 DEF Log
<1>7. Types'
  BY <1>1, <1>4, <1>6 DEF Types, Tally
<1>8. ChunkInv' /\ VerdictInv'
  BY <1>1 DEF ChunkInv, VerdictInv, Before, SettingUp, Fetched, Stepping
<1>9. BlockedNeverCommanded' /\ RowInv'
  BY <1>1, <1>2, <1>3, <1>4 DEF BlockedNeverCommanded, Blocked, Judged, RowInv, Fresh
<1>10. HoldInv' /\ FeedbackAddsUp'
  BY <1>1, <1>4 DEF HoldInv, FeedbackAddsUp
<1>11. LogInv'
  <2>1. CASE pc' = "finally"
    BY <2>1 DEF LogInv, Fetched, Stepping
  <2>2. CASE pc' = "simulate"
    <3>1. log.executed + log.held = cs /\ log.executed = 0 /\ log \in Tally /\ cs \in Nat
      BY <1>1, <1>5 DEF LogInv, ChunkInv, Stepping, Types
    <3>2. log'.held = log.held + 1 /\ log'.executed = log.executed
      BY <1>6, <2>2, <3>1 DEF Tally
    <3>3. Executes(chunk)' = Executes(chunk)
      BY <1>1 DEF Executes
    <3> QED
      BY <1>1, <2>2, <3>1, <3>2, <3>3 DEF LogInv, Fetched, Stepping, Tally
  <2> QED
    BY <1>1, <2>1, <2>2
<1> QED
  BY <1>7, <1>8, <1>9, <1>10, <1>11

\* An applied step: the row of this step, and the hold is over.
LEMMA ApplyStep == ASSUME LoopInv, Apply PROVE LoopInv'
<1> USE DEF LoopInv
<1>1. /\ pc = "apply" /\ Executes(chunk)
      /\ hold' = [hold EXCEPT !.on = FALSE]
      /\ \/ pc' = "finally" /\ ctrl' = ctrl /\ log' = log
         \/ pc' = "simulate" /\ ctrl' = Row /\ Log("executed")
      /\ UNCHANGED <<args, t, cs, chunk, request>>
  BY DEF Apply, Leave
<1>2. /\ chunk # NoChunk /\ cs < Horizon
      /\ chunk.obs + cs = t /\ request.at = chunk.obs
  BY <1>1 DEF ChunkInv, Stepping
<1>3. Row \in Targets
  BY DEF Row, Types, Targets, Chunks, Sources
<1>4. ~ Blocked(chunk)
  BY <1>1, <1>2, ExecutesIsAllowed DEF Types, VerdictInv
<1>5. ~ Blocked(Row) /\ Fresh(Row) /\ Row.at = t /\ Row.obs = request.at
  BY <1>2, <1>4 DEF Blocked, Fresh, Row
<1>6. hold' \in [on : BOOLEAN, target : Targets, chunks : Nat]
      /\ hold'.on = FALSE /\ hold'.target = hold.target
  BY <1>1 DEF Types
<1>7. pc' = "simulate" /\ args.safe => log' = [log EXCEPT !.executed = @ + 1]
  BY <1>1 DEF Log
<1>8. log' \in Tally
  BY <1>1 DEF Log, Types, Tally
<1>9. Types'
  BY <1>1, <1>3, <1>6, <1>8 DEF Types
<1>10. ChunkInv' /\ VerdictInv' /\ FeedbackAddsUp'
  BY <1>1 DEF ChunkInv, VerdictInv, FeedbackAddsUp, Before, SettingUp, Fetched, Stepping
<1>11. BlockedNeverCommanded' /\ RowInv' /\ HoldInv'
  BY <1>1, <1>5, <1>6 DEF BlockedNeverCommanded, Blocked, Judged, RowInv, Fresh, HoldInv
<1>12. LogInv'
  <2>1. CASE pc' = "finally" \/ ~ args.safe
    BY <1>1, <2>1 DEF LogInv, Fetched, Stepping
  <2>2. CASE pc' = "simulate" /\ args.safe
    <3>1. log.executed + log.held = cs /\ log.held = 0 /\ log \in Tally /\ cs \in Nat
      BY <1>1, <1>2, <2>2 DEF LogInv, Stepping, Types
    <3>2. log'.executed = log.executed + 1 /\ log'.held = log.held
      BY <1>7, <2>2, <3>1 DEF Tally
    <3>3. Executes(chunk)' = Executes(chunk)
      BY <1>1 DEF Executes
    <3> QED
      BY <1>1, <2>2, <3>1, <3>2, <3>3 DEF LogInv, Fetched, Stepping, Tally
  <2> QED
    BY <1>1, <2>1, <2>2
<1> QED
  BY <1>9, <1>10, <1>11, <1>12

\* The physics of a step: an obstacle freezes the arms where they are.
LEMMA SimulateStep == ASSUME LoopInv, Simulate PROVE LoopInv'
<1> USE DEF LoopInv
<1>1. /\ pc = "simulate" /\ pc' = "measured"
      /\ \/ ctrl' = [ResetPose EXCEPT !.src = "stopped", !.at = t]
         \/ ctrl' = ctrl
      /\ UNCHANGED <<args, t, cs, chunk, hold, log, request>>
  BY DEF Simulate
<1>2. ctrl' = ctrl \/ /\ ctrl' \in Targets
                      /\ ctrl'.src = "stopped" /\ ctrl'.verdict = "safe"
  <2>1. t \in Int
    BY DEF Types
  <2>2. /\ [ResetPose EXCEPT !.src = "stopped", !.at = t] \in Targets
        /\ [ResetPose EXCEPT !.src = "stopped", !.at = t].src = "stopped"
        /\ [ResetPose EXCEPT !.src = "stopped", !.at = t].verdict = "safe"
    BY <2>1, PoseAt DEF Sources
  <2> QED
    BY <1>1, <2>2, Zenon
<1>3. Types'
  BY <1>1, <1>2 DEF Types
<1>4. ChunkInv' /\ VerdictInv' /\ FeedbackAddsUp'
  BY <1>1 DEF ChunkInv, VerdictInv, FeedbackAddsUp, Before, SettingUp, Fetched, Stepping
<1>5. BlockedNeverCommanded' /\ RowInv' /\ HoldInv'
  BY <1>1, <1>2 DEF BlockedNeverCommanded, Blocked, Judged, RowInv, Fresh, HoldInv, Ending
<1>6. LogInv'
  BY <1>1 DEF LogInv, Executes, Fetched, Stepping
<1> QED
  BY <1>3, <1>4, <1>5, <1>6

\* The end of a step: the next one takes the next row.
LEMMA FinishStepStep == ASSUME LoopInv, FinishStep PROVE LoopInv'
<1> USE DEF LoopInv
<1>1. /\ pc = "measured"
      /\ \/ pc' = "finally" /\ cs' = cs /\ t' = t
         \/ /\ ctrl.src # "stopped" /\ pc' \in {"observe", "finally"}
            /\ cs' = cs + 1 /\ t' = t + 1
      /\ UNCHANGED <<args, chunk, ctrl, hold, log, request>>
  BY DEF FinishStep, Leave
<1>2. chunk # NoChunk /\ chunk.obs + cs = t /\ request.at = chunk.obs
  BY <1>1 DEF ChunkInv, Stepping
<1>3. Types'
  BY <1>1 DEF Types
<1>4. ChunkInv' /\ VerdictInv' /\ FeedbackAddsUp'
  <2>1. chunk.obs \in Int /\ cs \in Nat /\ t \in Nat
    BY DEF Types, Chunks
  <2>2. pc' = "observe" => chunk'.obs + cs' = t' /\ request'.at = chunk'.obs
    BY <1>1, <1>2, <2>1
  <2>3. ChunkInv'
    BY <1>1, <1>2, <2>2 DEF ChunkInv, Before, SettingUp, Fetched, Stepping
  <2>4. VerdictInv' /\ FeedbackAddsUp'
    BY <1>1 DEF VerdictInv, FeedbackAddsUp
  <2> QED
    BY <2>3, <2>4
<1>5. BlockedNeverCommanded' /\ RowInv' /\ HoldInv'
  BY <1>1 DEF BlockedNeverCommanded, Blocked, Judged, RowInv, Fresh, HoldInv, Ending
<1>6. LogInv'
  BY <1>1, <1>2 DEF LogInv, Executes, Fetched, Stepping
<1> QED
  BY <1>3, <1>4, <1>5, <1>6

\* Every step of the loop, and a stutter, keeps the invariant.
LEMMA NextLoop == LoopInv /\ [Next]_vars => LoopInv'
<1> SUFFICES ASSUME LoopInv, [Next]_vars PROVE LoopInv'
  OBVIOUS
<1>1. CASE UNCHANGED vars
  BY <1>1 DEF vars, LoopInv, Types, ChunkInv, VerdictInv, BlockedNeverCommanded, Blocked,
     Judged, RowInv, Fresh, HoldInv, LogInv, Executes, FeedbackAddsUp
<1>2. CASE SetUpStep
  BY <1>2, QuietStep DEF SetUpStep, LoadEpisode, ResetScene, ResetGrid, PlaceObstacles,
     Connect, SetUp, commandVars, Before, SettingUp, Ending
<1>3. CASE Warmup
  BY <1>3, QuietStep DEF Warmup, Leave, commandVars, Before, Ending
<1>4. CASE KeepChunk
  BY <1>4, QuietStep DEF KeepChunk, commandVars
<1>5. CASE StepsOver \/ RefuseObservation \/ AbortHold \/ Interrupt
  BY <1>5, QuietStep DEF StepsOver, RefuseObservation, AbortHold, Interrupt, Leave,
     commandVars, Ending
<1>6. CASE AppendChunk \/ AppendStart
  BY <1>6, QuietStep DEF AppendChunk, AppendStart, commandVars, Fetched
<1>7. CASE SaveInputs \/ SaveTrajectory
  BY <1>7, QuietStep DEF SaveInputs, SaveTrajectory, commandVars, Ending
<1>8. CASE Done
  BY <1>1, <1>8 DEF Done
<1> QED
  BY <1>1, <1>2, <1>3, <1>4, <1>5, <1>6, <1>7, <1>8, ObserveStep, InferStep, HoldStep,
     ApplyStep, SimulateStep, FinishStepStep DEF Next, LoopStep

\* The loop always knows what LoopInv says it knows.
THEOREM LoopIsInvariant == Spec => []LoopInv
BY InitLoop, NextLoop, PTL DEF Spec

-----------------------------------------------------------------------------
(***************************************************************************)
(* In no sequence of verdicts, lost replies, holds and obstacle stops does *)
(* an arm target come from a chunk the gate ruled out                      *)
(* (pi05_infer.py:1848-1874).                                              *)
(***************************************************************************)
THEOREM BlockedIsNeverCommanded == Spec => []BlockedNeverCommanded
<1>1. LoopInv => BlockedNeverCommanded
  BY DEF LoopInv
<1> QED
  BY <1>1, LoopIsInvariant, PTL

(***************************************************************************)
(* A row reaches the actuators at the step it was predicted for, for every *)
(* horizon (pi05_infer.py:1592, 1874).                                     *)
(***************************************************************************)
THEOREM RowsStayFresh == Spec => []RowsAreFresh
<1>1. LoopInv => RowsAreFresh
  BY DEF LoopInv, RowInv, Fresh, RowsAreFresh
<1> QED
  BY <1>1, LoopIsInvariant, PTL

(***************************************************************************)
(* The feedback of a request accounts for every step since the request     *)
(* before (pi05_infer.py:1618-1645).                                       *)
(***************************************************************************)
THEOREM FeedbackIsComplete == Spec => []FeedbackAddsUp
<1>1. LoopInv => FeedbackAddsUp
  BY DEF LoopInv
<1> QED
  BY <1>1, LoopIsInvariant, PTL

(***************************************************************************)
(* A fixed hold never moves its target, however many chunks it lasts       *)
(* (pi05_infer.py:1848-1861).                                              *)
(***************************************************************************)
THEOREM FixedHoldStands == Spec => HoldIsFixed
<1>1. LoopInv /\ [Next]_vars =>
        [hold.on /\ hold'.on /\ args.hold = "fixed" /\ pc = "apply" => ctrl' = ctrl]_vars
  <2> SUFFICES ASSUME LoopInv, Next, hold.on, hold'.on, args.hold = "fixed", pc = "apply"
               PROVE  ctrl' = ctrl
    BY DEF vars
  <2>1. ctrl = hold.target
    BY DEF LoopInv, HoldInv, Ending
  <2>2. CASE Hold
    BY <2>1, <2>2 DEF Hold, HoldTarget
  <2>3. CASE Apply
    BY <2>3 DEF Apply, LoopInv, Types
  <2>4. CASE AbortHold \/ Interrupt \/ Done
    BY <2>4 DEF AbortHold, Interrupt, Done, vars
  <2> QED
    BY <2>2, <2>3, <2>4 DEF Next, SetUpStep, LoopStep, LoadEpisode, ResetScene, ResetGrid,
       PlaceObstacles, Connect, SetUp, Warmup, Observe, RefuseObservation, KeepChunk,
       StepsOver, Infer, AppendChunk, AppendStart, Simulate, FinishStep, SaveInputs,
       SaveTrajectory
<1> QED
  BY <1>1, LoopIsInvariant, PTL DEF Spec, HoldIsFixed
-----------------------------------------------------------------------------
\* The wall clock since the last paced step is no shorter than the time the loop
\* believes to be behind, so the sleep that ends a step never cuts it short.
ClockInv ==
  /\ clock \in [behind : Nat, since : Nat, gap : Nat]
  /\ clock.behind <= clock.since
  /\ clock.gap >= Wall

Buffers == [executed : Nat, measured : Nat, predicted : Nat, starts : Seq(Nat),
            inputs : Nat]

NumStarts == Len(buffer.starts)

\* The step the next chunk starts at, when every chunk so far was used up.
NextStart == NumStarts * Horizon

\* Images are kept with --record-inputs: one for each of n requests.
Images(n) == args.inputs => buffer.inputs = n

\* What has been appended when the loop is at a statement.
Appended ==
  /\ pc \in Before => buffer.executed = 0 /\ buffer.measured = 0 /\ buffer.predicted = 0
                      /\ NumStarts = 0 /\ buffer.inputs = 0
  /\ pc \in {"observe", "infer", "apply", "simulate"} \cup Fetched =>
       buffer.executed = t /\ buffer.measured = t
  /\ pc = "measured" => buffer.executed = t + 1 /\ buffer.measured = t
  /\ pc \in {"observe", "infer", "predicted"} \cup Stepping => buffer.predicted = NumStarts
  /\ pc = "starts" => buffer.predicted = NumStarts + 1
  /\ pc \in {"infer"} \cup Fetched => Images(NumStarts + 1)
  /\ pc \in {"observe"} \cup Stepping => Images(NumStarts)

\* Which step the chunk in use started at.
Placed ==
  /\ \A i \in DOMAIN buffer.starts : buffer.starts[i] = (i - 1) * Horizon
  /\ pc = "observe" /\ chunk = NoChunk => NumStarts = 0
  /\ pc \in {"infer"} \cup Fetched => t = NextStart
  /\ pc \in {"observe"} \cup Stepping /\ chunk # NoChunk =>
       NumStarts > 0 /\ chunk.obs + Horizon = NextStart /\ cs <= Horizon

StartSet == {buffer.starts[i] : i \in DOMAIN buffer.starts}

\* What the arrays are when the loop ended by itself and they are worth writing.
Fitting ==
  /\ buffer.executed = buffer.measured
  /\ buffer.predicted = NumStarts
  /\ NumStarts > 0
  /\ buffer.executed <= NextStart
  /\ buffer.executed + Horizon >= NextStart
  /\ Images(NumStarts + (IF why = "raised" /\ request.at \notin StartSet THEN 1 ELSE 0))

EndInv ==
  pc \in Ending /\ why # "interrupted" /\ buffer.executed > 0 => Fitting

\* What was written is what was there.
WrittenInv ==
  /\ pc \notin {"trajectory", "done"} => saved = NoFile
  /\ pc = "trajectory" =>
       saved.executed = -1 /\ (buffer.inputs > 0 => saved.inputs = buffer.inputs)
  /\ saved.executed >= 0 =>
       /\ pc = "done" /\ buffer.executed > 0
       /\ saved.executed = buffer.executed /\ saved.measured = buffer.measured
       /\ saved.predicted = buffer.predicted /\ saved.starts = buffer.starts
       /\ buffer.inputs > 0 => saved.inputs = buffer.inputs

Files == [executed : Int, measured : Int, predicted : Int, starts : Seq(Nat), inputs : Int]

ArraysInv ==
  /\ buffer \in Buffers
  /\ saved \in Files
  /\ Appended
  /\ Placed
  /\ EndInv
  /\ WrittenInv

-----------------------------------------------------------------------------
\* Time only passes at the end of a step, and at the start of a chunk the loop
\* forgets what it is behind.
LEMMA NextClock == Types /\ ClockInv /\ [Next]_vars => ClockInv'
<1> SUFFICES ASSUME Types, ClockInv, [Next]_vars PROVE ClockInv'
  OBVIOUS
<1> USE DEF ClockInv
<1>1. CASE Simulate
  <2>1. CASE UNCHANGED clock
    BY <2>1
  <2>2. CASE \E work, after \in Work : Pace(work, after)
    <3>1. PICK work \in Work, after \in Work : Pace(work, after)
      BY <2>2
    <3>2. work \in Nat /\ after \in Nat
      BY <3>1, LoopAssumption DEF Work
    <3> DEFINE sleep == Larger(0, Wall - clock.behind - work)
    <3>3. sleep \in Nat /\ sleep >= Wall - clock.behind - work
      BY <3>2, LoopAssumption DEF Larger
    <3>4. clock' = [behind |-> after, since |-> after, gap |-> clock.since + work + sleep]
      BY <3>1 DEF Pace
    <3> HIDE DEF sleep
    <3>5. clock.since + work + sleep \in Nat /\ clock.since + work + sleep >= Wall
      BY <3>2, <3>3, LoopAssumption
    <3> QED
      BY <3>2, <3>4, <3>5
  <2> QED
    BY <1>1, <2>1, <2>2 DEF Simulate
<1>2. CASE AppendStart
  BY <1>2 DEF AppendStart
<1>3. CASE UNCHANGED clock
  BY <1>3
<1> QED
  BY <1>1, <1>2, <1>3 DEF Next, SetUpStep, LoopStep, LoadEpisode, ResetScene, ResetGrid,
     PlaceObstacles, Connect, SetUp, Warmup, Observe, RefuseObservation, KeepChunk,
     StepsOver, Infer, AppendChunk, AbortHold, Hold, Apply, FinishStep, Interrupt,
     SaveInputs, SaveTrajectory, Done, vars

\* The loop never believes to be further behind than it is.
THEOREM ClockIsInvariant == Spec => []ClockInv
<1>1. Init => ClockInv
  BY LoopAssumption DEF Init, ClockInv
<1>2. LoopInv => Types
  BY DEF LoopInv
<1> QED
  BY <1>1, <1>2, NextClock, LoopIsInvariant, PTL DEF Spec

(***************************************************************************)
(* No step of a paced run ends earlier than the wall clock of an action    *)
(* after the one before, whatever an action or an inference takes          *)
(* (pi05_infer.py:1588, 1941).                                             *)
(***************************************************************************)
THEOREM ThePaceIsKept == Spec => []NeverHurries
<1>1. ClockInv => NeverHurries
  BY DEF ClockInv, NeverHurries
<1> QED
  BY <1>1, ClockIsInvariant, PTL

-----------------------------------------------------------------------------
\* The state the arrays and their invariant speak of, next to pc and why.
arrayVars == <<args, t, cs, chunk, request, buffer, saved>>

\* The starts are numbers of steps, and there is room for one more.
LEMMA OneMoreStart ==
  ASSUME buffer \in Buffers, NEW n \in Nat, buffer' = [buffer EXCEPT !.starts = Append(@, n)]
  PROVE  /\ buffer' \in Buffers
         /\ buffer'.executed = buffer.executed /\ buffer'.measured = buffer.measured
         /\ buffer'.predicted = buffer.predicted /\ buffer'.inputs = buffer.inputs
         /\ NumStarts' = NumStarts + 1 /\ NumStarts \in Nat
         /\ DOMAIN buffer'.starts = 1 .. NumStarts + 1
         /\ \A i \in 1 .. NumStarts : buffer'.starts[i] = buffer.starts[i]
         /\ buffer'.starts[NumStarts + 1] = n
<1>1. buffer.starts \in Seq(Nat) /\ NumStarts \in Nat /\ buffer'.starts = Append(buffer.starts, n)
  BY DEF Buffers, NumStarts
<1>2. Append(buffer.starts, n) \in Seq(Nat)
  BY <1>1
<1>3. buffer' \in Buffers
  BY <1>1, <1>2 DEF Buffers
<1> QED
  BY <1>1, <1>2, <1>3 DEF Buffers, NumStarts

\* The step of the next chunk moves on by the rows of a chunk.
LEMMA NextStartMoves ==
  ASSUME NEW n \in Nat
  PROVE  /\ n * Horizon \in Nat
         /\ (n + 1) * Horizon = n * Horizon + Horizon
         /\ (n - 1) * Horizon = n * Horizon - Horizon
         /\ Horizon * (n - 1) = n * Horizon - Horizon
         /\ Horizon * n = n * Horizon
BY LoopAssumption

\* No chunk started at the step the next one would start at.
LEMMA NextStartIsNew == ASSUME buffer \in Buffers, Placed PROVE NextStart \notin StartSet
<1> SUFFICES ASSUME NEW i \in DOMAIN buffer.starts, buffer.starts[i] = NextStart
             PROVE  FALSE
  BY DEF StartSet
<1>1. buffer.starts \in Seq(Nat) /\ NumStarts \in Nat /\ i \in 1 .. NumStarts
  BY DEF Buffers, NumStarts
<1>2. (i - 1) * Horizon = NumStarts * Horizon
  BY DEF Placed, NextStart
<1>3. i - 1 \in Nat /\ i - 1 < NumStarts /\ Horizon \in Nat /\ Horizon > 0
  BY <1>1, LoopAssumption
<1>4. \A a, b \in Nat : a < b => a * Horizon < b * Horizon
  BY <1>3
<1> QED
  BY <1>1, <1>2, <1>3, <1>4

\* The chunk in use started at the last of the starts.
LEMMA LastStartIsKnown ==
  ASSUME buffer \in Buffers, Placed, NumStarts > 0, chunk.obs \in Int,
         chunk.obs + Horizon = NextStart
  PROVE  chunk.obs \in StartSet
<1>1. buffer.starts \in Seq(Nat) /\ NumStarts \in Nat /\ NumStarts \in DOMAIN buffer.starts
  BY DEF Buffers, NumStarts
<1>2. buffer.starts[NumStarts] = (NumStarts - 1) * Horizon
  BY <1>1 DEF Placed
<1>3. chunk.obs = (NumStarts - 1) * Horizon
  <2>1. PICK w, v : w = NumStarts * Horizon /\ v = (NumStarts - 1) * Horizon
    OBVIOUS
  <2>2. w \in Nat /\ v = w - Horizon
    BY <1>1, <2>1, NextStartMoves
  <2>3. chunk.obs + Horizon = w
    BY <2>1 DEF NextStart
  <2>4. chunk.obs = v
    BY <2>2, <2>3, LoopAssumption
  <2> QED BY <2>1, <2>4
<1> QED
  BY <1>1, <1>2, <1>3 DEF StartSet

\* When the loop ends by itself, what it appended so far fits.
LEMMA EndingFits ==
  ASSUME LoopInv, ArraysInv, UNCHANGED arrayVars, pc' = "finally",
         pc \in {"warmup", "observe", "apply"},
         why' # "interrupted"
  PROVE  ArraysInv'
<1> USE DEF ArraysInv, arrayVars
<1>1. buffer' \in Buffers /\ saved' \in Files /\ WrittenInv'
  BY DEF WrittenInv
<1>2. Appended' /\ Placed'
  BY DEF Appended, Placed, Before, SettingUp, Fetched, Stepping
<1>3. EndInv'
  <2> SUFFICES ASSUME buffer.executed > 0 PROVE Fitting'
    BY DEF EndInv
  <2>1. pc # "warmup" /\ buffer.executed = t /\ buffer.measured = t
        /\ buffer.predicted = NumStarts /\ Images(NumStarts) /\ t \in Nat /\ cs \in Nat
        /\ chunk \in Chunks
    BY DEF Appended, Before, Stepping, LoopInv, Types
  <2>2. chunk # NoChunk
    BY <2>1 DEF LoopInv, ChunkInv, Stepping
  <2>3. chunk.obs + cs = t /\ request.at = chunk.obs
    BY <2>1, <2>2 DEF LoopInv, ChunkInv, Stepping
  <2>4. NumStarts > 0 /\ chunk.obs + Horizon = NextStart /\ cs <= Horizon
    BY <2>1, <2>2 DEF Placed, Stepping
  <2>5. request.at \in StartSet
    BY <2>1, <2>3, <2>4, LastStartIsKnown DEF Chunks
  <2>6. NumStarts \in Nat /\ NextStart \in Nat /\ chunk.obs \in Int
    BY <2>1, NextStartMoves DEF NumStarts, NextStart, Buffers, Chunks
  <2>7. buffer.executed <= NextStart /\ buffer.executed + Horizon >= NextStart
    BY <2>1, <2>3, <2>4, <2>6, LoopAssumption
  <2>8. StartSet' = StartSet /\ NumStarts' = NumStarts /\ NextStart' = NextStart
    BY DEF StartSet, NumStarts, NextStart
  <2> QED
    BY <2>1, <2>4, <2>5, <2>6, <2>7, <2>8 DEF Fitting, Images
<1> QED
  BY <1>1, <1>2, <1>3

\* A statement that appends nothing and ends nothing.
LEMMA QuietArrays ==
  ASSUME LoopInv, ArraysInv, UNCHANGED arrayVars,
         \/ pc \in Before /\ pc' \in Before
         \/ pc = "warmup" /\ pc' = "observe"
         \/ pc = "observe" /\ pc' = "apply" /\ chunk # NoChunk
         \/ pc = "apply" /\ pc' = "simulate"
         \/ pc \notin {"trajectory", "done"} /\ pc' = "finally" /\ why' = "interrupted"
         \/ pc \in SettingUp /\ pc' = "done"
         \/ pc' = pc /\ why' = why
  PROVE  ArraysInv'
<1> USE DEF ArraysInv, arrayVars
<1>1. buffer' \in Buffers /\ saved' \in Files
  OBVIOUS
<1>2. NumStarts' = NumStarts /\ NextStart' = NextStart /\ StartSet' = StartSet
  BY DEF NumStarts, NextStart, StartSet
<1>3. Images(NumStarts)' <=> Images(NumStarts)
  BY <1>2 DEF Images
<1>4. Images(NumStarts + 1)' <=> Images(NumStarts + 1)
  BY <1>2 DEF Images
<1>5. pc \in Before => Images(NumStarts)
  BY DEF Appended, Images
<1>6. pc \in Before => t = 0 /\ chunk = NoChunk
  BY DEF LoopInv, ChunkInv
<1>7. Appended'
  BY <1>2, <1>3, <1>4, <1>5, <1>6 DEF Appended, Before, SettingUp, Fetched, Stepping
<1>8. Placed'
  BY <1>2, <1>6 DEF Placed, Appended, Before, SettingUp, Fetched, Stepping
<1>9. EndInv'
  <2>1. CASE pc' = pc /\ why' = why
    BY <2>1, <1>2 DEF EndInv, Fitting, Images
  <2>2. CASE pc \in SettingUp /\ pc' = "done"
    BY <2>2 DEF EndInv, Appended, Before
  <2>3. CASE why' = "interrupted" \/ pc' \notin Ending
    BY <2>3 DEF EndInv
  <2> QED
    BY <2>1, <2>2, <2>3 DEF Before, SettingUp, Ending
<1>10. WrittenInv'
  BY DEF WrittenInv, Before, SettingUp, NoFile
<1> QED
  BY <1>1, <1>7, <1>8, <1>9, <1>10

\* A request: the chunk before is used up, and its image is kept.
LEMMA ObserveArrays == ASSUME LoopInv, ArraysInv, Observe PROVE ArraysInv'
<1> USE DEF ArraysInv, Observe
<1>1. NumStarts \in Nat /\ buffer \in Buffers
  BY DEF NumStarts, Buffers
<1>2. /\ buffer' \in Buffers
      /\ buffer'.executed = buffer.executed /\ buffer'.measured = buffer.measured
      /\ buffer'.predicted = buffer.predicted /\ buffer'.starts = buffer.starts
      /\ args.inputs => buffer'.inputs = buffer.inputs + 1
  BY SMTT(60), <1>1 DEF CaptureInput, Buffers
<1>3. NumStarts' = NumStarts /\ NextStart' = NextStart
  BY <1>2 DEF NumStarts, NextStart
<1>4. Appended'
  <2>1. buffer.executed = t /\ buffer.measured = t /\ buffer.predicted = NumStarts
        /\ Images(NumStarts)
    BY DEF Appended
  <2> QED
    BY <1>1, <1>2, <1>3, <2>1 DEF Appended, Images, Before, SettingUp, Fetched, Stepping
<1>5. Placed'
  <2>1. CASE chunk = NoChunk
    <3>1. t = 0 /\ NumStarts = 0
      BY <2>1 DEF LoopInv, ChunkInv, Placed
    <3> QED
      BY <1>2, <1>3, <3>1, LoopAssumption
         DEF Placed, NextStart, Fetched, Stepping
  <2>2. CASE chunk # NoChunk
    <3>1. chunk.obs + cs = t /\ chunk.obs + Horizon = NextStart /\ cs <= Horizon
      BY <2>2 DEF LoopInv, ChunkInv, Placed
    <3>2. cs >= Horizon /\ cs \in Nat /\ chunk.obs \in Int
      BY <2>2 DEF NeedsChunk, LoopInv, Types, Chunks
    <3>3. t = NextStart
      BY <3>1, <3>2, LoopAssumption
    <3> QED
      BY <1>2, <1>3, <3>3 DEF Placed, Fetched, Stepping
  <2> QED
    BY <2>1, <2>2
<1>6. EndInv' /\ WrittenInv'
  BY <1>2 DEF EndInv, WrittenInv, Ending, NoFile
<1> QED
  BY <1>2, <1>4, <1>5, <1>6

\* The answer is appended next, unless it is refused: then it has an image and no start.
LEMMA InferArrays == ASSUME LoopInv, ArraysInv, Infer PROVE ArraysInv'
<1> USE DEF ArraysInv
<1>1. /\ pc = "infer" /\ UNCHANGED <<args, t, request, buffer, saved>>
      /\ \/ cs' = 0 /\ pc' = "predicted"
         \/ pc' = "finally" /\ why' = "raised"
  BY DEF Infer, Leave
<1>2. /\ buffer' \in Buffers /\ saved' \in Files
      /\ NumStarts' = NumStarts /\ NextStart' = NextStart /\ StartSet' = StartSet
  BY <1>1 DEF NumStarts, NextStart, StartSet
<1>3. buffer.executed = t /\ buffer.measured = t /\ buffer.predicted = NumStarts
      /\ Images(NumStarts + 1)
  BY <1>1 DEF Appended
<1>4. t = NextStart /\ request.at = t
  BY <1>1 DEF Placed, LoopInv, ChunkInv
<1>5. Appended' /\ Placed' /\ WrittenInv'
  BY <1>1, <1>2, <1>3, <1>4
     DEF Appended, Placed, Images, WrittenInv, Before, SettingUp, Fetched, Stepping
<1>6. EndInv'
  <2> SUFFICES ASSUME buffer.executed > 0, pc' = "finally", why' = "raised" PROVE Fitting'
    BY <1>1 DEF EndInv, Ending
  <2>1. request.at \notin StartSet
    BY <1>4, NextStartIsNew
  <2>2. NumStarts \in Nat /\ NextStart \in Nat
    BY NextStartMoves DEF NumStarts, NextStart, Buffers
  <2>3. NumStarts > 0
    BY <1>3, <1>4, <2>2, LoopAssumption DEF NextStart
  <2>4. NextStart <= NextStart /\ NextStart + Horizon >= NextStart
    BY <2>2, LoopAssumption
  <2> QED
    BY <1>1, <1>2, <1>3, <1>4, <2>1, <2>3, <2>4 DEF Fitting, Images
<1> QED
  BY <1>2, <1>5, <1>6

\* The chunk is appended first.
LEMMA ChunkArrays == ASSUME LoopInv, ArraysInv, AppendChunk PROVE ArraysInv'
<1> USE DEF ArraysInv, AppendChunk
<1>1. /\ buffer' \in Buffers
      /\ buffer'.executed = buffer.executed /\ buffer'.measured = buffer.measured
      /\ buffer'.predicted = buffer.predicted + 1 /\ buffer'.starts = buffer.starts
      /\ buffer'.inputs = buffer.inputs
  BY DEF Buffers
<1>2. NumStarts' = NumStarts /\ NextStart' = NextStart
  BY <1>1 DEF NumStarts, NextStart
<1>3. Appended' /\ Placed'
  BY <1>1, <1>2 DEF Appended, Placed, Images, Before, SettingUp, Fetched, Stepping
<1>4. EndInv' /\ WrittenInv'
  BY <1>1 DEF EndInv, WrittenInv, Ending, NoFile
<1> QED
  BY <1>1, <1>3, <1>4

\* Then its start, the step the loop stands at.
LEMMA StartArrays == ASSUME LoopInv, ArraysInv, AppendStart PROVE ArraysInv'
<1> USE DEF ArraysInv
<1>1. /\ pc = "starts" /\ pc' = "apply" /\ t \in Nat
      /\ UNCHANGED <<args, t, cs, chunk, request, saved>>
      /\ buffer' = [buffer EXCEPT !.starts = Append(@, t)]
  BY DEF AppendStart, LoopInv, Types
<1>2. /\ buffer' \in Buffers
      /\ buffer'.executed = buffer.executed /\ buffer'.measured = buffer.measured
      /\ buffer'.predicted = buffer.predicted /\ buffer'.inputs = buffer.inputs
      /\ NumStarts' = NumStarts + 1 /\ NumStarts \in Nat
      /\ DOMAIN buffer'.starts = 1 .. NumStarts + 1
      /\ \A i \in 1 .. NumStarts : buffer'.starts[i] = buffer.starts[i]
      /\ buffer'.starts[NumStarts + 1] = t
  BY <1>1, OneMoreStart
<1>3. t = NextStart /\ chunk.obs = t /\ cs = 0 /\ chunk # NoChunk
  BY <1>1 DEF Placed, LoopInv, ChunkInv, Fetched
<1>4. NextStart' = NextStart + Horizon
  BY <1>2, NextStartMoves DEF NextStart
<1>5. Appended'
  BY <1>1, <1>2 DEF Appended, Images, Before, SettingUp, Fetched, Stepping
<1>6. Placed'
  <2>1. \A i \in DOMAIN buffer'.starts : buffer'.starts[i] = (i - 1) * Horizon
    <3> SUFFICES ASSUME NEW i \in 1 .. NumStarts + 1
                 PROVE  buffer'.starts[i] = (i - 1) * Horizon
      BY <1>2
    <3>1. CASE i = NumStarts + 1
      BY <1>2, <1>3, <3>1 DEF NextStart
    <3>2. CASE i # NumStarts + 1
      <4>1. i \in 1 .. NumStarts /\ i \in DOMAIN buffer.starts
        BY SMTT(60), <1>2, <3>2 DEF NumStarts, Buffers
      <4> QED
        BY <1>2, <4>1 DEF Placed
    <3> QED
      BY <3>1, <3>2
  <2> QED
    BY SMTT(60), <1>1, <1>2, <1>3, <1>4, <2>1, LoopAssumption DEF Placed, Fetched, Stepping
<1>7. EndInv' /\ WrittenInv'
  BY <1>1 DEF EndInv, WrittenInv, Ending, NoFile
<1> QED
  BY <1>1, <1>2, <1>5, <1>6, <1>7

\* The command of a step is appended when it has been simulated.
LEMMA SimulateArrays == ASSUME LoopInv, ArraysInv, Simulate PROVE ArraysInv'
<1> USE DEF ArraysInv, Simulate
<1>1. /\ buffer' \in Buffers
      /\ buffer'.executed = buffer.executed + 1 /\ buffer'.measured = buffer.measured
      /\ buffer'.predicted = buffer.predicted /\ buffer'.starts = buffer.starts
      /\ buffer'.inputs = buffer.inputs
  BY DEF Buffers
<1>2. NumStarts' = NumStarts /\ NextStart' = NextStart
  BY <1>1 DEF NumStarts, NextStart
<1>3. Appended' /\ Placed'
  BY <1>1, <1>2 DEF Appended, Placed, Images, Before, SettingUp, Fetched, Stepping
<1>4. EndInv' /\ WrittenInv'
  BY <1>1 DEF EndInv, WrittenInv, Ending, NoFile
<1> QED
  BY <1>1, <1>3, <1>4

\* The state it led to follows, also when an obstacle or the viewer ends the loop.
LEMMA FinishArrays == ASSUME LoopInv, ArraysInv, FinishStep PROVE ArraysInv'
<1> USE DEF ArraysInv
<1>1. /\ pc = "measured" /\ buffer' = [buffer EXCEPT !.measured = @ + 1]
      /\ \/ pc' = "finally" /\ why' = "obstacle" /\ cs' = cs /\ t' = t
         \/ /\ \/ pc' = "observe"
               \/ pc' = "finally" /\ why' = "viewer"
            /\ cs' = cs + 1 /\ t' = t + 1
      /\ UNCHANGED <<args, chunk, request, saved>>
  BY DEF FinishStep, Leave
<1>2. /\ buffer' \in Buffers
      /\ buffer'.executed = buffer.executed /\ buffer'.measured = buffer.measured + 1
      /\ buffer'.predicted = buffer.predicted /\ buffer'.starts = buffer.starts
      /\ buffer'.inputs = buffer.inputs
  BY SMTT(60), <1>1 DEF Buffers
<1>3. /\ NumStarts' = NumStarts /\ NextStart' = NextStart
      /\ NumStarts \in Nat /\ NextStart \in Nat
  <2>1. NumStarts \in Nat
    BY DEF NumStarts, Buffers
  <2>2. NextStart \in Nat
    BY <2>1, NextStartMoves DEF NextStart
  <2> QED
    BY <1>2, <2>1, <2>2 DEF NumStarts, NextStart
<1>4. /\ chunk # NoChunk /\ cs < Horizon /\ chunk.obs + cs = t
      /\ cs \in Nat /\ t \in Nat /\ chunk.obs \in Int
  BY <1>1 DEF LoopInv, ChunkInv, Types, Chunks, Stepping
<1>5. NumStarts > 0 /\ chunk.obs + Horizon = NextStart
  BY <1>1, <1>4 DEF Placed, Stepping
<1>6. /\ buffer.executed = t + 1 /\ buffer.measured = t
      /\ buffer.predicted = NumStarts /\ Images(NumStarts)
  BY <1>1 DEF Appended, Stepping
<1>7. Appended'
  BY <1>1, <1>2, <1>3, <1>6 DEF Appended, Images, Before, SettingUp, Fetched, Stepping
<1>8. Placed'
  BY <1>1, <1>2, <1>3, <1>4, <1>5, LoopAssumption DEF Placed, Fetched, Stepping
<1>9. EndInv'
  <2> SUFFICES ASSUME pc' = "finally", why' # "raised" PROVE Fitting'
    BY <1>1 DEF EndInv, Ending
  <2>1. t + 1 <= NextStart /\ t + 1 + Horizon >= NextStart
    BY <1>4, <1>5, LoopAssumption
  <2> QED
    BY <1>1, <1>2, <1>3, <1>5, <1>6, <2>1 DEF Fitting, Images
<1>10. WrittenInv'
  BY <1>1 DEF WrittenInv, NoFile
<1> QED
  BY <1>1, <1>2, <1>7, <1>8, <1>9, <1>10

\* The two parts of the finally block.
LEMMA SaveArrays == ASSUME LoopInv, ArraysInv, SaveInputs \/ SaveTrajectory PROVE ArraysInv'
<1> USE DEF ArraysInv
<1>1. /\ UNCHANGED <<args, t, cs, chunk, request, buffer, why>>
      /\ pc \in Ending /\ pc' \in Ending
  BY DEF SaveInputs, SaveTrajectory, Ending
<1>2. /\ NumStarts' = NumStarts /\ NextStart' = NextStart /\ StartSet' = StartSet
      /\ buffer' \in Buffers
  BY <1>1 DEF NumStarts, NextStart, StartSet
<1>3. Appended' /\ Placed' /\ EndInv'
  BY <1>1, <1>2
     DEF Appended, Placed, EndInv, Fitting, Images, Before, SettingUp, Fetched, Stepping, Ending
<1>4. saved' \in Files /\ WrittenInv'
  <2>1. CASE SaveInputs
    <3>1. pc = "finally" /\ saved = NoFile
      BY <2>1 DEF SaveInputs, WrittenInv
    <3>2. /\ pc' \in {"trajectory", "done"}
          /\ \/ saved' = saved /\ (pc' = "done" \/ ~ (buffer.inputs > 0))
             \/ saved' = [saved EXCEPT !.inputs = buffer.inputs]
      BY <2>1 DEF SaveInputs
    <3>3. saved.executed = -1 /\ buffer.inputs \in Int
      BY <3>1 DEF NoFile, Buffers
    <3>4. /\ saved'.executed = -1 /\ saved' \in Files
          /\ pc' = "trajectory" /\ buffer.inputs > 0 => saved'.inputs = buffer.inputs
      BY <3>2, <3>3 DEF Files
    <3> QED
      BY <1>1, <3>2, <3>4 DEF WrittenInv
  <2>2. CASE SaveTrajectory
    <3>1. /\ pc' = "done" /\ saved.executed = -1
          /\ buffer.inputs > 0 => saved.inputs = buffer.inputs
          /\ \/ saved' = saved
             \/ buffer.executed > 0 /\ saved' = [buffer EXCEPT !.inputs = saved.inputs]
      BY <2>2 DEF SaveTrajectory, WrittenInv
    <3>2. CASE saved' = saved
      BY <1>1, <3>1, <3>2 DEF WrittenInv
    <3>3. CASE buffer.executed > 0 /\ saved' = [buffer EXCEPT !.inputs = saved.inputs]
      <4>1. saved.inputs \in Int /\ buffer.starts \in Seq(Nat)
            /\ buffer.executed \in Int /\ buffer.measured \in Int /\ buffer.predicted \in Int
        BY DEF Files, Buffers
      <4>2. saved' = [executed |-> buffer.executed, measured |-> buffer.measured,
                      predicted |-> buffer.predicted, starts |-> buffer.starts,
                      inputs |-> saved.inputs]
        BY <3>3 DEF Buffers
      <4>3. saved' \in Files
        BY <4>1, <4>2 DEF Files
      <4> QED
        BY <1>1, <3>1, <3>3, <4>2, <4>3 DEF WrittenInv
    <3> QED
      BY <3>1, <3>2, <3>3
  <2> QED
    BY <2>1, <2>2
<1> QED
  BY <1>2, <1>3, <1>4

\* The loop starts with nothing appended and nothing written.
LEMMA InitArrays == Init => ArraysInv
<1> SUFFICES ASSUME Init PROVE ArraysInv
  OBVIOUS
<1>1. buffer = [executed |-> 0, measured |-> 0, predicted |-> 0, starts |-> << >>, inputs |-> 0]
      /\ saved = NoFile /\ pc = "scene" /\ t = 0
  BY DEF Init
<1>2. << >> \in Seq(Nat) /\ Len(<< >>) = 0 /\ DOMAIN << >> = {}
  OBVIOUS
<1>3. buffer \in Buffers /\ saved \in Files
  BY <1>1, <1>2 DEF Buffers, Files, NoFile
<1>4. Appended /\ Placed /\ EndInv /\ WrittenInv
  BY <1>1, <1>2 DEF Appended, Placed, EndInv, WrittenInv, NumStarts, NoFile, Before, SettingUp,
     Fetched, Stepping, Ending
<1> QED
  BY <1>3, <1>4 DEF ArraysInv

\* Every step of the loop, and a stutter, keeps what is known of the arrays.
LEMMA NextArrays == LoopInv /\ ArraysInv /\ [Next]_vars => ArraysInv'
<1> SUFFICES ASSUME LoopInv, ArraysInv, [Next]_vars PROVE ArraysInv'
  OBVIOUS
<1>1. CASE UNCHANGED vars
  BY <1>1, QuietArrays DEF vars, arrayVars
<1>2. CASE SetUpStep
  BY <1>2, QuietArrays DEF SetUpStep, LoadEpisode, ResetScene, ResetGrid, PlaceObstacles,
     Connect, SetUp, arrayVars, Before, SettingUp
<1>3. CASE Warmup
  BY <1>3, QuietArrays, EndingFits DEF Warmup, Leave, arrayVars
<1>4. CASE KeepChunk
  BY <1>4, QuietArrays DEF KeepChunk, NeedsChunk, arrayVars
<1>5. CASE StepsOver \/ RefuseObservation \/ AbortHold
  BY <1>5, EndingFits DEF StepsOver, RefuseObservation, AbortHold, Leave, arrayVars
<1>6. CASE Hold
  BY <1>6, QuietArrays, EndingFits DEF Hold, Leave, arrayVars
<1>7. CASE Apply
  BY <1>7, QuietArrays, EndingFits DEF Apply, Leave, arrayVars
<1>8. CASE Interrupt
  BY <1>8, QuietArrays DEF Interrupt, Running, Leave, arrayVars
<1>9. CASE Done
  BY <1>1, <1>9 DEF Done
<1> QED
  BY <1>1, <1>2, <1>3, <1>4, <1>5, <1>6, <1>7, <1>8, <1>9, ObserveArrays, InferArrays,
     ChunkArrays, StartArrays, SimulateArrays, FinishArrays, SaveArrays DEF Next, LoopStep

\* At each statement the arrays are what ArraysInv says.
THEOREM ArraysAreKnown == Spec => []ArraysInv
BY InitArrays, NextArrays, LoopIsInvariant, PTL DEF Spec

(***************************************************************************)
(* Whatever ended the rollout, short of an interrupt between two appends,  *)
(* the arrays it leaves fit each other, for every horizon and number of    *)
(* steps (pi05_infer.py:1816-1818, 1947-1949, 1998-2041).                  *)
(***************************************************************************)
THEOREM TheSavedArraysFit == Spec => []SavedArraysFit
<1>1. ArraysInv => SavedArraysFit
  <2> SUFFICES ASSUME ArraysInv, saved.executed >= 0, why # "interrupted"
               PROVE  SavedArraysFit
    BY DEF SavedArraysFit
  <2> USE DEF ArraysInv
  <2>1. /\ pc = "done" /\ buffer.executed > 0
        /\ saved.executed = buffer.executed /\ saved.measured = buffer.measured
        /\ saved.predicted = buffer.predicted /\ saved.starts = buffer.starts
        /\ buffer.inputs > 0 => saved.inputs = buffer.inputs
    BY DEF WrittenInv
  <2>2. Fitting
    BY <2>1 DEF EndInv, Ending
  <2>3. NumStarts \in Nat /\ buffer \in Buffers
    BY DEF NumStarts, Buffers
  <2>4. /\ Horizon * NumStarts = NextStart /\ Horizon * (NumStarts - 1) = NextStart - Horizon
        /\ NextStart \in Nat
    BY <2>3, NextStartMoves DEF NextStart
  <2>5. /\ saved.executed <= Horizon * Len(saved.starts)
        /\ saved.executed >= Horizon * (Len(saved.starts) - 1)
    BY <2>1, <2>2, <2>3, <2>4, LoopAssumption DEF Fitting, NumStarts, Buffers
  <2>6. \A i \in DOMAIN saved.starts : saved.starts[i] = (i - 1) * Horizon
    BY <2>1 DEF Placed
  <2>7. args.inputs =>
          saved.inputs - saved.predicted =
            IF why = "raised" /\ request.at \notin StartSet THEN 1 ELSE 0
    BY <2>1, <2>2, <2>3 DEF Fitting, Images, Buffers
  <2>8. StartSet = {saved.starts[i] : i \in DOMAIN saved.starts}
    BY <2>1 DEF StartSet
  <2> QED
    BY <2>1, <2>2, <2>5, <2>6, <2>7, <2>8 DEF SavedArraysFit, Fitting, NumStarts
<1> QED
  BY <1>1, ArraysAreKnown, PTL
=============================================================================
