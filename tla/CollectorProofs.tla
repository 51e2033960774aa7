--------------------------- MODULE CollectorProofs ---------------------------
(***************************************************************************)
(* What holds of the collectors for any number of plans, cameras, attempts,*)
(* starts, crashes and deaths.                                             *)
(***************************************************************************)
EXTENDS CollectorProperties, SequenceTheorems, TLAPS

-----------------------------------------------------------------------------
(* Operators the model is built from. *)

\* A prompt that is registered has an index in the vocabulary.
LEMMA RegisterKnows ==
  ASSUME NEW ts \in Seq(Prompt), NEW prompt \in Prompt
  PROVE  /\ Register(ts, prompt) \in Seq(Prompt)
         /\ \E k \in DOMAIN Register(ts, prompt) : Register(ts, prompt)[k] = prompt
         /\ \A k \in DOMAIN ts : /\ k \in DOMAIN Register(ts, prompt)
                                 /\ Register(ts, prompt)[k] = ts[k]
<1>1. CASE \E k \in DOMAIN ts : ts[k] = prompt
  BY <1>1 DEF Register
<1>2. CASE ~ \E k \in DOMAIN ts : ts[k] = prompt
  <2>1. Register(ts, prompt) = Append(ts, prompt)
    BY <1>2 DEF Register
  <2>2. /\ Len(Append(ts, prompt)) = Len(ts) + 1
        /\ Append(ts, prompt)[Len(ts) + 1] = prompt
        /\ \A k \in 1 .. Len(ts) : Append(ts, prompt)[k] = ts[k]
        /\ Append(ts, prompt) \in Seq(Prompt)
    BY AppendProperties
  <2>3. /\ DOMAIN Append(ts, prompt) = 1 .. Len(ts) + 1
        /\ DOMAIN ts = 1 .. Len(ts)
        /\ Len(ts) \in Nat
    BY <2>2, LenProperties
  <2> QED BY <2>1, <2>2, <2>3
<1> QED BY <1>1, <1>2

\* The task_index of a prompt of the vocabulary finds that prompt again.
LEMMA TaskIndexFinds ==
  ASSUME NEW ts \in Seq(Prompt), NEW prompt, \E k \in DOMAIN ts : ts[k] = prompt
  PROVE  /\ TaskIndex(ts, prompt) \in Nat
         /\ TaskIndex(ts, prompt) + 1 \in DOMAIN ts
         /\ ts[TaskIndex(ts, prompt) + 1] = prompt
<1> DEFINE j == CHOOSE k \in DOMAIN ts : ts[k] = prompt
<1>1. j \in DOMAIN ts /\ ts[j] = prompt
  OBVIOUS
<1>2. j \in 1 .. Len(ts) /\ Len(ts) \in Nat
  BY <1>1, LenProperties
<1>3. TaskIndex(ts, prompt) = j - 1
  BY DEF TaskIndex
<1> QED BY <1>1, <1>2, <1>3

\* Writing a file leaves every other file alone.
LEMMA PutProperties ==
  ASSUME NEW S, NEW f, f \in [DOMAIN f -> S], NEW k, NEW v \in S
  PROVE  /\ Put(f, k, v) \in [DOMAIN Put(f, k, v) -> S]
         /\ DOMAIN Put(f, k, v) = DOMAIN f \cup {k}
         /\ Put(f, k, v)[k] = v
         /\ \A x \in DOMAIN f : x # k => Put(f, k, v)[x] = f[x]
BY DEF Put

\* The prompt of a plan is in the vocabulary.
LEMMA PromptType == \A p \in Plan : PromptOf[p] \in Prompt
BY DEF Prompt

\* Before the first attempt the child has some save, whichever.
LEMMA NoSaveType == NoSave \in Save
<1>1. 0 \in Plan /\ 1 \in 1 .. MaxAttempt
  BY WriterAssumption DEF Plan
<1>2. [plan |-> 0, attempt |-> 1] \in Save
  BY <1>1 DEF Save
<1> QED BY <1>2 DEF NoSave

-----------------------------------------------------------------------------
(* Type correctness.  It is inductive together with one fact about the     *)
(* child: the prompt of the episode it is about to write is registered.    *)

PromptKnown ==
  child.stage \in {"rollout", "parquet"} =>
    \E k \in DOMAIN writer.tasks : writer.tasks[k] = PromptOf[child.save.plan]

TypeInv == TypeOK /\ PromptKnown

\* An empty dataset root and an idle collector are well typed.
LEMMA TypeInit == Init => TypeInv
<1> SUFFICES ASSUME Init PROVE TypeInv
  OBVIOUS
<1> USE DEF Init, DatasetInit, ChildInit
<1>1. DatasetTypeOK
  BY EmptySeq DEF DatasetTypeOK, Absent, NoRows, NoFiles
<1>2. 1 \in Camera /\ 0 \in Plan /\ 1 \in 1 .. MaxAttempt
  BY WriterAssumption DEF Camera, Plan
<1>3. ChildTypeOK
  BY <1>2, NoSaveType, EmptySeq DEF ChildTypeOK, NoChild, Stages
<1>4. CollTypeOK
  <2>1. stats \in Records
    BY WriterAssumption DEF Records, NoIndex
  <2> QED BY <1>2, <2>1, EmptySeq DEF CollTypeOK, Stopped
<1>5. PromptKnown
  BY DEF PromptKnown, NoChild
<1> QED BY <1>1, <1>3, <1>4, <1>5 DEF TypeInv, TypeOK

\* The task process keeps the types, whatever it writes.
LEMMA ChildStepType ==
  ASSUME TypeInv, ChildEarly \/ ChildSave, UNCHANGED kind
  PROVE  DatasetTypeOK' /\ ChildTypeOK' /\ PromptKnown'
<1> USE DEF TypeInv, TypeOK, datasetVars
<1>0. /\ child \in [stage : Stages, save : Save, cam : Camera, ok : BOOLEAN]
      /\ child.save.plan \in Plan
      /\ child.cam \in Camera
      /\ 1 \in Camera
  BY WriterAssumption DEF ChildTypeOK, Save, Camera
<1>1. CASE CheckSchema
  <2>1. /\ child'.stage \in {"exited", "load"} /\ child'.save = child.save
        /\ child' \in [stage : Stages, save : Save, cam : Camera, ok : BOOLEAN]
    BY <1>0, <1>1 DEF CheckSchema, AtStage, ExitAt, Stages, EarlyStages
  <2> QED BY <1>1, <2>1 DEF CheckSchema, DatasetTypeOK, ChildTypeOK, PromptKnown
<1>2. CASE OpenWriter
  <2>1. CASE AtStage("load", "rollout") /\ LoadExistingState(child.save.plan)
    <3> DEFINE ts == Register(tasks, PromptOf[child.save.plan])
    <3>1. /\ ts \in Seq(Prompt)
          /\ \E k \in DOMAIN ts : ts[k] = PromptOf[child.save.plan]
      BY <1>0, RegisterKnows, PromptType DEF DatasetTypeOK
    <3>2. /\ writer' = [index |-> Len(episodes.rows), rows |-> episodes.rows, tasks |-> ts]
          /\ UNCHANGED datasetVars
      BY <2>1 DEF LoadExistingState
    <3>3. episodes.rows \in Seq(Save) /\ Len(episodes.rows) \in Nat
      BY LenProperties DEF DatasetTypeOK
    <3>4. writer' \in [index : Nat, rows : Seq(Save), tasks : Seq(Prompt)]
      BY <3>1, <3>2, <3>3
    <3>5. DatasetTypeOK'
      BY <3>2, <3>4 DEF DatasetTypeOK
    <3>6. /\ child' \in [stage : Stages, save : Save, cam : Camera, ok : BOOLEAN]
          /\ child'.save = child.save
      BY <1>0, <2>1 DEF AtStage, Stages, EarlyStages
    <3>7. PromptKnown'
      BY <3>1, <3>2, <3>6 DEF PromptKnown
    <3> QED BY <1>2, <3>5, <3>6, <3>7 DEF OpenWriter, ChildTypeOK
  <2>2. CASE ExitAt({"load"}, FALSE) /\ UNCHANGED <<datasetVars, writer>>
    <3>1. /\ child'.stage = "exited"
          /\ child' \in [stage : Stages, save : Save, cam : Camera, ok : BOOLEAN]
      BY <1>0, <2>2 DEF ExitAt, Stages
    <3> QED BY <1>2, <2>2, <3>1 DEF OpenWriter, DatasetTypeOK, ChildTypeOK, PromptKnown
  <2> QED BY <1>2, <2>1, <2>2 DEF OpenWriter
<1>3. CASE RolloutFails
  <2>1. /\ child'.stage = "exited"
        /\ child' \in [stage : Stages, save : Save, cam : Camera, ok : BOOLEAN]
    BY <1>0, <1>3 DEF RolloutFails, ExitAt, Stages
  <2> QED BY <1>3, <2>1 DEF RolloutFails, DatasetTypeOK, ChildTypeOK, PromptKnown
<1>4. CASE RolloutSucceeds
  <2>1. /\ child.stage = "rollout" /\ child'.save = child.save
        /\ child' \in [stage : Stages, save : Save, cam : Camera, ok : BOOLEAN]
    BY <1>0, <1>4 DEF RolloutSucceeds, AtStage, Stages, SaveStages
  <2> QED BY <1>4, <2>1 DEF RolloutSucceeds, DatasetTypeOK, ChildTypeOK, PromptKnown
<1>5. CASE SaveParquet
  <2> DEFINE t == TaskIndex(writer.tasks, PromptOf[child.save.plan])
             v == [st |-> "whole", save |-> child.save, task |-> t]
  <2>1. t \in Nat
    <3>1. \E k \in DOMAIN writer.tasks : writer.tasks[k] = PromptOf[child.save.plan]
      BY <1>5 DEF SaveParquet, AtStage, PromptKnown
    <3> QED BY <3>1, TaskIndexFinds DEF DatasetTypeOK
  <2>2. v \in ParquetFile
    BY <1>0, <2>1 DEF ParquetFile
  <2>3. parquet' = Put(parquet, writer.index, v)
    BY <1>5 DEF SaveParquet, WriteParquet
  <2>4. parquet' \in [DOMAIN parquet' -> ParquetFile]
    BY <2>2, <2>3, PutProperties DEF DatasetTypeOK
  <2>5. /\ child'.stage = "video"
        /\ child' \in [stage : Stages, save : Save, cam : Camera, ok : BOOLEAN]
    BY <1>0, <1>5 DEF SaveParquet, AtStage, Stages, SaveStages
  <2> QED BY <1>5, <2>4, <2>5
          DEF SaveParquet, WriteParquet, DatasetTypeOK, ChildTypeOK, PromptKnown
<1>6. CASE SaveVideo
  <2>1. videos' = Put(videos, <<writer.index, child.cam>>, Whole(child.save))
    BY <1>6 DEF SaveVideo, WriteVideo
  <2>2. Whole(child.save) \in VideoFile
    BY <1>0 DEF Whole, VideoFile
  <2>3. videos' \in [DOMAIN videos' -> VideoFile]
    BY <2>1, <2>2, PutProperties DEF DatasetTypeOK
  <2>4. writer' \in [index : Nat, rows : Seq(Save), tasks : Seq(Prompt)]
    BY <1>0, <1>6, AppendProperties DEF SaveVideo, WriteVideo, DatasetTypeOK
  <2>5. /\ child'.stage \in {"video", "info"}
        /\ child' \in [stage : Stages, save : Save, cam : Camera, ok : BOOLEAN]
    BY <1>0, <1>6, WriterAssumption
       DEF SaveVideo, Stages, SaveStages, Camera
  <2> QED BY <1>6, <2>3, <2>4, <2>5
          DEF SaveVideo, WriteVideo, DatasetTypeOK, ChildTypeOK, PromptKnown
<1>7. CASE SaveInfo
  <2>1. Len(writer.rows) \in Nat
    BY LenProperties DEF DatasetTypeOK
  <2>2. info'.st = "whole" /\ info'.total \in Nat
    BY <1>7, <2>1 DEF SaveInfo, WriteInfo
  <2>3. /\ child'.stage = "episodes"
        /\ child' \in [stage : Stages, save : Save, cam : Camera, ok : BOOLEAN]
    BY <1>0, <1>7 DEF SaveInfo, AtStage, Stages, SaveStages
  <2> QED BY <1>7, <2>2, <2>3
          DEF SaveInfo, WriteInfo, DatasetTypeOK, ChildTypeOK, PromptKnown
<1>8. CASE SaveEpisodes
  <2>1. episodes' \in [exists : BOOLEAN, rows : Seq(Save), torn : BOOLEAN]
    BY <1>8 DEF SaveEpisodes, WriteEpisodes, DatasetTypeOK
  <2>2. /\ child'.stage = "tasks"
        /\ child' \in [stage : Stages, save : Save, cam : Camera, ok : BOOLEAN]
    BY <1>0, <1>8 DEF SaveEpisodes, AtStage, Stages, SaveStages
  <2> QED BY <1>8, <2>1, <2>2
          DEF SaveEpisodes, WriteEpisodes, DatasetTypeOK, ChildTypeOK, PromptKnown
<1>9. CASE SaveTasks
  <2>1. /\ child'.stage \in {"schema", "exit"}
        /\ child' \in [stage : Stages, save : Save, cam : Camera, ok : BOOLEAN]
    BY <1>0, <1>9 DEF SaveTasks, AtStage, Stages, SaveStages
  <2> QED BY <1>9, <2>1
          DEF SaveTasks, WriteTasks, DatasetTypeOK, ChildTypeOK, PromptKnown
<1>10. CASE SaveSchema
  <2>1. /\ child'.stage = "row"
        /\ child' \in [stage : Stages, save : Save, cam : Camera, ok : BOOLEAN]
    BY <1>0, <1>10 DEF SaveSchema, AtStage, Stages, SaveStages
  <2> QED BY <1>10, <2>1 DEF SaveSchema, DatasetTypeOK, ChildTypeOK, PromptKnown
<1>11. CASE SaveMetadataRow
  <2>1. metadata' \in Seq([save : Save, index : Nat])
    BY <1>0, <1>11, AppendProperties DEF SaveMetadataRow, DatasetTypeOK, ChildTypeOK
  <2>2. /\ child'.stage = "exit"
        /\ child' \in [stage : Stages, save : Save, cam : Camera, ok : BOOLEAN]
    BY <1>0, <1>11 DEF SaveMetadataRow, AtStage, Stages, SaveStages
  <2> QED BY <1>11, <2>1, <2>2 DEF SaveMetadataRow, DatasetTypeOK, ChildTypeOK, PromptKnown
<1>12. CASE ExitSuccess
  <2>1. /\ child'.stage = "exited"
        /\ child' \in [stage : Stages, save : Save, cam : Camera, ok : BOOLEAN]
    BY <1>0, <1>12 DEF ExitSuccess, ExitAt, Stages
  <2> QED BY <1>12, <2>1 DEF ExitSuccess, DatasetTypeOK, ChildTypeOK, PromptKnown
<1> QED BY <1>1, <1>2, <1>3, <1>4, <1>5, <1>6, <1>7, <1>8, <1>9, <1>10, <1>11, <1>12
        DEF ChildEarly, ChildSave

\* So does a death, whatever it tears.
LEMMA DieType ==
  ASSUME TypeInv, Die, UNCHANGED kind
  PROVE  DatasetTypeOK' /\ ChildTypeOK' /\ PromptKnown'
<1> USE DEF TypeInv, TypeOK, datasetVars
<1>1. /\ child'.stage = "exited"
      /\ child' \in [stage : Stages, save : Save, cam : Camera, ok : BOOLEAN]
  BY DEF Die, ChildTypeOK, Stages
<1>2. PromptKnown'
  BY <1>1 DEF PromptKnown
<1>3. deaths' \in Seq(SaveStages)
  BY AppendProperties DEF Die, ChildTypeOK
<1>4. UNCHANGED metadata
  BY DEF Die
<1>5. DatasetTypeOK' /\ schema' \in {"absent", "torn", "whole"}
  <2>0. /\ Torn \in ParquetFile /\ Torn \in VideoFile
        /\ writer.rows \in Seq(Save)
        /\ schema \in {"absent", "torn", "whole"}
    BY DEF ParquetFile, VideoFile, DatasetTypeOK, ChildTypeOK
  <2>1. TornFiles
    BY DEF Die
  <2>2. CASE child.stage = "parquet"
    <3>1. TornParquet /\ UNCHANGED schema
      BY <2>1, <2>2 DEF TornFiles
    <3>2. parquet' = parquet \/ parquet' = Put(parquet, writer.index, Torn)
      BY <3>1 DEF TornParquet
    <3>3. parquet' \in [DOMAIN parquet' -> ParquetFile]
      <4>1. parquet \in [DOMAIN parquet -> ParquetFile]
        BY DEF DatasetTypeOK
      <4>2. CASE parquet' = Put(parquet, writer.index, Torn)
        BY <2>0, <4>1, <4>2, PutProperties
      <4> QED BY <3>2, <4>1, <4>2
    <3> QED BY <2>0, <3>1, <3>3 DEF TornParquet, DatasetTypeOK
  <2>3. CASE child.stage = "video"
    <3>1. TornVideo(child.cam) /\ UNCHANGED schema
      BY <2>1, <2>3 DEF TornFiles
    <3>2. videos' = videos \/ videos' = Put(videos, <<writer.index, child.cam>>, Torn)
      BY <3>1 DEF TornVideo
    <3>3. videos' \in [DOMAIN videos' -> VideoFile]
      <4>1. videos \in [DOMAIN videos -> VideoFile]
        BY DEF DatasetTypeOK
      <4>2. CASE videos' = Put(videos, <<writer.index, child.cam>>, Torn)
        BY ZenonT(60), <2>0, <4>1, <4>2, PutProperties
      <4> QED BY <3>2, <4>1, <4>2
    <3> QED BY <2>0, <3>1, <3>3 DEF TornVideo, DatasetTypeOK
  <2>4. CASE child.stage = "info"
    <3>1. TornInfo /\ UNCHANGED schema
      BY <2>1, <2>4 DEF TornFiles
    <3> QED BY <2>0, <3>1 DEF TornInfo, Torn, DatasetTypeOK
  <2>5. CASE child.stage = "episodes"
    <3>1. TornEpisodes /\ UNCHANGED schema
      BY <2>1, <2>5 DEF TornFiles
    <3>2. \A k \in 0 .. Len(writer.rows) - 1 : SubSeq(writer.rows, 1, k) \in Seq(Save)
      <4> SUFFICES ASSUME NEW k \in 0 .. Len(writer.rows) - 1
                   PROVE  SubSeq(writer.rows, 1, k) \in Seq(Save)
        OBVIOUS
      <4>1. Len(writer.rows) \in Nat
        BY <2>0, LenProperties
      <4>2. k \in Int /\ \A i \in 1 .. k : writer.rows[i] \in Save
        BY <4>1, <2>0, ElementOfSeq
      <4> QED BY <4>2, SubSeqProperties
    <3>3. episodes' \in [exists : BOOLEAN, rows : Seq(Save), torn : BOOLEAN]
      <4>1. CASE episodes' = episodes
        BY <4>1 DEF DatasetTypeOK
      <4>2. ASSUME NEW k \in 0 .. Len(writer.rows) - 1, NEW cut \in BOOLEAN,
                   episodes' = [exists |-> TRUE, rows |-> SubSeq(writer.rows, 1, k),
                                torn |-> cut]
            PROVE  episodes' \in [exists : BOOLEAN, rows : Seq(Save), torn : BOOLEAN]
        BY <3>2, <4>2
      <4> QED BY <3>1, <4>1, <4>2 DEF TornEpisodes
    <3> QED BY <2>0, <3>1, <3>3 DEF TornEpisodes, DatasetTypeOK
  <2>6. CASE child.stage = "tasks"
    <3>1. TornTasks /\ UNCHANGED schema
      BY <2>1, <2>6 DEF TornFiles
    <3>2. tasks' \in Seq(Prompt)
      BY <3>1, EmptySeq DEF TornTasks, DatasetTypeOK
    <3> QED BY <2>0, <3>1, <3>2 DEF TornTasks, DatasetTypeOK
  <2>7. CASE child.stage = "schema"
    <3>1. /\ schema' \in {schema, IF schema = "absent" THEN "torn" ELSE schema}
          /\ UNCHANGED <<datasetVars, writer>>
      BY <2>1, <2>7 DEF TornFiles
    <3> QED BY <2>0, <3>1 DEF DatasetTypeOK
  <2>8. CASE child.stage \notin {"parquet", "video", "info", "episodes", "tasks", "schema"}
    <3>1. UNCHANGED <<datasetVars, writer, schema>>
      BY <2>1, <2>8 DEF TornFiles, NothingTorn
    <3> QED BY <2>0, <3>1 DEF DatasetTypeOK
  <2> QED BY <2>2, <2>3, <2>4, <2>5, <2>6, <2>7, <2>8
<1> QED BY <1>1, <1>2, <1>3, <1>4, <1>5 DEF ChildTypeOK

\* The collector keeps its own types and leaves the dataset to its child.
LEMMA CollectorStepType ==
  ASSUME TypeInv, Next
  PROVE  TypeInv'
<1> USE DEF TypeInv, TypeOK
<1>0. /\ coll \in [pc : Stopped \cup Running, plan : Plan, budget : 1 .. MaxAttempt,
                   defer : BOOLEAN]
      /\ stats \in Records /\ mem \in Records
      /\ MaxAttempt \in Nat
  BY WriterAssumption DEF CollTypeOK
<1>a. ASSUME DatasetUnchanged
      PROVE  DatasetTypeOK' /\ ChildTypeOK' /\ PromptKnown'
  BY <1>a DEF DatasetUnchanged, datasetVars, childVars, DatasetTypeOK, ChildTypeOK, PromptKnown
<1>b. ASSUME UNCHANGED collectorVars
      PROVE  CollTypeOK'
  BY <1>b DEF collectorVars, CollTypeOK
<1>1. CASE Operator
  <2> PICK budget \in Budgets, defer \in BOOLEAN : Start(budget, defer)
    BY <1>1 DEF Operator
  <2>1. budget \in 1 .. MaxAttempt
    BY CollectorAssumption
  <2>2. coll' \in [pc : Stopped \cup Running, plan : Plan, budget : 1 .. MaxAttempt,
                   defer : BOOLEAN]
    BY <1>0, <2>1 DEF Start, Stopped, Running
  <2>3. CollTypeOK'
    BY <2>2 DEF Start, CollTypeOK
  <2> QED BY <1>a, <2>3 DEF Start
<1>2. CASE Spawn
  <2> PICK p \in Pending :
        /\ coll' = [coll EXCEPT !.pc = "wait", !.plan = p]
        /\ child' = [stage |-> "guard", cam |-> 1, ok |-> FALSE,
                     save |-> [plan |-> p, attempt |-> mem[p].attempts + 1]]
    BY <1>2 DEF Spawn
  <2>1. p \in Plan /\ mem[p].attempts + 1 \in 1 .. MaxAttempt /\ 1 \in Camera
    BY <1>0, WriterAssumption DEF Pending, Records, Camera
  <2>2. /\ child' \in [stage : Stages, save : Save, cam : Camera, ok : BOOLEAN]
        /\ child'.stage = "guard"
    BY <2>1 DEF Save, Stages, EarlyStages
  <2>3. coll' \in [pc : Stopped \cup Running, plan : Plan, budget : 1 .. MaxAttempt,
                   defer : BOOLEAN]
    BY <1>0, <2>1 DEF Running
  <2> QED BY <1>2, <2>2, <2>3
          DEF Spawn, datasetVars, DatasetTypeOK, ChildTypeOK, PromptKnown, CollTypeOK
<1>3. CASE Reap
  <2>1. /\ child.save.attempt \in 0 .. MaxAttempt
        /\ child.ok \in BOOLEAN
        /\ writer.index \in Nat
    BY <1>0 DEF ChildTypeOK, DatasetTypeOK, Save
  <2>2. mem' \in Records
    BY <1>0, <1>3, <2>1 DEF Reap, Records
  <2>3. coll' \in [pc : Stopped \cup Running, plan : Plan, budget : 1 .. MaxAttempt,
                   defer : BOOLEAN]
    BY <1>0, <1>3 DEF Reap, GoTo, Running
  <2>4. CollTypeOK'
    BY <1>3, <2>2, <2>3 DEF Reap, CollTypeOK
  <2> QED BY <1>3, <1>a, <2>4 DEF Reap
<1>4. CASE Timeout
  BY <1>4, <1>b, DieType DEF Timeout, TypeInv, TypeOK
<1>5. CASE AppendManifest
  <2>1. [plan |-> coll.plan, index |-> mem[coll.plan].index]
          \in [plan : Plan, index : Nat \cup {NoIndex}]
    BY <1>0 DEF Records
  <2>2. manifest' \in Seq([plan : Plan, index : Nat \cup {NoIndex}])
    BY <1>5, <2>1, AppendProperties DEF AppendManifest, CollTypeOK
  <2>3. coll' \in [pc : Stopped \cup Running, plan : Plan, budget : 1 .. MaxAttempt,
                   defer : BOOLEAN]
    BY <1>0, <1>5 DEF AppendManifest, GoTo, Running
  <2>4. CollTypeOK'
    BY <1>5, <2>2, <2>3 DEF AppendManifest, CollTypeOK
  <2> QED BY <1>5, <1>a, <2>4 DEF AppendManifest
<1>6. CASE WriteStats
  <2>1. coll' \in [pc : Stopped \cup Running, plan : Plan, budget : 1 .. MaxAttempt,
                   defer : BOOLEAN]
    BY <1>0, <1>6 DEF WriteStats, GoTo, Running
  <2>2. CollTypeOK'
    BY <1>6, <2>1 DEF WriteStats, CollTypeOK
  <2> QED BY <1>6, <1>a, <2>2 DEF WriteStats
<1>7. CASE EndLoop
  <2>1. coll' \in [pc : Stopped \cup Running, plan : Plan, budget : 1 .. MaxAttempt,
                   defer : BOOLEAN]
    BY <1>0, <1>7 DEF EndLoop, GoTo, Running, Stopped
  <2>2. CollTypeOK'
    BY <1>7, <2>1 DEF EndLoop, CollTypeOK
  <2> QED BY <1>7, <1>a, <2>2 DEF EndLoop
<1>8. CASE FinalizeInfo
  <2>1. /\ coll' \in [pc : Stopped \cup Running, plan : Plan, budget : 1 .. MaxAttempt,
                      defer : BOOLEAN]
        /\ UNCHANGED <<stats, mem, manifest, starts, crashes>>
        /\ UNCHANGED <<episodes, tasks, parquet, videos, childVars, deaths, kind>>
    BY <1>0, <1>8 DEF FinalizeInfo, GoTo, Running, Stopped
  <2>2. \/ UNCHANGED info
        \/ info.st = "whole" /\ info' = [info EXCEPT !.ranges = FinalRanges]
    BY <1>8 DEF FinalizeInfo
  <2>3. DatasetTypeOK'
    <3>1. CASE UNCHANGED info
      BY <2>1, <3>1 DEF childVars, DatasetTypeOK
    <3>2. CASE info.st = "whole" /\ info' = [info EXCEPT !.ranges = FinalRanges]
      <4>1. info' = [st |-> "whole", total |-> info.total, ranges |-> FinalRanges]
        BY <3>2 DEF DatasetTypeOK
      <4> QED BY <2>1, <4>1, <3>2 DEF childVars, DatasetTypeOK
    <3> QED BY <2>2, <3>1, <3>2
  <2> QED BY <2>1, <2>3 DEF childVars, CollTypeOK, ChildTypeOK, PromptKnown
<1>9. CASE FinalizeSplits
  <2>1. coll' \in [pc : Stopped \cup Running, plan : Plan, budget : 1 .. MaxAttempt,
                   defer : BOOLEAN]
    BY <1>0, <1>9 DEF FinalizeSplits, GoTo, Stopped
  <2>2. CollTypeOK'
    BY <1>9, <2>1 DEF FinalizeSplits, CollTypeOK
  <2> QED BY <1>9, <1>a, <2>2 DEF FinalizeSplits
<1>10. CASE ChildStep
  BY <1>10, <1>b, ChildStepType DEF ChildStep, TypeInv, TypeOK
<1>11. ASSUME Crash PROVE CollTypeOK' /\ UNCHANGED kind
  <2>1. coll' \in [pc : Stopped \cup Running, plan : Plan, budget : 1 .. MaxAttempt,
                   defer : BOOLEAN]
    BY <1>0, <1>11 DEF Crash, GoTo, Stopped
  <2> QED BY <1>11, <2>1 DEF Crash, CollTypeOK
<1>12. CASE CrashAlone
  BY <1>11, <1>12, <1>a DEF CrashAlone, DatasetUnchanged
<1>13. CASE CrashTogether
  BY <1>11, <1>13, DieType DEF CrashTogether, TypeInv, TypeOK
<1>14. CASE OrphanDies
  BY <1>14, <1>b, DieType DEF OrphanDies, TypeInv, TypeOK
<1>15. CASE Done
  BY <1>15, <1>a, <1>b DEF Done, vars, DatasetUnchanged
<1> QED BY <1>1, <1>2, <1>3, <1>4, <1>5, <1>6, <1>7, <1>8, <1>9, <1>10, <1>12, <1>13,
           <1>14, <1>15 DEF Next, CollectorStep

(***************************************************************************)
(* Every reachable state has the types of TypeOK, whatever dies in a save  *)
(* and however often the command is run.                                   *)
(***************************************************************************)
THEOREM TypeCorrect == Spec => []TypeOK
<1>1. TypeInv /\ UNCHANGED vars => TypeInv'
  BY DEF TypeInv, TypeOK, vars, datasetVars, childVars, collectorVars,
         DatasetTypeOK, ChildTypeOK, CollTypeOK, PromptKnown
<1>2. TypeInv /\ [Next]_vars => TypeInv'
  BY <1>1, CollectorStepType
<1>3. TypeInv => TypeOK
  BY DEF TypeInv
<1> QED BY TypeInit, <1>2, <1>3, PTL DEF Spec

-----------------------------------------------------------------------------
(* The statistics only move forward.  The file is written from memory, so  *)
(* memory must be ahead of it, and the outcome a reap records must be that *)
(* of the next attempt of a plan that has not succeeded.                   *)

NextAttempt ==
  coll.pc = "wait" =>
    /\ child.save.plan = coll.plan
    /\ child.save.attempt = mem[coll.plan].attempts + 1
    /\ ~ mem[coll.plan].success

AheadInv == Forward(stats, mem) /\ NextAttempt

\* Records that do not change have not moved back.
LEMMA ForwardReflexive == ASSUME NEW r \in Records PROVE Forward(r, r)
<1>1. \A p \in Plan : r[p].attempts \in Int
  BY WriterAssumption DEF Records
<1> QED BY <1>1 DEF Forward

\* No task process changes which attempt of which plan it works on.
LEMMA ChildKeepsSave ==
  ASSUME TypeInv, ChildEarly \/ ChildSave \/ Die
  PROVE  child'.save = child.save
<1>1. child \in [stage : Stages, save : Save, cam : Camera, ok : BOOLEAN]
  BY DEF TypeInv, TypeOK, ChildTypeOK
<1>2. CASE ChildEarly
  BY <1>1, <1>2 DEF ChildEarly, CheckSchema, OpenWriter, RolloutFails, RolloutSucceeds,
                    AtStage, ExitAt
<1>3. CASE ChildSave
  BY <1>1, <1>3 DEF ChildSave, SaveParquet, SaveVideo, SaveInfo, SaveEpisodes, SaveTasks,
                    SaveSchema, SaveMetadataRow, ExitSuccess, AtStage, ExitAt
<1>4. CASE Die
  BY <1>1, <1>4 DEF Die
<1> QED BY <1>2, <1>3, <1>4

\* Memory starts as a copy of the statistics.
LEMMA AheadInit == Init => AheadInv
<1> SUFFICES ASSUME Init PROVE AheadInv
  OBVIOUS
<1>1. coll.pc = "idle" /\ mem = stats
  BY DEF Init
<1>2. stats \in Records
  BY TypeInit DEF TypeInv, TypeOK, CollTypeOK
<1> QED BY <1>1, <1>2, ForwardReflexive DEF AheadInv, NextAttempt

\* Memory stays ahead of the statistics, which only ever become memory.
LEMMA AheadStep ==
  ASSUME TypeInv, AheadInv, Next
  PROVE  AheadInv' /\ Forward(stats, stats')
<1> USE DEF AheadInv
<1>0. /\ stats \in Records /\ mem \in Records
      /\ coll.plan \in Plan
      /\ coll \in [pc : Stopped \cup Running, plan : Plan, budget : 1 .. MaxAttempt,
                   defer : BOOLEAN]
      /\ Forward(stats, stats) /\ Forward(mem, mem)
  BY ForwardReflexive DEF TypeInv, TypeOK, CollTypeOK
<1>a. ASSUME UNCHANGED <<stats, mem>>, coll'.pc # "wait"
      PROVE  AheadInv' /\ Forward(stats, stats')
  BY <1>0, <1>a DEF NextAttempt, Forward
<1>b. ASSUME UNCHANGED collectorVars, child'.save = child.save
      PROVE  AheadInv' /\ Forward(stats, stats')
  BY <1>0, <1>b DEF NextAttempt, Forward, collectorVars
<1>c. ASSUME mem' = stats, UNCHANGED stats, coll'.pc # "wait"
      PROVE  AheadInv' /\ Forward(stats, stats')
  BY <1>0, <1>c DEF NextAttempt, Forward
<1>1. CASE Operator
  <2> PICK budget \in Budgets, defer \in BOOLEAN : Start(budget, defer)
    BY <1>1 DEF Operator
  <2>1. coll'.pc # "wait"
    BY <1>0 DEF Start
  <2> QED BY <1>c, <2>1 DEF Start
<1>2. CASE Spawn
  <2> PICK p \in Pending :
        /\ coll' = [coll EXCEPT !.pc = "wait", !.plan = p]
        /\ child' = [stage |-> "guard", cam |-> 1, ok |-> FALSE,
                     save |-> [plan |-> p, attempt |-> mem[p].attempts + 1]]
    BY <1>2 DEF Spawn
  <2>1. p \in Plan /\ ~ mem[p].success
    BY DEF Pending
  <2>2. UNCHANGED <<stats, mem>>
    BY <1>2 DEF Spawn
  <2>3. NextAttempt'
    BY <1>0, <2>1, <2>2 DEF NextAttempt
  <2> QED BY <1>0, <2>2, <2>3 DEF Forward
<1>3. CASE Reap
  <2>1. /\ child.save.plan = coll.plan
        /\ child.save.attempt = mem[coll.plan].attempts + 1
        /\ ~ mem[coll.plan].success
    BY <1>3 DEF Reap, NextAttempt
  <2>2. /\ \A p \in Plan : p # coll.plan => mem'[p] = mem[p]
        /\ mem'[coll.plan].attempts = child.save.attempt
    BY <1>0, <1>3 DEF Reap, Records
  <2>3. \A p \in Plan : stats[p].attempts \in Int /\ mem[p].attempts \in Int
    BY <1>0, WriterAssumption DEF Records
  <2>4. ~ stats[coll.plan].success
    BY <1>0, <2>1 DEF Forward
  <2>5. Forward(stats, mem')
    <3> SUFFICES ASSUME NEW p \in Plan
                 PROVE  /\ stats[p].attempts <= mem'[p].attempts
                        /\ stats[p].success => mem'[p] = stats[p]
      BY DEF Forward
    <3>1. stats[p].attempts <= mem[p].attempts /\ (stats[p].success => mem[p] = stats[p])
      BY DEF Forward
    <3>2. CASE p = coll.plan
      BY <2>1, <2>2, <2>3, <2>4, <3>1, <3>2
    <3>3. CASE p # coll.plan
      BY <2>2, <3>1, <3>3
    <3> QED BY <3>2, <3>3
  <2>6. coll'.pc # "wait" /\ UNCHANGED stats
    BY <1>0, <1>3 DEF Reap, GoTo
  <2> QED BY <1>0, <2>5, <2>6 DEF NextAttempt, Forward
<1>4. CASE Timeout
  BY <1>4, <1>b, ChildKeepsSave DEF Timeout
<1>5. CASE AppendManifest
  <2>1. coll'.pc # "wait"
    BY <1>0, <1>5 DEF AppendManifest, GoTo
  <2> QED BY <1>5, <1>a, <2>1 DEF AppendManifest
<1>6. CASE WriteStats
  <2>1. stats' = mem /\ mem' = mem /\ coll'.pc # "wait"
    BY <1>0, <1>6 DEF WriteStats, GoTo
  <2> QED BY <1>0, <2>1 DEF NextAttempt, Forward
<1>7. CASE EndLoop
  <2>1. coll'.pc # "wait"
    BY <1>0, <1>7 DEF EndLoop, GoTo
  <2> QED BY <1>7, <1>a, <2>1 DEF EndLoop
<1>8. CASE FinalizeInfo
  <2>1. coll'.pc # "wait"
    BY <1>0, <1>8 DEF FinalizeInfo, GoTo
  <2> QED BY <1>8, <1>a, <2>1 DEF FinalizeInfo
<1>9. CASE FinalizeSplits
  <2>1. coll'.pc # "wait"
    BY <1>0, <1>9 DEF FinalizeSplits, GoTo
  <2> QED BY <1>9, <1>a, <2>1 DEF FinalizeSplits
<1>10. CASE ChildStep
  BY <1>10, <1>b, ChildKeepsSave DEF ChildStep
<1>11. CASE Crash
  <2>1. coll'.pc # "wait"
    BY <1>0, <1>11 DEF Crash, GoTo
  <2> QED BY <1>11, <1>c, <2>1 DEF Crash
<1>12. CASE OrphanDies
  BY <1>12, <1>b, ChildKeepsSave DEF OrphanDies
<1>13. CASE Done
  BY <1>13, <1>b DEF Done, vars, childVars
<1> QED BY <1>1, <1>2, <1>3, <1>4, <1>5, <1>6, <1>7, <1>8, <1>9, <1>10, <1>11, <1>12, <1>13
        DEF Next, CollectorStep, CrashAlone, CrashTogether

(***************************************************************************)
(* Whatever dies, and whenever, no step of the system lowers the attempts  *)
(* the statistics file records for a plan or changes a recorded success.   *)
(***************************************************************************)
THEOREM StatsOnlyMoveForward == Spec => StatsMonotone
<1>1. TypeInv /\ AheadInv /\ [Next]_vars => TypeInv' /\ AheadInv'
  <2>1. TypeInv /\ AheadInv /\ UNCHANGED vars => TypeInv' /\ AheadInv'
    BY DEF TypeInv, TypeOK, vars, datasetVars, childVars, collectorVars, DatasetTypeOK,
           ChildTypeOK, CollTypeOK, PromptKnown, AheadInv, NextAttempt, Forward
  <2> QED BY <2>1, CollectorStepType, AheadStep
<1>2. TypeInv /\ AheadInv /\ [Next]_vars => [Forward(stats, stats')]_stats
  BY AheadStep DEF vars, collectorVars
<1> QED BY TypeInit, AheadInit, <1>1, <1>2, PTL DEF Spec, StatsMonotone
=============================================================================
