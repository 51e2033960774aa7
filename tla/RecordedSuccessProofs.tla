------------------------ MODULE RecordedSuccessProofs ------------------------
(***************************************************************************)
(* A plan recorded as done is in the dataset.  Rollouts may fail and time  *)
(* out, the collector may crash at any point, alone or with its task       *)
(* process, and the command may be run again any number of times; what a   *)
(* death inside a save can damage is stated exactly.                       *)
(***************************************************************************)
EXTENDS CollectorInvariants, CollectorProofs

\* An empty dataset has nothing to lose.
LEMMA SaveInit == Init => SaveInv
<1> SUFFICES ASSUME Init PROVE SaveInv
  OBVIOUS
<1>1. /\ child.stage = "none" /\ Rows = << >> /\ Len(Rows) = 0
      /\ \A p \in Plan : ~ stats[p].success /\ ~ mem[p].success
  BY EmptySeq DEF Init, ChildInit, DatasetInit, NoChild, NoRows, Rows
<1> QED BY <1>1 DEF SaveInv, RowsProgress, DataProgress, VocabularyProgress, RowsHeld,
     RecordsTrue, SaverUnrecorded, IsListed, Listed, Unlisted, Live, EarlyStages, SaveStages

\* The shapes the steps below rely on.
LEMMA Shapes ==
  ASSUME TypeInv
  PROVE  /\ child \in [stage : Stages, save : Save, cam : Camera, ok : BOOLEAN]
         /\ child.save.plan \in Plan /\ PromptOf[child.save.plan] \in Prompt
         /\ writer \in [index : Nat, rows : Seq(Save), tasks : Seq(Prompt)]
         /\ Rows \in Seq(Save) /\ Len(Rows) \in Nat /\ DOMAIN Rows = 1 .. Len(Rows)
         /\ tasks \in Seq(Prompt)
         /\ parquet \in [DOMAIN parquet -> ParquetFile]
         /\ videos \in [DOMAIN videos -> VideoFile]
         /\ \A i \in DOMAIN parquet : parquet[i].st = "whole" => parquet[i].task \in Nat
<1>1. \A i \in DOMAIN parquet : parquet[i].st = "whole" => parquet[i].task \in Nat
  <2> SUFFICES ASSUME NEW i \in DOMAIN parquet, parquet[i].st = "whole"
               PROVE  parquet[i].task \in Nat
    OBVIOUS
  <2>1. parquet[i] \in ParquetFile
    BY DEF TypeInv, TypeOK, DatasetTypeOK
  <2> QED BY <2>1 DEF ParquetFile, Torn
<1> QED BY <1>1, LenProperties, PromptType
        DEF TypeInv, TypeOK, DatasetTypeOK, ChildTypeOK, Rows, Save

\* A step that only moves the child to a stage that promises no more.
LEMMA StageOnly ==
  ASSUME TypeInv, SaveInv,
         UNCHANGED <<episodes, tasks, parquet, videos, writer, stats, mem, coll, deaths>>,
         child'.save = child.save, child'.cam = child.cam,
         \/ /\ child.stage \in EarlyStages
            /\ child'.stage = "load" \/ (child'.stage = "exited" /\ ~ child'.ok)
         \/ child.stage = "rollout" /\ child'.stage = "parquet"
         \/ child.stage = "info" /\ child'.stage = "episodes"
         \/ child.stage \in {"schema", "row", "exit"} /\ IsListed' /\ child'.stage # "tasks",
         child.stage # "tasks",
         Live
  PROVE  SaveInv'
<1>1. RowsProgress'
  BY DEF SaveInv, RowsProgress, IsListed, Listed, Unlisted, Rows
<1>2. DataProgress'
  BY DEF SaveInv, DataProgress, IsListed, Listed, ParquetHolds, VideoHolds, Live, EarlyStages,
         SaveStages
<1>3. VocabularyProgress'
  BY DEF SaveInv, VocabularyProgress, IsListed, Listed, Unlisted
<1>4. RowsHeld'
  BY DEF SaveInv, RowsHeld, HoldsData, ResolvesPrompt, Resolved, DiedIn, Rows, Row
<1>5. RecordsTrue'
  BY DEF SaveInv, RecordsTrue, IsRow, Rows, Row
<1>6. SaverUnrecorded'
  BY DEF SaveInv, SaverUnrecorded
<1> QED BY <1>1, <1>2, <1>3, <1>4, <1>5, <1>6 DEF SaveInv

\* The writer is opened: the episode takes the index after the last row.
LEMMA OpenWriterSaves ==
  ASSUME TypeInv, SaveInv, OpenWriter, UNCHANGED collectorVars
  PROVE  SaveInv'
<1>1. CASE ExitAt({"load"}, FALSE) /\ UNCHANGED <<datasetVars, writer>>
  <2>1. /\ child.stage = "load" /\ child'.stage = "exited" /\ ~ child'.ok
        /\ child'.save = child.save /\ child'.cam = child.cam
    BY <1>1, Shapes DEF ExitAt
  <2> QED BY <1>1, <2>1, StageOnly DEF OpenWriter, datasetVars, collectorVars, Live, EarlyStages
<1>2. CASE AtStage("load", "rollout") /\ LoadExistingState(child.save.plan)
  <2> DEFINE ts == Register(tasks, PromptOf[child.save.plan])
  <2>1. /\ child.stage = "load" /\ child'.stage = "rollout"
        /\ child'.save = child.save /\ child'.cam = child.cam /\ child'.ok = child.ok
    BY <1>2, Shapes DEF AtStage
  <2>2. /\ writer' = [index |-> Len(Rows), rows |-> Rows, tasks |-> ts]
        /\ UNCHANGED <<episodes, tasks, parquet, videos, stats, mem, coll, deaths>>
    BY <1>2 DEF OpenWriter, LoadExistingState, datasetVars, collectorVars, Rows
  <2>3. \A k \in DOMAIN tasks : k \in DOMAIN ts /\ ts[k] = tasks[k]
    BY Shapes, RegisterKnows
  <2>4. RowsProgress'
    BY <2>1, <2>2 DEF RowsProgress, IsListed, Listed, Rows
  <2>5. DataProgress'
    BY <2>1 DEF SaveInv, DataProgress, EarlyStages
  <2>6. VocabularyProgress'
    BY <2>1, <2>2, <2>3 DEF VocabularyProgress
  <2>7. RowsHeld'
    BY <2>1, <2>2 DEF SaveInv, RowsHeld, HoldsData, ResolvesPrompt, Resolved, DiedIn, Rows, Row
  <2>8. RecordsTrue'
    BY <2>2 DEF SaveInv, RecordsTrue, IsRow, Rows, Row
  <2>9. SaverUnrecorded'
    BY <2>1, <2>2 DEF SaveInv, SaverUnrecorded, Live, EarlyStages
  <2> QED BY <2>4, <2>5, <2>6, <2>7, <2>8, <2>9 DEF SaveInv
<1> QED BY <1>1, <1>2 DEF OpenWriter

\* Data is written at an index no row has, so the data of the rows stays.
LEMMA ParquetSaves ==
  ASSUME TypeInv, SaveInv, SaveParquet, UNCHANGED collectorVars
  PROVE  SaveInv'
<1> DEFINE n == writer.index
           t == TaskIndex(writer.tasks, PromptOf[child.save.plan])
           v == [st |-> "whole", save |-> child.save, task |-> t]
<1>1. /\ child.stage = "parquet" /\ child'.stage = "video"
      /\ child'.save = child.save /\ child'.cam = child.cam /\ child'.ok = child.ok
  BY Shapes DEF SaveParquet, AtStage
<1>2. /\ parquet' = Put(parquet, n, v)
      /\ UNCHANGED <<episodes, tasks, videos, writer, stats, mem, coll, deaths>>
  BY DEF SaveParquet, WriteParquet, collectorVars
<1>3. n = Len(Rows)
  BY <1>1 DEF SaveInv, RowsProgress, Unlisted
<1>4. /\ t \in Nat /\ t + 1 \in DOMAIN writer.tasks
      /\ writer.tasks[t + 1] = PromptOf[child.save.plan]
  <2>1. \E k \in DOMAIN writer.tasks : writer.tasks[k] = PromptOf[child.save.plan]
    BY <1>1 DEF TypeInv, PromptKnown
  <2> QED BY <2>1, Shapes, TaskIndexFinds
<1>5. /\ DOMAIN parquet' = DOMAIN parquet \cup {n}
      /\ parquet'[n] = v
      /\ \A i \in DOMAIN parquet : i # n => parquet'[i] = parquet[i]
  BY <1>2 DEF Put
<1>6. RowsProgress'
  BY <1>1, <1>2 DEF SaveInv, RowsProgress, IsListed, Listed, Unlisted, Rows
<1>7. DataProgress'
  <2>1. ParquetHolds(n, child.save)'
    BY <1>1, <1>2, <1>5 DEF ParquetHolds
  <2>2. \A cam \in Camera : ~ (cam < child'.cam)
    BY <1>1 DEF SaveInv, DataProgress, Camera
  <2> QED BY <1>1, <1>2, <2>1, <2>2 DEF DataProgress, EarlyStages
<1>8. VocabularyProgress'
  BY <1>1, <1>2, <1>4, <1>5 DEF SaveInv, VocabularyProgress, Unlisted
<1>9. RowsHeld'
  <2> SUFFICES ASSUME NEW i \in 0 .. Len(Rows) - 1
               PROVE  HoldsData(i, Row(i))' /\ Resolved(i)'
    BY <1>2 DEF RowsHeld, Rows
  <2>1. i # n
    BY <1>3, Shapes
  <2>2. HoldsData(i, Row(i)) /\ Resolved(i)
    BY <1>1 DEF SaveInv, RowsHeld
  <2>3. i \in DOMAIN parquet /\ parquet'[i] = parquet[i] /\ i \in DOMAIN parquet'
    BY <1>5, <2>1, <2>2 DEF HoldsData
  <2> QED BY <1>2, <2>2, <2>3 DEF HoldsData, ResolvesPrompt, Resolved, DiedIn, Row, Rows
<1>10. RecordsTrue'
  BY <1>2 DEF SaveInv, RecordsTrue, IsRow, Rows, Row
<1>11. SaverUnrecorded'
  BY <1>1, <1>2 DEF SaveInv, SaverUnrecorded, Live, SaveStages
<1> QED BY <1>6, <1>7, <1>8, <1>9, <1>10, <1>11 DEF SaveInv

\* The last video completes the episode in the memory of the writer.
LEMMA VideoSaves ==
  ASSUME TypeInv, SaveInv, SaveVideo, UNCHANGED collectorVars
  PROVE  SaveInv'
<1> DEFINE n == writer.index
           file == <<n, child.cam>>
<1>1. /\ child.stage = "video" /\ child'.save = child.save /\ child'.ok = child.ok
      /\ \/ /\ child.cam < NumCameras
            /\ child'.stage = "video" /\ child'.cam = child.cam + 1
            /\ writer' = writer
         \/ /\ child.cam = NumCameras
            /\ child'.stage = "info" /\ child'.cam = child.cam
            /\ writer' = [writer EXCEPT !.rows = Append(writer.rows, child.save)]
  <2>1. child.cam \in 1 .. NumCameras /\ NumCameras \in Nat
    BY Shapes, WriterAssumption DEF Camera
  <2>2. CASE child.cam < NumCameras
    BY <2>1, <2>2, Shapes DEF SaveVideo, WriteVideo
  <2>3. CASE child.cam = NumCameras
    BY <2>1, <2>3, Shapes DEF SaveVideo, WriteVideo
  <2> QED BY <2>1, <2>2, <2>3
<1>2. /\ videos' = Put(videos, file, Whole(child.save))
      /\ UNCHANGED <<episodes, tasks, parquet, stats, mem, coll, deaths>>
  BY DEF SaveVideo, WriteVideo, collectorVars
<1>3. /\ n = Len(Rows) /\ n \in Nat
      /\ writer'.index = n /\ writer'.tasks = writer.tasks
  BY <1>1, Shapes DEF SaveInv, RowsProgress, Unlisted
<1>4. /\ DOMAIN videos' = DOMAIN videos \cup {file}
      /\ videos'[file] = Whole(child.save)
      /\ \A x \in DOMAIN videos : x # file => videos'[x] = videos[x]
  BY <1>2 DEF Put
<1>5. RowsProgress'
  <2>1. writer.rows = Rows
    BY <1>1 DEF SaveInv, RowsProgress
  <2> QED BY <1>1, <1>2, <1>3, <2>1, Shapes DEF RowsProgress, IsListed, Listed, Unlisted, Rows
<1>6. DataProgress'
  <2>1. ParquetHolds(n, child.save)'
    BY <1>1, <1>2, <1>3 DEF SaveInv, DataProgress, ParquetHolds
  <2>2. ASSUME NEW cam \in Camera, cam < child.cam \/ cam = child.cam
        PROVE  VideoHolds(n, cam, child.save)'
    <3>1. CASE cam = child.cam
      BY <1>1, <1>3, <1>4, <3>1 DEF VideoHolds
    <3>2. CASE cam < child.cam
      <4>1. VideoHolds(n, cam, child.save) /\ <<n, cam>> # file
        BY <1>1, <3>2, Shapes DEF SaveInv, DataProgress, Camera
      <4> QED BY <1>1, <1>3, <1>4, <4>1 DEF VideoHolds
    <3> QED BY <2>2, <3>1, <3>2
  <2>3. \A cam \in Camera : cam \in Int /\ child.cam \in Int /\ NumCameras \in Int
                           /\ cam <= NumCameras
    BY Shapes, WriterAssumption DEF Camera
  <2>4. CASE child'.stage = "video"
    <3>1. \A cam \in Camera : cam < child'.cam => cam < child.cam \/ cam = child.cam
      BY <1>1, <2>3, <2>4
    <3>2. \A cam \in Camera : cam < child'.cam => VideoHolds(n, cam, child.save)'
      BY <2>2, <3>1
    <3> QED BY <1>1, <1>3, <2>1, <2>4, <3>2
            DEF DataProgress, EarlyStages, ParquetHolds, VideoHolds
  <2>5. CASE child'.stage = "info"
    <3>1. \A cam \in Camera : cam < child.cam \/ cam = child.cam
      BY <1>1, <2>3, <2>5
    <3>2. \A cam \in Camera : VideoHolds(n, cam, child.save)'
      BY <2>2, <3>1
    <3> QED BY <1>1, <1>3, <2>1, <2>5, <3>2
            DEF DataProgress, EarlyStages, ParquetHolds, VideoHolds
  <2> QED BY <1>1, <2>4, <2>5
<1>7. VocabularyProgress'
  BY <1>1, <1>2, <1>3 DEF SaveInv, VocabularyProgress, Unlisted
<1>8. RowsHeld'
  <2> SUFFICES ASSUME NEW i \in 0 .. Len(Rows) - 1
               PROVE  HoldsData(i, Row(i))' /\ Resolved(i)'
    BY <1>2 DEF RowsHeld, Rows
  <2>1. i # n
    BY <1>3
  <2>2. HoldsData(i, Row(i)) /\ Resolved(i)
    BY <1>1 DEF SaveInv, RowsHeld
  <2>3. \A cam \in Camera : <<i, cam>> # file
    BY <2>1
  <2>4. HoldsData(i, Row(i))'
    BY <1>2, <1>4, <2>2, <2>3 DEF HoldsData, Row, Rows
  <2> QED BY <1>2, <2>2, <2>4 DEF ResolvesPrompt, Resolved, DiedIn, Row, Rows
<1>9. RecordsTrue'
  BY <1>2 DEF SaveInv, RecordsTrue, IsRow, Rows, Row
<1>10. SaverUnrecorded'
  BY <1>1, <1>2 DEF SaveInv, SaverUnrecorded, Live, SaveStages
<1> QED BY <1>5, <1>6, <1>7, <1>8, <1>9, <1>10 DEF SaveInv

\* The rewrite of episodes.jsonl lists the episode, whose files are whole.
LEMMA EpisodesSave ==
  ASSUME TypeInv, SaveInv, SaveEpisodes, UNCHANGED collectorVars
  PROVE  SaveInv'
<1>1. /\ child.stage = "episodes" /\ child'.stage = "tasks"
      /\ child'.save = child.save /\ child'.cam = child.cam /\ child'.ok = child.ok
  BY Shapes DEF SaveEpisodes, AtStage
<1>2. /\ episodes'.rows = writer.rows
      /\ UNCHANGED <<tasks, parquet, videos, writer, stats, mem, coll, deaths>>
  BY DEF SaveEpisodes, WriteEpisodes, collectorVars
<1>3. /\ writer.index = Len(Rows)
      /\ Rows' = Append(Rows, child.save)
  BY <1>1, <1>2 DEF SaveInv, RowsProgress, Unlisted, Rows
<1>4. /\ Len(Rows') = Len(Rows) + 1
      /\ Rows'[Len(Rows) + 1] = child.save
      /\ \A k \in 1 .. Len(Rows) : Rows'[k] = Rows[k]
      /\ Len(Rows) \in Nat
  BY <1>3, Shapes, AppendProperties
<1>5. RowsProgress'
  BY <1>1, <1>2, <1>3, <1>4 DEF RowsProgress, IsListed, Listed, Unlisted
<1>6. DataProgress'
  BY <1>1 DEF DataProgress, EarlyStages
<1>7. VocabularyProgress'
  BY <1>1, <1>2 DEF SaveInv, VocabularyProgress, Unlisted
<1>8. RowsHeld'
  <2> SUFFICES ASSUME NEW i \in 0 .. Len(Rows') - 1
               PROVE  /\ HoldsData(i, Row(i))'
                      /\ Resolved(i)' \/ i = writer'.index
    BY <1>1 DEF RowsHeld
  <2>1. CASE i = Len(Rows)
    <3>1. ParquetHolds(i, child.save) /\ \A cam \in Camera : VideoHolds(i, cam, child.save)
      BY <1>1, <1>3, <2>1 DEF SaveInv, DataProgress
    <3>2. Rows'[i + 1] = child.save
      BY <1>4, <2>1
    <3> QED BY <1>2, <1>3, <2>1, <3>1, <3>2 DEF HoldsData, ParquetHolds, VideoHolds, Row
  <2>2. CASE i \in 0 .. Len(Rows) - 1
    <3>1. HoldsData(i, Row(i)) /\ Resolved(i)
      BY <1>1, <2>2 DEF SaveInv, RowsHeld
    <3>2. Rows'[i + 1] = Rows[i + 1]
      BY <1>4, <2>2
    <3> QED BY <1>2, <3>1, <3>2 DEF HoldsData, ResolvesPrompt, Resolved, DiedIn, Row
  <2> QED BY <1>4, <2>1, <2>2
<1>9. RecordsTrue'
  <2> SUFFICES ASSUME NEW p \in Plan, NEW record, IsRow(p, record)
               PROVE  IsRow(p, record)'
    BY <1>2 DEF SaveInv, RecordsTrue
  <2> QED BY <1>4 DEF IsRow, Row
<1>10. SaverUnrecorded'
  BY <1>1, <1>2 DEF SaveInv, SaverUnrecorded, Live, SaveStages
<1> QED BY <1>5, <1>6, <1>7, <1>8, <1>9, <1>10 DEF SaveInv

\* The rewrite of tasks.jsonl makes the prompt of the episode resolvable.
LEMMA TasksSave ==
  ASSUME TypeInv, SaveInv, SaveTasks, UNCHANGED collectorVars
  PROVE  SaveInv'
<1>1. /\ child.stage = "tasks" /\ child'.stage \in {"schema", "exit"}
      /\ child'.save = child.save /\ child'.cam = child.cam /\ child'.ok = child.ok
  BY Shapes DEF SaveTasks, AtStage
<1>2. /\ tasks' = writer.tasks
      /\ UNCHANGED <<episodes, parquet, videos, writer, stats, mem, coll, deaths>>
  BY DEF SaveTasks, WriteTasks, collectorVars
<1>3. RowsProgress'
  BY <1>1, <1>2 DEF SaveInv, RowsProgress, IsListed, Listed, Unlisted, Rows
<1>4. DataProgress'
  BY <1>1 DEF DataProgress, EarlyStages
<1>5. VocabularyProgress'
  BY <1>1 DEF VocabularyProgress, Unlisted
<1>6. RowsHeld'
  <2> SUFFICES ASSUME NEW i \in 0 .. Len(Rows) - 1
               PROVE  HoldsData(i, Row(i))' /\ Resolved(i)'
    BY <1>2 DEF RowsHeld, Rows
  <2>1. HoldsData(i, Row(i))
    BY DEF SaveInv, RowsHeld
  <2>2. HoldsData(i, Row(i))'
    BY <1>2, <2>1 DEF HoldsData, Row, Rows
  <2>3. Resolved(i)'
    <3>1. CASE Resolved(i)
      <4>1. \A k \in DOMAIN tasks : k \in DOMAIN writer.tasks /\ writer.tasks[k] = tasks[k]
        BY <1>1 DEF SaveInv, VocabularyProgress
      <4> QED BY <1>2, <3>1, <4>1 DEF ResolvesPrompt, Resolved, DiedIn, Row, Rows
    <3>2. CASE i = writer.index
      <4>1. Row(i) = child.save
        BY <1>1, <3>2, Shapes DEF SaveInv, RowsProgress, IsListed, Listed, Row
      <4>2. /\ parquet[i].task + 1 \in DOMAIN writer.tasks
            /\ writer.tasks[parquet[i].task + 1] = PromptOf[child.save.plan]
        BY <1>1, <3>2 DEF SaveInv, VocabularyProgress
      <4> QED BY <1>2, <2>1, <4>1, <4>2 DEF ResolvesPrompt, Resolved, DiedIn, HoldsData, Row, Rows
    <3> QED BY <3>1, <3>2 DEF SaveInv, RowsHeld
  <2> QED BY <2>2, <2>3
<1>7. RecordsTrue'
  BY <1>2 DEF SaveInv, RecordsTrue, IsRow, Rows, Row
<1>8. SaverUnrecorded'
  BY <1>1, <1>2 DEF SaveInv, SaverUnrecorded, Live, SaveStages
<1> QED BY <1>3, <1>4, <1>5, <1>6, <1>7, <1>8 DEF SaveInv

\* A live task process keeps the invariant through every stage of a save.
LEMMA ChildStepSaves ==
  ASSUME TypeInv, SaveInv, ChildEarly \/ ChildSave, UNCHANGED collectorVars
  PROVE  SaveInv'
<1>0. /\ child \in [stage : Stages, save : Save, cam : Camera, ok : BOOLEAN]
      /\ UNCHANGED <<stats, mem, coll>>
  BY Shapes DEF collectorVars
<1>1. CASE CheckSchema \/ RolloutFails
  <2>1. /\ child'.save = child.save /\ child'.cam = child.cam
        /\ child.stage \in EarlyStages
        /\ child'.stage = "load" \/ (child'.stage = "exited" /\ ~ child'.ok)
    BY <1>0, <1>1 DEF CheckSchema, RolloutFails, AtStage, ExitAt, EarlyStages
  <2>2. UNCHANGED <<episodes, tasks, parquet, videos, writer, deaths>>
    BY <1>1 DEF CheckSchema, RolloutFails, datasetVars
  <2> QED BY <1>0, <2>1, <2>2, StageOnly DEF Live, EarlyStages
<1>2. CASE RolloutSucceeds
  <2>1. /\ child'.save = child.save /\ child'.cam = child.cam
        /\ child.stage = "rollout" /\ child'.stage = "parquet"
    BY <1>0, <1>2 DEF RolloutSucceeds, AtStage
  <2>2. UNCHANGED <<episodes, tasks, parquet, videos, writer, deaths>>
    BY <1>2 DEF RolloutSucceeds, datasetVars
  <2> QED BY <1>0, <2>1, <2>2, StageOnly DEF Live, EarlyStages
<1>3. CASE SaveInfo
  <2>1. /\ child'.save = child.save /\ child'.cam = child.cam
        /\ child.stage = "info" /\ child'.stage = "episodes"
    BY <1>0, <1>3 DEF SaveInfo, AtStage
  <2>2. UNCHANGED <<episodes, tasks, parquet, videos, writer, deaths>>
    BY <1>3 DEF SaveInfo, WriteInfo
  <2> QED BY <1>0, <2>1, <2>2, StageOnly DEF Live, SaveStages
<1>4. CASE SaveSchema \/ SaveMetadataRow \/ ExitSuccess
  <2>1. /\ child'.save = child.save /\ child'.cam = child.cam
        /\ child.stage \in {"schema", "row", "exit"}
        /\ \/ child'.stage \in {"row", "exit"}
           \/ child'.stage = "exited" /\ child'.ok
    BY <1>0, <1>4 DEF SaveSchema, SaveMetadataRow, ExitSuccess, AtStage, ExitAt
  <2>2. UNCHANGED <<episodes, tasks, parquet, videos, writer, deaths>>
    BY <1>4 DEF SaveSchema, SaveMetadataRow, ExitSuccess, datasetVars
  <2>3. IsListed' /\ child'.stage # "tasks" /\ child.stage # "tasks"
    BY <2>1 DEF IsListed, Listed
  <2> QED BY <1>0, <2>1, <2>2, <2>3, StageOnly DEF Live, SaveStages
<1> QED BY <1>1, <1>2, <1>3, <1>4, OpenWriterSaves, ParquetSaves, VideoSaves, EpisodesSave,
           TasksSave DEF ChildEarly, ChildSave

\* Outside a save a death ends the task process and touches no file.
LEMMA DieSaves ==
  ASSUME TypeInv, SaveInv, Die, MaxSaveDeaths = 0
  PROVE  /\ child.stage \in EarlyStages /\ child'.stage = "exited" /\ ~ child'.ok
         /\ child'.save = child.save /\ child'.cam = child.cam
         /\ UNCHANGED <<episodes, tasks, parquet, videos, writer>>
<1>1. Len(deaths) \in Nat
  BY LenProperties DEF TypeInv, TypeOK, ChildTypeOK
<1>2. child.stage \in EarlyStages
  BY <1>1 DEF Die, Live
<1>3. UNCHANGED <<episodes, tasks, parquet, videos, writer>>
  BY <1>2 DEF Die, TornFiles, NothingTorn, datasetVars, EarlyStages
<1>4. child'.stage = "exited" /\ ~ child'.ok /\ child'.save = child.save /\ child'.cam = child.cam
  BY Shapes DEF Die
<1> QED BY <1>2, <1>3, <1>4

\* What dies in a stage stays dead in it.
LEMMA DeathsAreKept ==
  ASSUME TypeInv, Die, NEW stage
  PROVE  /\ DiedIn(stage) => DiedIn(stage)'
         /\ stage \in SaveStages /\ child.stage = stage => DiedIn(stage)'
<1>1. CASE child.stage \in SaveStages
  <2>1. deaths \in Seq(SaveStages) /\ deaths' = Append(deaths, child.stage)
    BY <1>1 DEF TypeInv, TypeOK, ChildTypeOK, Die
  <2>2. /\ \A k \in DOMAIN deaths : k \in DOMAIN deaths' /\ deaths'[k] = deaths[k]
        /\ \E k \in DOMAIN deaths' : deaths'[k] = child.stage
    <3>1. /\ deaths' \in Seq(SaveStages) /\ Len(deaths') = Len(deaths) + 1
          /\ \A k \in 1 .. Len(deaths) : deaths'[k] = deaths[k]
          /\ deaths'[Len(deaths) + 1] = child.stage
      BY <1>1, <2>1, AppendProperties
    <3>2. /\ DOMAIN deaths = 1 .. Len(deaths) /\ Len(deaths) \in Nat
          /\ DOMAIN deaths' = 1 .. Len(deaths) + 1
      BY <2>1, <3>1, LenProperties
    <3> QED BY <3>1, <3>2
  <2> QED BY <2>2 DEF DiedIn
<1>2. CASE child.stage \notin SaveStages
  BY <1>2 DEF Die, DiedIn
<1> QED BY <1>1, <1>2

\* A step of the collector with no live child, or none whose plan it records.
LEMMA RecordsOnly ==
  ASSUME SaveInv,
         UNCHANGED <<episodes, tasks, parquet, videos, writer, child, deaths>>,
         RecordsTrue', SaverUnrecorded'
  PROVE  SaveInv'
<1>1. RowsProgress'
  BY DEF SaveInv, RowsProgress, IsListed, Rows
<1>2. DataProgress'
  BY DEF SaveInv, DataProgress, ParquetHolds, VideoHolds
<1>3. VocabularyProgress'
  BY DEF SaveInv, VocabularyProgress
<1>4. RowsHeld'
  BY DEF SaveInv, RowsHeld, HoldsData, ResolvesPrompt, Resolved, DiedIn, Rows, Row
<1> QED BY <1>1, <1>2, <1>3, <1>4 DEF SaveInv

\* A death leaves the rows and their data, and but for its own stage their
\* prompts: what it may tear is at the index of no row.
LEMMA DeathSaves ==
  ASSUME TypeInv, SaveInv, Die, child.stage # "episodes", stats' = stats, mem' \in {mem, stats}
  PROVE  SaveInv'
<1> DEFINE n == writer.index
<1>1. /\ child'.stage = "exited" /\ ~ child'.ok
      /\ Live
  BY Shapes DEF Die
<1>2. UNCHANGED <<episodes, writer>>
  BY DEF Die, TornFiles, NothingTorn, TornParquet, TornVideo, TornInfo, TornTasks, datasetVars
<1>3. /\ child.stage = "parquet" \/ UNCHANGED parquet
      /\ child.stage = "video" \/ UNCHANGED videos
      /\ child.stage = "tasks" \/ UNCHANGED tasks
  BY DEF Die, TornFiles, NothingTorn, TornParquet, TornVideo, TornInfo, TornTasks, datasetVars
<1>4. child.stage \in {"parquet", "video"} => n = Len(Rows)
  BY DEF SaveInv, RowsProgress, Unlisted
<1>5. RowsProgress'
  BY <1>1 DEF RowsProgress, IsListed, Listed, Unlisted
<1>6. DataProgress'
  BY <1>1 DEF DataProgress, EarlyStages
<1>7. VocabularyProgress'
  BY <1>1 DEF VocabularyProgress, Unlisted
<1>8. RowsHeld'
  <2> SUFFICES ASSUME NEW i \in 0 .. Len(Rows) - 1
               PROVE  HoldsData(i, Row(i))' /\ Resolved(i)'
    BY <1>2 DEF RowsHeld, Rows
  <2>1. HoldsData(i, Row(i))
    BY DEF SaveInv, RowsHeld
  <2>2. i \in DOMAIN parquet' /\ parquet'[i] = parquet[i]
    <3>1. CASE child.stage = "parquet"
      <4>1. parquet' \in {parquet, Put(parquet, n, Torn)}
        BY <3>1 DEF Die, TornFiles, TornParquet
      <4>2. i \in DOMAIN parquet /\ i # n
        BY <1>4, <2>1, <3>1, Shapes DEF HoldsData
      <4> QED BY <4>1, <4>2 DEF Put
    <3>2. CASE child.stage # "parquet"
      BY <1>3, <2>1, <3>2 DEF HoldsData
    <3> QED BY <3>1, <3>2
  <2>3. \A cam \in Camera : <<i, cam>> \in DOMAIN videos' /\ videos'[<<i, cam>>] = videos[<<i, cam>>]
    <3>1. CASE child.stage = "video"
      <4> DEFINE file == <<n, child.cam>>
      <4>1. videos' \in {videos, Put(videos, file, Torn)}
        BY <3>1 DEF Die, TornFiles, TornVideo
      <4>2. \A cam \in Camera : <<i, cam>> \in DOMAIN videos /\ <<i, cam>> # file
        BY <1>4, <2>1, <3>1, Shapes DEF HoldsData
      <4> HIDE DEF file
      <4> QED BY <4>1, <4>2 DEF Put
    <3>2. CASE child.stage # "video"
      BY <1>3, <2>1, <3>2 DEF HoldsData
    <3> QED BY <3>1, <3>2
  <2>4. HoldsData(i, Row(i))'
    BY <1>2, <2>1, <2>2, <2>3 DEF HoldsData, Row, Rows
  <2>5. Resolved(i)'
    <3>1. CASE child.stage = "tasks" \/ DiedIn("tasks")
      BY <3>1, DeathsAreKept DEF Resolved, SaveStages
    <3>2. CASE ~ (child.stage = "tasks" \/ DiedIn("tasks"))
      <4>1. ResolvesPrompt(i, Row(i))
        BY <3>2 DEF SaveInv, RowsHeld, Resolved
      <4> QED BY <1>2, <1>3, <2>2, <3>2, <4>1 DEF Resolved, ResolvesPrompt, Row, Rows
    <3> QED BY <3>1, <3>2
  <2> QED BY <2>4, <2>5
<1>9. RecordsTrue'
  BY <1>2 DEF SaveInv, RecordsTrue, IsRow, Rows, Row
<1>10. SaverUnrecorded'
  BY <1>1 DEF SaverUnrecorded, Live, EarlyStages, SaveStages
<1> QED BY <1>5, <1>6, <1>7, <1>8, <1>9, <1>10 DEF SaveInv

\* The next attempt starts with no promise to keep but that its plan is open.
LEMMA SpawnSaves ==
  ASSUME TypeInv, AheadInv, SaveInv, Spawn
  PROVE  SaveInv'
<1> PICK p \in Pending :
      /\ coll' = [coll EXCEPT !.pc = "wait", !.plan = p]
      /\ child' = [stage |-> "guard", cam |-> 1, ok |-> FALSE,
                   save |-> [plan |-> p, attempt |-> mem[p].attempts + 1]]
  BY DEF Spawn
<1>1. /\ child'.stage = "guard" /\ child'.cam = 1 /\ child'.save.plan = p
      /\ coll.pc = "loop" /\ coll'.pc = "wait"
      /\ UNCHANGED <<episodes, tasks, parquet, videos, writer, stats, mem, deaths>>
  <2>1. coll \in [pc : Stopped \cup Running, plan : Plan, budget : 1 .. MaxAttempt,
                  defer : BOOLEAN]
    BY DEF TypeInv, TypeOK, CollTypeOK
  <2>2. coll'.pc = "wait"
    BY <2>1
  <2>3. child'.stage = "guard" /\ child'.cam = 1 /\ child'.save.plan = p
    OBVIOUS
  <2> QED BY <2>2, <2>3 DEF Spawn, datasetVars
<1>2. ~ Live
  BY <1>1 DEF SaveInv, SaverUnrecorded, Stopped
<1>3. ~ stats[p].success
  BY DEF Pending, AheadInv, Forward
<1>4. RowsProgress'
  BY <1>1 DEF RowsProgress, IsListed, Listed, Unlisted
<1>5. DataProgress'
  BY <1>1 DEF DataProgress
<1>6. VocabularyProgress'
  BY <1>1 DEF VocabularyProgress, Unlisted
<1>7. RowsHeld'
  <2>1. child.stage # "tasks"
    BY <1>2 DEF Live, SaveStages
  <2> QED BY <1>1, <2>1 DEF SaveInv, RowsHeld, HoldsData, ResolvesPrompt, Resolved, DiedIn, Rows, Row
<1>8. RecordsTrue'
  BY <1>1 DEF SaveInv, RecordsTrue, IsRow, Rows, Row
<1>9. SaverUnrecorded'
  BY <1>1, <1>3 DEF SaverUnrecorded
<1> QED BY <1>4, <1>5, <1>6, <1>7, <1>8, <1>9 DEF SaveInv

\* A success is recorded with the attempt and the index of the last row.
LEMMA ReapSaves ==
  ASSUME TypeInv, AheadInv, SaveInv, Reap
  PROVE  SaveInv'
<1>1. /\ coll.pc = "wait" /\ child.stage = "exited"
      /\ UNCHANGED <<episodes, tasks, parquet, videos, writer, child, stats, deaths>>
  BY DEF Reap, DatasetUnchanged, datasetVars, childVars
<1>2. /\ child.save.plan = coll.plan /\ coll.plan \in Plan
  BY <1>1 DEF AheadInv, NextAttempt, TypeInv, TypeOK, CollTypeOK
<1>3. /\ \A p \in Plan : p # coll.plan => mem'[p] = mem[p]
      /\ mem'[coll.plan].attempts = child.save.attempt
      /\ mem'[coll.plan].success = child.ok
      /\ child.ok => mem'[coll.plan].index = writer.index
  <2>1. mem \in Records
    BY DEF TypeInv, TypeOK, CollTypeOK
  <2> QED BY <1>2, <2>1 DEF Reap, Records
<1>4. child.ok => IsRow(coll.plan, mem'[coll.plan])
  <2> SUFFICES ASSUME child.ok PROVE IsRow(coll.plan, mem'[coll.plan])
    OBVIOUS
  <2>1. writer.index = Len(Rows) - 1 /\ Rows[Len(Rows)] = child.save
    BY <1>1 DEF SaveInv, RowsProgress, IsListed
  <2>2. writer.index \in 0 .. Len(Rows) - 1 /\ Row(writer.index) = child.save
    BY <2>1, Shapes DEF Row
  <2>3. child.save = [plan |-> coll.plan, attempt |-> child.save.attempt]
    BY <1>2, Shapes DEF Save
  <2> QED BY <1>3, <2>2, <2>3 DEF IsRow
<1>5. RecordsTrue'
  <2> SUFFICES ASSUME NEW p \in Plan
               PROVE  /\ stats[p].success => IsRow(p, stats[p])
                      /\ mem'[p].success => IsRow(p, mem'[p])
    BY <1>1 DEF RecordsTrue, IsRow, Rows, Row
  <2>1. /\ stats[p].success => IsRow(p, stats[p])
        /\ mem[p].success => IsRow(p, mem[p])
    BY DEF SaveInv, RecordsTrue
  <2>2. CASE p = coll.plan
    BY <1>3, <1>4, <2>1, <2>2
  <2>3. CASE p # coll.plan
    BY <1>3, <2>1, <2>3
  <2> QED BY <2>2, <2>3
<1>6. SaverUnrecorded'
  BY <1>1 DEF SaverUnrecorded, Live, EarlyStages, SaveStages
<1> QED BY <1>1, <1>5, <1>6, RecordsOnly

\* The steps of a collector that has no live child, and its crash alone.
LEMMA BookkeepingSaves ==
  ASSUME TypeInv, SaveInv,
         \/ Operator \/ AppendManifest \/ WriteStats \/ EndLoop
         \/ FinalizeInfo \/ FinalizeSplits \/ CrashAlone
  PROVE  SaveInv'
<1>1. UNCHANGED <<episodes, tasks, parquet, videos, writer, child, deaths>>
  BY DEF Operator, Start, AppendManifest, WriteStats, EndLoop, FinalizeInfo, FinalizeSplits,
         CrashAlone, DatasetUnchanged, datasetVars, childVars
<1>2. stats' \in {stats, mem} /\ mem' \in {stats, mem}
  BY DEF Operator, Start, AppendManifest, WriteStats, EndLoop, FinalizeInfo, FinalizeSplits,
         CrashAlone, Crash
<1>3. RecordsTrue'
  BY <1>1, <1>2 DEF SaveInv, RecordsTrue, IsRow, Rows, Row
<1>4. SaverUnrecorded'
  <2>1. CASE CrashAlone
    <3>1. coll'.pc = "crashed" /\ UNCHANGED <<stats, child>>
      <4>1. coll \in [pc : Stopped \cup Running, plan : Plan, budget : 1 .. MaxAttempt,
                      defer : BOOLEAN]
        BY DEF TypeInv, TypeOK, CollTypeOK
      <4> QED BY <1>1, <2>1, <4>1 DEF CrashAlone, Crash, GoTo
    <3> QED BY <3>1 DEF SaveInv, SaverUnrecorded, Live, Stopped
  <2>2. CASE ~ CrashAlone
    <3>1. ~ Live
      BY <2>2 DEF SaveInv, SaverUnrecorded, Stopped, Operator, Start, AppendManifest,
                  WriteStats, EndLoop, FinalizeInfo, FinalizeSplits
    <3> QED BY <1>1, <3>1 DEF SaverUnrecorded, Live
  <2> QED BY <2>1, <2>2
<1> QED BY <1>1, <1>3, <1>4, RecordsOnly

\* Every step keeps the invariant, but a death in the rewrite of episodes.jsonl.
LEMMA SaveStep ==
  ASSUME TypeInv, AheadInv, SaveInv, [Next]_vars, Die => child.stage # "episodes"
  PROVE  SaveInv'
<1>1. CASE Operator \/ AppendManifest \/ WriteStats \/ EndLoop \/ FinalizeInfo
           \/ FinalizeSplits \/ CrashAlone
  BY <1>1, BookkeepingSaves
<1>2. CASE Spawn
  BY <1>2, SpawnSaves
<1>3. CASE Reap
  BY <1>3, ReapSaves
<1>4. CASE Timeout \/ CrashTogether \/ OrphanDies
  <2>1. Die /\ stats' = stats /\ mem' \in {mem, stats}
    BY <1>4 DEF Timeout, CrashTogether, OrphanDies, Crash, collectorVars
  <2> QED BY <2>1, DeathSaves
<1>5. CASE ChildStep
  BY <1>5, ChildStepSaves DEF ChildStep
<1>6. CASE UNCHANGED vars
  <2>1. /\ UNCHANGED <<episodes, tasks, parquet, videos, writer, child, deaths>>
        /\ UNCHANGED <<stats, mem, coll>>
    BY <1>6 DEF vars, datasetVars, childVars, collectorVars
  <2>2. RecordsTrue' /\ SaverUnrecorded'
    BY <2>1 DEF SaveInv, RecordsTrue, IsRow, Rows, Row, SaverUnrecorded, Live
  <2> QED BY <2>1, <2>2, RecordsOnly
<1> QED BY <1>1, <1>2, <1>3, <1>4, <1>5, <1>6 DEF Next, CollectorStep, Done

\* Deaths are recorded where they happen, and never forgotten.
LEMMA DeathsOnlyGrow ==
  ASSUME TypeInv, [Next]_vars, NEW stage
  PROVE  DiedIn(stage) => DiedIn(stage)'
<1>1. CASE Timeout \/ CrashTogether \/ OrphanDies
  BY <1>1, DeathsAreKept DEF Timeout, CrashTogether, OrphanDies
<1>2. CASE ~ (Timeout \/ CrashTogether \/ OrphanDies)
  <2>1. UNCHANGED deaths
    BY <1>2 DEF Next, Done, Operator, Start, CollectorStep, Spawn, Reap, AppendManifest,
       WriteStats, EndLoop, FinalizeInfo, FinalizeSplits, CrashAlone, ChildStep, ChildEarly,
       ChildSave, CheckSchema, OpenWriter, RolloutFails, RolloutSucceeds, SaveParquet,
       SaveVideo, SaveInfo, SaveEpisodes, SaveTasks, SaveSchema, SaveMetadataRow, ExitSuccess,
       DatasetUnchanged, vars
  <2> QED BY <2>1 DEF DiedIn
<1> QED BY <1>1, <1>2

\* The row of a recorded success is never the one whose prompt is pending.
LEMMA SaveInvSuffices ==
  ASSUME SaveInv, NEW p \in Plan, stats[p].success
  PROVE  /\ stats[p].index \in 0 .. Len(Rows) - 1
         /\ Row(stats[p].index) = SaveOf(p)
         /\ HoldsData(stats[p].index, SaveOf(p))
         /\ DiedIn("tasks") \/ ResolvesPrompt(stats[p].index, SaveOf(p))
<1> DEFINE i == stats[p].index
<1>1. i \in 0 .. Len(Rows) - 1 /\ Row(i) = SaveOf(p)
  BY DEF SaveInv, RecordsTrue, IsRow, SaveOf
<1>2. HoldsData(i, SaveOf(p))
  BY <1>1 DEF SaveInv, RowsHeld
<1>3. ~ (child.stage = "tasks" /\ i = writer.index)
  <2> SUFFICES ASSUME child.stage = "tasks", i = writer.index PROVE FALSE
    OBVIOUS
  <2>1. Row(i) = child.save
    BY DEF SaveInv, RowsProgress, IsListed, Listed, Row
  <2>2. child.save.plan = p
    BY <1>1, <2>1 DEF SaveOf
  <2> QED BY <2>2 DEF SaveInv, SaverUnrecorded, Live, SaveStages
<1>4. DiedIn("tasks") \/ ResolvesPrompt(i, SaveOf(p))
  BY <1>1, <1>3 DEF SaveInv, RowsHeld, Resolved
<1> QED BY <1>1, <1>2, <1>4

\* The save invariant can be lost in one way.
LossInv == TypeInv /\ AheadInv /\ (DiedIn("episodes") \/ SaveInv)

\* Any death but one in the rewrite of episodes.jsonl keeps it.
LEMMA LossInvariant == Spec => []LossInv
<1>1. Init => LossInv
  BY TypeInit, AheadInit, SaveInit DEF LossInv
<1>2. LossInv /\ [Next]_vars => LossInv'
  <2> SUFFICES ASSUME LossInv, [Next]_vars PROVE LossInv'
    OBVIOUS
  <2>1. TypeInv' /\ AheadInv'
    <3>1. CASE UNCHANGED vars
      BY <3>1 DEF TypeInv, TypeOK, vars, datasetVars, childVars, collectorVars, DatasetTypeOK,
                  ChildTypeOK, CollTypeOK, PromptKnown, AheadInv, NextAttempt, Forward, LossInv
    <3> QED BY <3>1, CollectorStepType, AheadStep DEF LossInv
  <2>2. CASE DiedIn("episodes")'
    BY <2>1, <2>2 DEF LossInv
  <2>3. CASE ~ DiedIn("episodes")'
    <3>1. ~ DiedIn("episodes")
      BY <2>3, DeathsOnlyGrow DEF LossInv
    <3>2. Die => child.stage # "episodes"
      BY <2>3, DeathsAreKept DEF LossInv, SaveStages
    <3> QED BY <2>1, <3>1, <3>2, SaveStep DEF LossInv
  <2> QED BY <2>2, <2>3
<1> QED BY <1>1, <1>2, PTL DEF Spec

(***************************************************************************)
(* Whatever dies, and however often: the files of a success the statistics *)
(* record are damaged only if a task process has died in the rewrite of    *)
(* episodes.jsonl, or its prompt only if one has died in the rewrite of    *)
(* tasks.jsonl.  No timeout, crash, restart or death at another stage of   *)
(* a save reaches recorded work.                                           *)
(***************************************************************************)
THEOREM LossesAreCaused == Spec => []LossHasACause
<1>1. LossInv => LossHasACause
  BY SaveInvSuffices DEF LossInv, LossHasACause, Succeeded
<1> QED BY <1>1, LossInvariant, PTL

\* The bound on deaths inside a save is a bound.
NoDeaths == deaths = << >>

\* Without an allowance no save is interrupted.
LEMMA NoSaveIsInterrupted ==
  ASSUME TypeInv, NoDeaths, [Next]_vars, MaxSaveDeaths = 0
  PROVE  NoDeaths'
<1>1. Die => UNCHANGED deaths
  BY EmptySeq DEF Die, NoDeaths
<1>2. CASE Timeout \/ CrashTogether \/ OrphanDies
  BY <1>1, <1>2 DEF Timeout, CrashTogether, OrphanDies, NoDeaths
<1>3. CASE ~ (Timeout \/ CrashTogether \/ OrphanDies)
  BY <1>3 DEF NoDeaths, Next, Done, Operator, Start, CollectorStep, Spawn, Reap,
     AppendManifest, WriteStats, EndLoop, FinalizeInfo, FinalizeSplits, CrashAlone, ChildStep,
     ChildEarly, ChildSave, CheckSchema, OpenWriter, RolloutFails, RolloutSucceeds,
     SaveParquet, SaveVideo, SaveInfo, SaveEpisodes, SaveTasks, SaveSchema, SaveMetadataRow,
     ExitSuccess, DatasetUnchanged, vars
<1> QED BY <1>2, <1>3

(***************************************************************************)
(* As long as no task process dies inside a save, every success the        *)
(* statistics file records is in the dataset at its index, with the data   *)
(* of the attempt that succeeded in every file and under its own prompt:   *)
(* for any plan and any number of cameras, timeouts, crashes and restarts. *)
(***************************************************************************)
THEOREM RecordedSuccessSafe ==
  ASSUME MaxSaveDeaths = 0
  PROVE  Spec => []RecordedSuccessIsOnDisk
<1>1. Init => NoDeaths
  BY DEF Init, ChildInit, NoDeaths
<1>2. LossInv /\ NoDeaths /\ [Next]_vars => NoDeaths'
  BY NoSaveIsInterrupted DEF LossInv
<1>3. LossInv /\ NoDeaths => RecordedSuccessIsOnDisk
  <2> SUFFICES ASSUME LossInv, NoDeaths PROVE RecordedSuccessIsOnDisk
    OBVIOUS
  <2>1. SaveInv /\ ~ DiedIn("tasks")
    BY EmptySeq DEF LossInv, NoDeaths, DiedIn
  <2> QED BY <2>1, SaveInvSuffices DEF RecordedSuccessIsOnDisk, Succeeded
<1> QED BY <1>1, <1>2, <1>3, LossInvariant, PTL DEF Spec
=============================================================================
