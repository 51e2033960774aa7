---------------------------- MODULE DatasetProofs ----------------------------
(***************************************************************************)
(* What the tools around a dataset may rely on.  The collectors of a plan  *)
(* with one death inside a save: why the validators are right about what   *)
(* they accept, the ranges of a repair about what they range, and the      *)
(* reindexer about what it rebuilds.  And four programs with no collector: *)
(* the batch collector, the patch of the timestamps before a training, the *)
(* layout of a scene and the trials of an experiment.                      *)
(***************************************************************************)
EXTENDS MCDatasetTools, LedgerProofs

-----------------------------------------------------------------------------
(* A collection with one death inside a save. *)

\* The episode that is listed and has no metadata row yet.
Owed == IF child.stage \in {"tasks", "schema", "row"} THEN 1 ELSE 0

\* Rows that have lost their metadata rows, or metadata rows without a row.
Gap == Len(Rows) - Len(metadata) - Owed

InStep ==
  /\ Gap = 0
  /\ \A k \in DOMAIN metadata : metadata[k] = [save |-> Rows[k], index |-> k - 1]

\* The writer has loaded the rows, and a save that began is waited for or orphaned.
WriterFollows ==
  /\ child.stage \in {"rollout", "parquet", "video"} => Len(writer.rows) = Len(Rows)
  /\ child.stage \in {"info", "episodes"} => Len(writer.rows) = Len(Rows) + 1
  /\ Live => coll.pc \in Stopped \cup {"wait"}

\* info.json counts the rows, or was written by the save that died next.
InfoCounts ==
  KeepsMetadata /\ info.st = "whole" =>
    \/ child.stage = "episodes" /\ info.total = Len(Rows) + 1
    \/ child.stage # "episodes" /\ info.total = Len(Rows)
    \/ /\ deaths # << >> /\ child.stage \notin {"episodes"} \cup Listed
       /\ info.total # Len(metadata)

\* The death, if there was one, left nothing amiss.
Straight == SaveInv /\ InStep /\ ~ DiedIn("tasks")

\* Or it left a gap that no later save closes.
Skewed == deaths # << >> /\ Gap # 0

OneDeathInv ==
  /\ TypeInv /\ AheadInv
  /\ WriterFollows /\ InfoCounts
  /\ Len(deaths) <= 1
  /\ KeepsMetadata => Straight \/ Skewed

\* What a collector that finalizes has found out.
Finishing == coll.pc \in {"finalize", "splits", "complete"} \/ splits # NoSplits
FinishInv ==
  /\ coll.pc \notin {"manifest", "stats"} => mem = stats
  /\ Finishing => Succeeded(stats) = Plan
  /\ kind = "randomized" /\ (coll.pc = "splits" \/ splits # NoSplits) =>
       Skewed \/ Contiguous(RowSplits(metadata))

\* Lengths, and what a row more does to them.
LEMMA Lengths ==
  ASSUME TypeInv
  PROVE  /\ Len(Rows) \in Nat /\ Len(metadata) \in Nat /\ Len(deaths) \in Nat
         /\ Len(writer.rows) \in Nat /\ child.save \in Save
         /\ Len(Append(Rows, child.save)) = Len(Rows) + 1
         /\ Len(Append(writer.rows, child.save)) = Len(writer.rows) + 1
         /\ \A x : Len(Append(metadata, x)) = Len(metadata) + 1
         /\ \A x : Len(Append(deaths, x)) = Len(deaths) + 1
<1>1. /\ Rows \in Seq(Save) /\ writer.rows \in Seq(Save) /\ child.save \in Save
  BY Shapes
<1>2. metadata \in Seq([save : Save, index : Nat]) /\ deaths \in Seq(SaveStages)
  BY DEF TypeInv, TypeOK, ChildTypeOK
<1>3. \A x : Len(Append(metadata, x)) = Len(metadata) + 1
  BY <1>2
<1>4. \A x : Len(Append(deaths, x)) = Len(deaths) + 1
  BY <1>2
<1> QED BY <1>1, <1>2, <1>3, <1>4, LenProperties, AppendProperties

\* Rows and metadata that do not change are as far apart as they were.
LEMMA SameGap ==
  ASSUME UNCHANGED <<episodes, metadata, deaths>>, Owed' = Owed
  PROVE  /\ Gap' = Gap /\ (InStep' <=> InStep)
         /\ (DiedIn("tasks")' <=> DiedIn("tasks")) /\ Rows' = Rows
         /\ (Skewed' <=> Skewed)
BY DEF Gap, InStep, DiedIn, Rows, Skewed

\* What the steps of a task process move, but for the rows and the metadata.
LEMMA ChildMoves ==
  ASSUME TypeInv, ChildEarly \/ ChildSave, UNCHANGED kind
  PROVE  /\ deaths' = deaths /\ Live
         /\ \/ /\ child.stage \in EarlyStages \cup {"parquet", "video"}
               /\ child'.stage \in EarlyStages \cup {"parquet", "video", "info", "exited"}
               /\ UNCHANGED <<episodes, metadata, info>>
               /\ child'.stage \in {"rollout", "parquet", "video"} =>
                    \/ child.stage = "load" /\ writer'.rows = Rows
                    \/ child.stage \in {"rollout", "parquet", "video"}
                       /\ writer'.rows = writer.rows
               /\ child'.stage = "info" =>
                    child.stage = "video" /\ writer'.rows = Append(writer.rows, child.save)
            \/ /\ child.stage = "info" /\ child'.stage = "episodes"
               /\ info'.st = "whole" /\ info'.total = Len(writer.rows)
               /\ UNCHANGED <<episodes, metadata, writer>>
            \/ /\ child.stage = "episodes" /\ child'.stage = "tasks"
               /\ episodes'.rows = writer.rows
               /\ UNCHANGED <<info, metadata>>
            \/ /\ child.stage = "tasks"
               /\ child'.stage = IF KeepsMetadata THEN "schema" ELSE "exit"
               /\ UNCHANGED <<info, episodes, metadata>>
            \/ /\ child.stage = "schema" /\ child'.stage = "row"
               /\ UNCHANGED <<info, episodes, metadata>>
            \/ /\ child.stage = "row" /\ child'.stage = "exit"
               /\ metadata' = Append(metadata, [save |-> child.save, index |-> writer.index])
               /\ UNCHANGED <<info, episodes>>
            \/ /\ child.stage = "exit" /\ child'.stage = "exited"
               /\ UNCHANGED <<info, episodes, metadata>>
<1> USE Shapes DEF Live, EarlyStages, SaveStages
<1>1. CASE ChildEarly
  <2>1. CASE CheckSchema \/ RolloutFails \/ RolloutSucceeds
    BY <2>1 DEF CheckSchema, RolloutFails, RolloutSucceeds, AtStage, ExitAt, datasetVars
  <2>2. CASE OpenWriter
    <3>1. CASE AtStage("load", "rollout") /\ LoadExistingState(child.save.plan)
      <4>1. /\ child.stage = "load" /\ child'.stage = "rollout" /\ writer'.rows = Rows
            /\ UNCHANGED <<info, episodes>>
        BY <3>1 DEF AtStage, LoadExistingState, datasetVars, Rows
      <4> QED BY <2>2, <4>1 DEF OpenWriter
    <3>2. CASE ExitAt({"load"}, FALSE) /\ UNCHANGED <<datasetVars, writer>>
      <4>1. /\ child.stage = "load" /\ child'.stage = "exited"
            /\ UNCHANGED <<info, episodes>>
        BY <3>2 DEF ExitAt, datasetVars
      <4> QED BY <2>2, <4>1 DEF OpenWriter
    <3> QED BY <2>2, <3>1, <3>2 DEF OpenWriter
  <2> QED BY <1>1, <2>1, <2>2 DEF ChildEarly
<1>2. CASE SaveParquet \/ SaveVideo
  <2>1. CASE SaveParquet
    BY <2>1 DEF SaveParquet, WriteParquet, AtStage
  <2>2. CASE SaveVideo
    <3>1. /\ child.stage = "video" /\ UNCHANGED <<info, episodes, metadata, deaths>>
      BY <2>2 DEF SaveVideo, WriteVideo
    <3>2. NumCameras \in Nat /\ child.cam \in 1 .. NumCameras
      BY WriterAssumption DEF Camera
    <3>3. CASE child.cam < NumCameras
      BY <2>2, <3>1, <3>2, <3>3 DEF SaveVideo, WriteVideo
    <3>4. CASE child.cam = NumCameras
      BY <2>2, <3>1, <3>2, <3>4 DEF SaveVideo, WriteVideo
    <3> QED BY <3>2, <3>3, <3>4
  <2> QED BY <1>2, <2>1, <2>2
<1>3. CASE SaveInfo \/ SaveEpisodes
  BY <1>3 DEF SaveInfo, SaveEpisodes, WriteInfo, WriteEpisodes, AtStage
<1>4. CASE SaveTasks \/ SaveSchema \/ SaveMetadataRow \/ ExitSuccess
  BY <1>4 DEF SaveTasks, SaveSchema, SaveMetadataRow, ExitSuccess, WriteTasks, AtStage, ExitAt,
              datasetVars
<1> QED BY <1>1, <1>2, <1>3, <1>4 DEF ChildSave

\* A step of the task process widens no gap.
LEMMA ChildSteps ==
  ASSUME OneDeathInv, ChildStep
  PROVE  /\ WriterFollows' /\ InfoCounts' /\ UNCHANGED deaths
         /\ KeepsMetadata' => (Straight /\ SaveInv' => Straight') /\ (Skewed => Skewed')
<1> USE DEF OneDeathInv, Rows
<1>1. /\ ChildEarly \/ ChildSave
      /\ UNCHANGED <<kind, coll>> /\ KeepsMetadata' = KeepsMetadata
  BY DEF ChildStep, collectorVars, KeepsMetadata
<1>2. /\ Len(Rows) \in Nat /\ Len(metadata) \in Nat /\ Len(writer.rows) \in Nat
      /\ Len(Append(Rows, child.save)) = Len(Rows) + 1
      /\ Len(Append(writer.rows, child.save)) = Len(writer.rows) + 1
      /\ \A x : Len(Append(metadata, x)) = Len(metadata) + 1
  BY Lengths
<1>3. coll.pc \in Stopped \cup {"wait"}
  BY <1>1, ChildMoves DEF WriterFollows
<1>4. CASE UNCHANGED <<episodes, metadata>>
  <2>1. /\ deaths' = deaths /\ Rows' = Rows
    BY <1>1, <1>4, ChildMoves
  <2>a. child.stage # "episodes" /\ child.stage # "row"
    <3>1. child.stage # "row"
      BY <1>1, <1>2, <1>4, ChildMoves DEF EarlyStages
    <3>2. child.stage # "episodes"
      BY <1>1, <1>2, <1>4, ChildMoves DEF EarlyStages, WriterFollows
    <3> QED BY <3>1, <3>2
  <2>2. KeepsMetadata => Owed' = Owed
    BY <1>1, <2>a, ChildMoves DEF Owed, EarlyStages
  <2>3. WriterFollows'
    BY <1>1, <1>2, <1>3, <1>4, ChildMoves DEF WriterFollows, EarlyStages
  <2>4. InfoCounts'
    BY <1>1, <1>2, <1>4, ChildMoves DEF InfoCounts, WriterFollows, EarlyStages, Listed
  <2>5. KeepsMetadata => (InStep' <=> InStep) /\ (DiedIn("tasks")' <=> DiedIn("tasks"))
                         /\ (Skewed' <=> Skewed)
    BY <1>4, <2>1, <2>2, SameGap
  <2> QED BY <1>1, <2>1, <2>3, <2>4, <2>5 DEF Straight
<1>5. CASE child.stage = "episodes"
  <2>1. /\ child'.stage = "tasks" /\ episodes'.rows = writer.rows
        /\ UNCHANGED <<info, metadata, deaths>>
    BY <1>1, <1>5, ChildMoves DEF EarlyStages
  <2>2. Len(Rows') = Len(Rows) + 1
    BY <1>5, <2>1 DEF WriterFollows
  <2>3. WriterFollows'
    BY <1>1, <1>3, <2>1 DEF WriterFollows
  <2>4. InfoCounts'
    BY <1>1, <1>5, <2>1, <2>2 DEF InfoCounts
  <2>5. Gap' = Gap
    BY <1>2, <1>5, <2>1, <2>2 DEF Gap, Owed
  <2>6. Straight => InStep' /\ ~ DiedIn("tasks")'
    <3> SUFFICES ASSUME Straight PROVE InStep' /\ ~ DiedIn("tasks")'
      OBVIOUS
    <3>1. writer.rows = Append(Rows, child.save)
      BY <1>5 DEF Straight, SaveInv, RowsProgress
    <3>2. \A k \in DOMAIN metadata : k \in 1 .. Len(Rows)
      BY <1>2, <1>5, LenProperties, BookShapes DEF Straight, InStep, Gap, Owed
    <3>3. \A k \in 1 .. Len(Rows) : Rows'[k] = Rows[k]
      BY <2>1, <3>1, Shapes, AppendProperties
    <3> QED BY <2>1, <2>5, <3>2, <3>3 DEF Straight, InStep, DiedIn
  <2> QED BY <2>1, <2>3, <2>4, <2>5, <2>6 DEF Straight, Skewed
<1>6. CASE child.stage = "row"
  <2> DEFINE row == [save |-> child.save, index |-> writer.index]
  <2>1. /\ child'.stage = "exit" /\ metadata' = Append(metadata, row)
        /\ UNCHANGED <<info, episodes, deaths>>
    BY <1>1, <1>6, ChildMoves DEF EarlyStages
  <2>2. Len(metadata') = Len(metadata) + 1
    BY <1>2, <2>1
  <2>3. WriterFollows'
    BY <1>1, <1>3, <2>1 DEF WriterFollows
  <2>4. InfoCounts'
    BY <1>1, <1>6, <2>1, <2>2 DEF InfoCounts, Listed
  <2>5. Gap' = Gap
    <3>1. Owed = 1 /\ Owed' = 0
      BY <1>6, <2>1 DEF Owed
    <3>2. Len(Rows') = Len(Rows)
      BY <2>1
    <3>3. /\ Gap = Len(Rows) - Len(metadata) - 1
          /\ Gap' = Len(Rows) - (Len(metadata) + 1) - 0
      BY <2>2, <3>1, <3>2 DEF Gap
    <3> QED BY <1>2, <3>3
  <2>6. Straight => InStep' /\ ~ DiedIn("tasks")'
    <3> SUFFICES ASSUME Straight PROVE InStep' /\ ~ DiedIn("tasks")'
      OBVIOUS
    <3>1. writer.index = Len(Rows) - 1 /\ Rows[Len(Rows)] = child.save
      BY <1>6 DEF Straight, SaveInv, RowsProgress, IsListed, Listed
    <3>2. Len(metadata) = Len(Rows) - 1
      BY <1>2, <1>6 DEF Straight, InStep, Gap, Owed
    <3>3. /\ row \in [save : Save, index : Nat]
          /\ metadata \in Seq([save : Save, index : Nat])
      BY Shapes, BookShapes
    <3>4. /\ DOMAIN metadata = 1 .. Len(metadata) /\ DOMAIN metadata' = 1 .. Len(metadata) + 1
          /\ \A k \in 1 .. Len(metadata) : metadata'[k] = metadata[k]
          /\ metadata'[Len(metadata) + 1] = row
      BY <2>1, <3>3, AppendProperties, LenProperties
    <3>5. \A k \in DOMAIN metadata' : metadata'[k] = [save |-> Rows[k], index |-> k - 1]
      BY SMTT(60), <1>2, <3>1, <3>2, <3>4 DEF Straight, InStep
    <3> QED BY <2>1, <2>5, <3>5 DEF Straight, InStep, DiedIn
  <2> QED BY <2>1, <2>3, <2>4, <2>5, <2>6 DEF Straight, Skewed
<1> QED BY <1>1, <1>4, <1>5, <1>6, ChildMoves

\* The one death: before a save, in one that leaves the rows and their metadata as
\* they are, or in one that opens a gap.
LEMMA OneDeathStep ==
  ASSUME MaxSaveDeaths <= 1, OneDeathInv, Die, UNCHANGED <<kind, stats>>, mem' \in {mem, stats},
         coll.pc \in Stopped \cup {"wait"} => coll'.pc \in Stopped \cup {"wait"}
  PROVE  /\ WriterFollows' /\ InfoCounts' /\ Len(deaths') <= 1
         /\ KeepsMetadata' => (Straight => Straight' \/ Skewed') /\ (Skewed => Skewed')
<1> USE DEF OneDeathInv, Rows
<1>1. /\ child'.stage = "exited" /\ ~ child'.ok /\ KeepsMetadata' = KeepsMetadata
      /\ UNCHANGED metadata /\ Live
  BY Shapes DEF Die, KeepsMetadata
<1>2. /\ Len(Rows) \in Nat /\ Len(metadata) \in Nat /\ Len(deaths) \in Nat
      /\ Len(writer.rows) \in Nat /\ child.save \in Save
      /\ Len(Append(deaths, child.stage)) = Len(deaths) + 1
  BY Lengths
<1>3. WriterFollows'
  BY <1>1 DEF WriterFollows, Live, EarlyStages, SaveStages
<1>4. CASE child.stage \in EarlyStages
  <2>1. /\ UNCHANGED <<episodes, info, deaths, metadata>> /\ Owed' = Owed /\ Rows' = Rows
    BY <1>1, <1>4 DEF Die, TornFiles, NothingTorn, datasetVars, EarlyStages, SaveStages, Owed
  <2>2. Straight => SaveInv'
    BY <1>4, DeathSaves DEF Straight, EarlyStages
  <2>3. InfoCounts'
    BY <1>1, <1>4, <2>1 DEF InfoCounts, EarlyStages, Listed
  <2> QED BY <1>3, <2>1, <2>2, <2>3, SameGap DEF Straight
<1>5. CASE child.stage \in SaveStages
  <2>1. Len(deaths) = 0 /\ Len(deaths') = 1 /\ deaths' = Append(deaths, child.stage)
    BY <1>2, <1>5, DeathAssumption DEF Die
  <2>2. deaths = << >> /\ deaths' # << >>
    <3>1. deaths \in Seq(SaveStages)
      BY DEF TypeInv, TypeOK, ChildTypeOK
    <3> QED BY <2>1, <3>1, EmptySeq
  <2>3. KeepsMetadata => Straight
    BY <2>2 DEF Skewed
  <2>4. KeepsMetadata => ~ DiedIn("tasks")' \/ child.stage = "tasks"
    <3>1. deaths'[1] = child.stage /\ DOMAIN deaths' = {1}
      <4>1. deaths \in Seq(SaveStages)
        BY DEF TypeInv, TypeOK, ChildTypeOK
      <4> QED BY <1>5, <2>1, <4>1, AppendProperties, LenProperties
    <3> QED BY <3>1 DEF DiedIn
  <2>5. CASE child.stage \in {"parquet", "video", "info", "exit"}
    <3>1. /\ UNCHANGED <<episodes, metadata>> /\ Owed' = Owed /\ Rows' = Rows
          /\ info' \in {info, Torn}
      BY <1>1, <2>5 DEF Die, TornFiles, NothingTorn, TornParquet, TornVideo, TornInfo,
                        datasetVars, Owed
    <3>2. Straight => SaveInv'
      BY <2>5, DeathSaves DEF Straight
    <3>3. InfoCounts'
      BY <1>1, <2>2, <2>5, <3>1 DEF InfoCounts, Torn
    <3>4. Straight => InStep'
      BY <3>1 DEF Straight, InStep, Gap
    <3> QED BY <1>3, <2>1, <2>2, <2>3, <2>4, <2>5, <3>2, <3>3, <3>4, <1>1 DEF Straight, Skewed
  <2>6. CASE child.stage \in {"tasks", "schema", "row"}
    <3>1. /\ UNCHANGED <<episodes, metadata, info>> /\ Owed' = 0 /\ Owed = 1 /\ Rows' = Rows
      BY <1>1, <2>6 DEF Die, TornFiles, NothingTorn, TornTasks, datasetVars, Owed
    <3>2. KeepsMetadata => Skewed'
      BY <1>2, <2>2, <2>3, <3>1 DEF Straight, InStep, Gap, Skewed
    <3>3. InfoCounts'
      BY <1>1, <2>2, <2>6, <3>1 DEF InfoCounts, Listed
    <3> QED BY <1>1, <1>3, <2>1, <2>3, <3>2, <3>3
  <2>7. CASE child.stage = "episodes"
    <3>1. /\ UNCHANGED <<metadata, info, tasks, parquet, videos, writer>>
          /\ Owed' = 0 /\ Owed = 0
          /\ TornEpisodes
      BY <1>1, <2>7 DEF Die, TornFiles, TornEpisodes, Owed
    <3>2. KeepsMetadata => InfoCounts'
      <4> SUFFICES ASSUME KeepsMetadata, info.st = "whole" PROVE info.total # Len(metadata)
        BY <1>1, <2>2, <3>1 DEF InfoCounts, Listed
      <4>1. info.total = Len(Rows) + 1
        BY <2>2, <2>7 DEF InfoCounts
      <4> QED BY <1>2, <2>3, <3>1, <4>1 DEF Straight, InStep, Gap
    <3>3. KeepsMetadata => Straight' \/ Skewed'
      <4> SUFFICES ASSUME KeepsMetadata PROVE Straight' \/ Skewed'
        OBVIOUS
      <4>1. /\ writer.rows = Append(Rows, child.save)
            /\ Len(metadata) = Len(Rows)
        BY <1>2, <2>3, <2>7, <3>1 DEF Straight, SaveInv, RowsProgress, InStep, Gap
      <4>2. Rows' = Rows \/ (Len(Rows') \in Nat /\ Len(Rows') < Len(Rows))
        <5>1. CASE episodes' = episodes
          BY <5>1
        <5>2. CASE episodes' # episodes
          <6>1. PICK k \in 0 .. Len(writer.rows) - 1 : Rows' = SubSeq(writer.rows, 1, k)
            BY <3>1, <5>2 DEF TornEpisodes
          <6>2. /\ Rows \in Seq(Save) /\ writer.rows \in Seq(Save)
                /\ Len(writer.rows) = Len(Rows) + 1
                /\ \A i \in 1 .. Len(Rows) : writer.rows[i] = Rows[i]
            BY <1>2, <4>1, Shapes, AppendProperties
          <6>3. /\ k \in 0 .. Len(Rows) /\ k \in Nat
            BY <1>2, <6>1, <6>2
          <6>4. /\ Rows' \in Seq(Save) /\ Len(Rows') = k
                /\ \A i \in 1 .. k : Rows'[i] = writer.rows[i]
            <7>1. \A i \in 1 .. k : writer.rows[i] \in Save
              BY <1>2, <6>2, <6>3, ElementOfSeq
            <7> QED BY <1>2, <6>1, <6>2, <6>3, <7>1, SubSeqProperties
          <6>5. CASE k = Len(Rows)
            BY <1>2, <6>2, <6>4, <6>5, SeqEqual
          <6> QED BY <1>2, <6>3, <6>4, <6>5
        <5> QED BY <5>1, <5>2
      <4>3. CASE Rows' = Rows
        <5>1. InStep'
          BY <2>3, <3>1, <4>3 DEF Straight, InStep, Gap
        <5>2. /\ RowsProgress' /\ DataProgress' /\ VocabularyProgress' /\ SaverUnrecorded'
          BY <1>1 DEF RowsProgress, IsListed, Listed, Unlisted, DataProgress, EarlyStages,
                      VocabularyProgress, SaverUnrecorded, Live, SaveStages
        <5>3. RowsHeld'
          BY <2>3, <2>4, <2>7, <3>1, <4>3
             DEF Straight, SaveInv, RowsHeld, HoldsData, Resolved, ResolvesPrompt, Row
        <5>4. RecordsTrue'
          BY <2>3, <4>3 DEF Straight, SaveInv, RecordsTrue, IsRow, Row
        <5> QED BY <2>4, <2>7, <5>1, <5>2, <5>3, <5>4 DEF Straight, SaveInv
      <4>4. CASE Len(Rows') \in Nat /\ Len(Rows') < Len(Rows)
        BY <1>2, <2>2, <3>1, <4>1, <4>4 DEF Skewed, Gap
      <4> QED BY <4>2, <4>3, <4>4
    <3> QED BY <1>1, <1>3, <2>1, <2>2, <3>2, <3>3 DEF InfoCounts, Skewed
  <2> QED BY <1>5, <2>5, <2>6, <2>7 DEF SaveStages
<1> QED BY <1>1, <1>4, <1>5 DEF Live

\* What the collector does between two attempts.
CollectorMove ==
  \/ Operator \/ Spawn \/ Reap \/ AppendManifest \/ WriteStats \/ EndLoop
  \/ FinalizeInfo \/ FinalizeSplits \/ CrashAlone

\* It writes no row and no metadata, and interrupts no save.
LEMMA CollectorMoves ==
  ASSUME OneDeathInv, CollectorMove \/ UNCHANGED vars
  PROVE  /\ UNCHANGED <<episodes, metadata, deaths, kind>>
         /\ WriterFollows' /\ InfoCounts'
         /\ Straight /\ SaveInv' => Straight'
         /\ Skewed <=> Skewed'
<1> USE DEF OneDeathInv
<1>1. /\ UNCHANGED <<episodes, metadata, deaths, writer, kind>>
      /\ info' = info \/ (info'.st = info.st /\ info'.total = info.total)
      /\ info'.st = info.st
  <2>1. CASE FinalizeInfo
    <3>1. /\ UNCHANGED <<episodes, metadata, deaths, writer, kind>>
          /\ \/ info' = info
             \/ info.st = "whole" /\ info' = [info EXCEPT !.ranges = FinalRanges]
      BY <2>1 DEF FinalizeInfo, childVars
    <3>2. info.st = "whole" => info = [st |-> "whole", total |-> info.total, ranges |-> info.ranges]
      BY DEF TypeInv, TypeOK, DatasetTypeOK
    <3> QED BY <3>1, <3>2
  <2>2. CASE Spawn
    BY <2>2 DEF Spawn, datasetVars
  <2>3. CASE \/ Operator \/ Reap \/ AppendManifest \/ WriteStats \/ EndLoop
             \/ FinalizeSplits \/ CrashAlone \/ UNCHANGED vars
    <3>1. UNCHANGED <<datasetVars, childVars, deaths, kind>>
      BY <2>3 DEF Operator, Start, Reap, AppendManifest, WriteStats, EndLoop, FinalizeSplits,
                  CrashAlone, Crash, DatasetUnchanged, vars
    <3> QED BY <3>1 DEF datasetVars, childVars
  <2> QED BY <2>1, <2>2, <2>3 DEF CollectorMove
<1>2. \/ child' = child
      \/ coll.pc = "loop" /\ coll'.pc = "wait" /\ child'.stage = "guard"
  <2>1. CASE Spawn
    BY <2>1, BookShapes DEF Spawn
  <2>2. CASE ~ Spawn
    BY <2>2 DEF CollectorMove, Operator, Start, Reap, AppendManifest, WriteStats, EndLoop,
                FinalizeInfo, FinalizeSplits, CrashAlone, DatasetUnchanged, childVars, vars
  <2> QED BY <2>1, <2>2
<1>3. /\ UNCHANGED Rows /\ UNCHANGED KeepsMetadata
  BY <1>1 DEF Rows, KeepsMetadata
<1>4. Live /\ child' = child => coll'.pc \in Stopped \cup {"wait"}
  <2> SUFFICES ASSUME Live, child' = child PROVE coll'.pc \in Stopped \cup {"wait"}
    OBVIOUS
  <2>1. coll.pc \in Stopped \cup {"wait"}
    BY DEF WriterFollows
  <2>2. CASE UNCHANGED vars
    BY <2>1, <2>2 DEF vars, collectorVars
  <2>3. CASE CrashAlone
    BY <2>3, BookShapes DEF CrashAlone, Crash, GoTo, Stopped
  <2>4. CASE Operator \/ Spawn \/ Reap \/ AppendManifest \/ WriteStats \/ EndLoop
             \/ FinalizeInfo \/ FinalizeSplits
    BY <2>1, <2>4 DEF Operator, Start, Spawn, Reap, AppendManifest, WriteStats, EndLoop,
                      FinalizeInfo, FinalizeSplits, Live, EarlyStages, SaveStages, Stopped
  <2> QED BY <2>2, <2>3, <2>4 DEF CollectorMove
<1>5. coll.pc = "loop" => ~ Live
  BY DEF WriterFollows, Stopped
<1>6. Owed' = Owed
  BY <1>2, <1>5 DEF Owed, Live, SaveStages
<1>7. WriterFollows'
  <2>1. CASE child' = child
    BY <1>1, <1>3, <1>4, <2>1 DEF WriterFollows, Live
  <2>2. CASE coll'.pc = "wait" /\ child'.stage = "guard"
    BY <2>2 DEF WriterFollows
  <2> QED BY <1>2, <2>1, <2>2
<1>8. InfoCounts'
  <2>1. child'.stage = child.stage \/ (~ Live /\ child'.stage = "guard")
    BY <1>2, <1>5
  <2>2. ~ Live => child.stage \notin {"episodes"} \cup Listed
    BY DEF Live, SaveStages, Listed
  <2>3. \/ child'.stage = child.stage
        \/ child.stage \notin {"episodes"} \cup Listed /\ child'.stage \notin {"episodes"} \cup Listed
    BY <2>1, <2>2 DEF Listed
  <2>4. info'.st = info.st /\ info'.total = info.total
    BY <1>1
  <2> QED BY <1>1, <1>3, <2>3, <2>4 DEF InfoCounts
<1> QED BY <1>1, <1>6, <1>7, <1>8, SameGap DEF Straight

\* Before the first start.
LEMMA OneDeathInit == Init => OneDeathInv
<1> SUFFICES ASSUME Init PROVE OneDeathInv
  OBVIOUS
<1>1. TypeInv /\ AheadInv /\ SaveInv
  BY TypeInit, AheadInit, SaveInit
<1>2. /\ Rows = << >> /\ metadata = << >> /\ deaths = << >> /\ info.st = "absent"
      /\ child.stage = "none"
  BY DEF Init, ChildInit, DatasetInit, NoChild, NoRows, Rows, Absent
<1>3. Len(deaths) = 0 /\ Len(Rows) = 0 /\ Len(metadata) = 0 /\ DOMAIN deaths = {}
      /\ DOMAIN metadata = {}
  BY <1>2, EmptySeq
<1>4. Straight
  <2>1. Owed = 0
    BY <1>2 DEF Owed
  <2>2. Gap = 0
    BY <1>3, <2>1 DEF Gap
  <2> QED BY <1>1, <1>3, <2>2 DEF Straight, InStep, DiedIn
<1>5. WriterFollows /\ InfoCounts
  BY <1>2 DEF WriterFollows, InfoCounts, Live, EarlyStages, SaveStages
<1> QED BY <1>1, <1>3, <1>4, <1>5 DEF OneDeathInv

\* The parts of the invariant that hold however often task processes die.
LEMMA ShapesStep ==
  ASSUME TypeInv, AheadInv, [Next]_vars
  PROVE  TypeInv' /\ AheadInv' /\ Forward(stats, stats')
<1>1. CASE UNCHANGED vars
  <2>1. stats \in Records
    BY BookShapes
  <2> QED BY <1>1, <2>1, ForwardReflexive
       DEF TypeInv, TypeOK, vars, datasetVars, childVars, collectorVars, DatasetTypeOK,
           ChildTypeOK, CollTypeOK, PromptKnown, AheadInv, NextAttempt, Forward
<1> QED BY <1>1, CollectorStepType, AheadStep

\* A step keeps the books straight, or is the death that skews them for good.
LEMMA OneDeathSteps ==
  ASSUME MaxSaveDeaths <= 1, OneDeathInv, [Next]_vars
  PROVE  /\ OneDeathInv'
         /\ KeepsMetadata /\ Skewed => Skewed'
         /\ UNCHANGED kind
<1> USE DEF OneDeathInv
<1>1. TypeInv' /\ AheadInv'
  BY ShapesStep
<1>2. CASE Timeout \/ CrashTogether \/ OrphanDies
  <2>1. /\ Die /\ UNCHANGED <<kind, stats>> /\ mem' \in {mem, stats}
        /\ coll.pc \in Stopped \cup {"wait"} => coll'.pc \in Stopped \cup {"wait"}
    BY <1>2, BookShapes DEF Timeout, CrashTogether, OrphanDies, Crash, GoTo, collectorVars, Stopped
  <2>2. KeepsMetadata' = KeepsMetadata
    BY <2>1 DEF KeepsMetadata
  <2> QED BY <1>1, <2>1, <2>2, OneDeathStep
<1>3. CASE ChildStep
  <2>1. Straight => SaveInv'
    BY <1>3, ChildStepSaves DEF ChildStep, Straight
  <2>2. UNCHANGED kind /\ KeepsMetadata' = KeepsMetadata
    BY <1>3 DEF ChildStep, KeepsMetadata
  <2> QED BY <1>1, <1>3, <2>1, <2>2, ChildSteps
<1>4. CASE CollectorMove \/ UNCHANGED vars
  <2>1. Straight => SaveInv'
    <3>1. Die => child.stage # "episodes"
      <4> SUFFICES ASSUME Die PROVE FALSE
        OBVIOUS
      <4>1. Live /\ child'.stage = "exited"
        BY Shapes DEF Die
      <4>2. child' = child \/ child'.stage = "guard"
        <5>1. CASE Spawn
          BY <5>1, BookShapes DEF Spawn
        <5>2. CASE ~ Spawn
          BY <1>4, <5>2 DEF CollectorMove, Operator, Start, Reap, AppendManifest, WriteStats,
                      EndLoop, FinalizeInfo, FinalizeSplits, CrashAlone, DatasetUnchanged,
                      childVars, vars
        <5> QED BY <5>1, <5>2
      <4> QED BY <4>1, <4>2 DEF Live, EarlyStages, SaveStages
    <3> QED BY <3>1, SaveStep DEF Straight
  <2>2. UNCHANGED <<kind, deaths>> /\ KeepsMetadata' = KeepsMetadata
    BY <1>4, CollectorMoves DEF KeepsMetadata
  <2> QED BY <1>1, <1>4, <2>1, <2>2, CollectorMoves
<1> QED BY <1>2, <1>3, <1>4 DEF Next, CollectorStep, CollectorMove, Done

\* How a step moves what a collector has found out.
LEMMA FinishStep ==
  ASSUME OneDeathInv, OneDeathInv', FinishInv, [Next]_vars,
         KeepsMetadata /\ Skewed => Skewed', UNCHANGED kind
  PROVE  FinishInv'
<1> USE DEF OneDeathInv
<1> DEFINE Books == coll'.pc \notin {"manifest", "stats"} => mem' = stats'
           Found == Finishing' => Succeeded(stats') = Plan
<1>1. Forward(stats, stats')
  BY ShapesStep
<1>2. Succeeded(stats) = Plan => Succeeded(stats') = Plan
  BY <1>1 DEF Forward, Succeeded
<1>3. CASE UNCHANGED <<coll, stats, mem, splits>>
  <2>1. Books /\ Found
    BY <1>3 DEF FinishInv, Finishing
  <2>2. CASE metadata' = metadata
    <3>1. RowSplits(metadata') = RowSplits(metadata)
      BY <2>2
    <3> QED BY <1>3, <2>1, <2>2, <3>1 DEF FinishInv, KeepsMetadata, Contiguous
  <2>3. CASE metadata' # metadata
    <3>1. SaveMetadataRow
      BY <2>3 DEF Next, Done, Operator, Start, CollectorStep, Spawn, Reap, Timeout,
         AppendManifest, WriteStats, EndLoop, FinalizeInfo, FinalizeSplits, CrashAlone,
         CrashTogether, OrphanDies, Die, ChildStep, ChildEarly, ChildSave, CheckSchema,
         OpenWriter, RolloutFails, RolloutSucceeds, SaveParquet, SaveVideo, SaveInfo,
         SaveEpisodes, SaveTasks, SaveSchema, ExitSuccess, DatasetUnchanged, childVars, vars
    <3>2. Live /\ child.save.plan \in Plan
      BY <3>1, Shapes DEF SaveMetadataRow, AtStage, Live, SaveStages
    <3>3. coll.pc # "splits"
      BY <3>2 DEF WriterFollows, Stopped
    <3>4. splits # NoSplits /\ Straight => FALSE
      BY <3>2 DEF FinishInv, Finishing, Succeeded, Straight, SaveInv, SaverUnrecorded
    <3> QED BY <1>3, <2>1, <3>3, <3>4 DEF FinishInv, KeepsMetadata
  <2> QED BY <2>2, <2>3
<1>4. CASE /\ Operator \/ Spawn \/ Reap \/ AppendManifest \/ WriteStats \/ EndLoop
              \/ CrashAlone \/ CrashTogether
           /\ ~ UNCHANGED <<coll, stats, mem, splits>>
  <2>1. /\ UNCHANGED <<splits, metadata>> /\ coll'.pc # "splits"
        /\ \/ coll'.pc \notin {"finalize", "complete"}
           \/ EndLoop
    <3>1. CASE Operator \/ Spawn \/ Reap
      BY <3>1, BookShapes DEF Operator, Start, Spawn, Reap, GoTo, DatasetUnchanged, childVars
    <3>2. CASE AppendManifest \/ WriteStats \/ EndLoop
      BY <3>2, BookShapes DEF AppendManifest, WriteStats, EndLoop, GoTo, DatasetUnchanged,
                              childVars
    <3>3. CASE CrashAlone \/ CrashTogether
      BY <3>3, BookShapes DEF CrashAlone, CrashTogether, Crash, Die, GoTo, childVars
    <3> QED BY <1>4, <3>1, <3>2, <3>3
  <2>2. Books
    <3>1. CASE Operator \/ CrashAlone \/ CrashTogether \/ WriteStats
      <4>1. CASE Operator
        <5> PICK budget \in Budgets, defer \in BOOLEAN : Start(budget, defer)
          BY <4>1 DEF Operator
        <5> QED BY DEF Start
      <4>2. CASE CrashAlone \/ CrashTogether
        BY <4>2 DEF CrashAlone, CrashTogether, Crash
      <4>3. CASE WriteStats
        BY <4>3 DEF WriteStats
      <4> QED BY <3>1, <4>1, <4>2, <4>3
    <3>2. CASE Spawn \/ Reap \/ AppendManifest \/ EndLoop
      BY <3>2, BookShapes DEF FinishInv, Spawn, Reap, AppendManifest, EndLoop, GoTo
    <3> QED BY <1>4, <3>1, <3>2
  <2>3. Found
    <3>1. CASE EndLoop /\ coll'.pc \in {"finalize", "complete"}
      BY <3>1, BookShapes DEF EndLoop, GoTo, FinishInv
    <3>2. CASE coll'.pc \notin {"finalize", "splits", "complete"}
      BY <1>2, <2>1, <3>2 DEF FinishInv, Finishing
    <3> QED BY <2>1, <3>1, <3>2
  <2>4. RowSplits(metadata') = RowSplits(metadata)
    BY <2>1
  <2> QED BY <2>1, <2>2, <2>3, <2>4 DEF FinishInv, KeepsMetadata, Contiguous
<1>5. CASE FinalizeInfo
  <2>1. /\ coll.pc = "finalize" /\ coll'.pc \in {"raised", "splits"}
        /\ UNCHANGED <<stats, mem, splits, metadata>>
        /\ coll'.pc = "splits" => Contiguous(CountedSplits)
    BY <1>5, BookShapes DEF FinalizeInfo, GoTo, childVars
  <2>2. Books /\ Found
    BY <2>1 DEF FinishInv, Finishing
  <2>3. RowSplits(metadata') = RowSplits(metadata)
    BY <2>1
  <2> QED BY <2>1, <2>2, <2>3 DEF FinishInv, KeepsMetadata, Contiguous, CountedSplits
<1>6. CASE FinalizeSplits
  <2>1. /\ coll.pc = "splits" /\ coll'.pc = "complete"
        /\ UNCHANGED <<stats, mem, metadata>>
    BY <1>6, BookShapes DEF FinalizeSplits, GoTo, DatasetUnchanged, childVars
  <2>2. Books /\ Found
    BY <2>1 DEF FinishInv, Finishing
  <2>3. RowSplits(metadata') = RowSplits(metadata)
    BY <2>1
  <2> QED BY <2>1, <2>2, <2>3 DEF FinishInv, KeepsMetadata, Contiguous
<1>7. CASE Timeout \/ OrphanDies \/ ChildStep \/ UNCHANGED vars
  BY <1>3, <1>7 DEF Timeout, OrphanDies, ChildStep, collectorVars, vars
<1> QED BY <1>3, <1>4, <1>5, <1>6, <1>7 DEF Next, CollectorStep, Done

\* The two invariants together.
LEMMA OneDeathInvariant ==
  ASSUME MaxSaveDeaths <= 1
  PROVE  Spec => [](OneDeathInv /\ FinishInv)
<1>1. Init => OneDeathInv /\ FinishInv
  <2> SUFFICES ASSUME Init PROVE FinishInv
    BY OneDeathInit
  <2> QED BY DEF Init, FinishInv, Finishing
<1>2. OneDeathInv /\ FinishInv /\ [Next]_vars => (OneDeathInv /\ FinishInv)'
  BY OneDeathSteps, FinishStep
<1> QED BY <1>1, <1>2, PTL DEF Spec

\* Where nothing is being saved and the counts agree, the books are straight.
LEMMA CountsStraighten ==
  ASSUME OneDeathInv, KeepsMetadata, ~ Live, Len(Rows) = Len(metadata)
  PROVE  /\ Straight /\ DOMAIN metadata = 1 .. Len(Rows)
         /\ \A k \in DOMAIN metadata : metadata[k] = [save |-> Rows[k], index |-> k - 1]
         /\ \A k \in DOMAIN metadata : metadata[k].save = Rows[k]
         /\ \A i \in 0 .. Len(Rows) - 1 :
              HoldsData(i, Row(i)) /\ ResolvesPrompt(i, Row(i))
<1> USE DEF OneDeathInv
<1>1. Owed = 0 /\ child.stage # "tasks"
  BY DEF Owed, Live, SaveStages
<1>2. Gap = 0
  BY <1>1, Lengths DEF Gap
<1>3. Straight
  BY <1>2 DEF Skewed
<1>4. \A k \in DOMAIN metadata : metadata[k] = [save |-> Rows[k], index |-> k - 1]
  BY <1>3 DEF Straight, InStep
<1>5. \A i \in 0 .. Len(Rows) - 1 : HoldsData(i, Row(i)) /\ ResolvesPrompt(i, Row(i))
  BY <1>1, <1>3 DEF Straight, SaveInv, RowsHeld, Resolved
<1> QED BY <1>3, <1>4, <1>5, BookShapes

\* The size of an interval that starts at zero.
LEMMA BelowCounts ==
  ASSUME NEW n \in Nat
  PROVE  IsFiniteSet(0 .. n - 1) /\ Cardinality(0 .. n - 1) = n
<1>1. Cardinality(0 .. n - 1) = IF 0 > n - 1 THEN 0 ELSE (n - 1) - 0 + 1
  BY FS_Interval
<1>2. IsFiniteSet(0 .. n - 1)
  BY FS_Interval
<1> QED BY <1>1, <1>2

\* The plans are as many as NumPlans says.
LEMMA PlanCount ==
  /\ NumPlans \in Nat /\ NumPlans # 0 /\ Plan = 0 .. NumPlans - 1
  /\ IsFiniteSet(Plan) /\ Cardinality(Plan) = NumPlans
BY WriterAssumption, BelowCounts DEF Plan

\* A dataset of as many rows as there are plans, with every plan in it, has each once.
LEMMA AllOnce ==
  ASSUME TypeInv, Len(Rows) = NumPlans, \A p \in Plan : \E k \in DOMAIN Rows : Rows[k].plan = p
  PROVE  NoPlanTwice
<1> DEFINE f == [k \in DOMAIN Rows |-> Rows[k].plan]
<1>1. DOMAIN Rows = 1 .. NumPlans /\ NumPlans \in Nat
  BY Shapes, WriterAssumption
<1>2. IsFiniteSet(DOMAIN Rows) /\ Cardinality(DOMAIN Rows) = NumPlans
  BY <1>1, IntervalCounts
<1>3. IsFiniteSet(Plan) /\ Cardinality(Plan) = NumPlans
  BY PlanCount
<1>4. f \in Surjection(DOMAIN Rows, Plan)
  BY RowPlans DEF Surjection
<1>5. f \in Injection(DOMAIN Rows, Plan)
  BY <1>2, <1>3, <1>4, FS_SurjSameCardinalityImpliesInj
<1> QED BY <1>5 DEF Injection, IsInjective, NoPlanTwice

(***************************************************************************)
(* A validator that accepts the dataset of a stopped collection is right   *)
(* about it, wherever the one death of the run tore a save: every row has  *)
(* its own data under its own prompt, the metadata row that describes it   *)
(* and a place in the range of its split; and a full plan that is accepted *)
(* holds every plan once.  Equal counts are what a validator checks, and   *)
(* the death that would be believed leaves counts that differ.             *)
(***************************************************************************)
THEOREM ValidatorsAreSound ==
  ASSUME MaxSaveDeaths <= 1
  PROVE  Spec => []ValidatorSound
<1>1. OneDeathInv /\ FinishInv => ValidatorSound
  <2> SUFFICES ASSUME OneDeathInv, FinishInv, ~ Live, Accepts
               PROVE  DatasetTrue /\ (info.total = NumPlans => NoPlanTwice)
    BY DEF ValidatorSound
  <2> USE DEF OneDeathInv
  <2>1. /\ KeepsMetadata
        /\ \/ kind = "randomized" /\ AcceptsRandomized
           \/ kind = "atomic" /\ AcceptsAtomic
    BY DEF Accepts, KeepsMetadata
  <2>2. CountsAgree /\ splits # NoSplits
    BY <2>1 DEF AcceptsRandomized, AcceptsAtomic, FilesPresent
  <2>3. Len(Rows) = info.total /\ Len(metadata) = info.total
    BY <2>2 DEF CountsAgree
  <2>4. /\ Straight /\ DOMAIN metadata = 1 .. Len(Rows) /\ Len(Rows) \in Nat
        /\ \A k \in DOMAIN metadata : metadata[k] = [save |-> Rows[k], index |-> k - 1]
        /\ \A k \in DOMAIN metadata : metadata[k].save = Rows[k]
        /\ \A i \in 0 .. Len(Rows) - 1 :
             HoldsData(i, Row(i)) /\ ResolvesPrompt(i, Row(i))
    BY <2>1, <2>3, CountsStraighten, Shapes
  <2>5. ~ Skewed
    BY <2>4 DEF Straight, InStep, Skewed
  <2>6. SplitsTrue
    <3>1. CASE kind = "atomic" /\ AcceptsAtomic
      <4>1. /\ Contiguous(RowSplits(metadata))
            /\ info.ranges = RangesIn(RowSplits(metadata), PresentSplits)
        BY <3>1 DEF AcceptsAtomic, MetadataSplits
      <4>2. PresentSplits \in SUBSET Split
        <5>1. \A k \in DOMAIN metadata : Rows[k].plan \in Plan
          BY <2>4, RowPlans, Shapes
        <5> QED BY <2>4, <5>1, CollectorAssumption DEF PresentSplits, MetadataSplits, RowSplits
      <4> QED BY <2>3, <2>4, <4>1, <4>2, RangesSeparate
    <3>2. CASE kind = "randomized" /\ AcceptsRandomized
      <4>1. /\ Contiguous(RowSplits(metadata))
            /\ info.ranges = RangesIn(Schedule, Split) /\ info.total = NumPlans
            /\ \A k \in DOMAIN metadata : metadata[k].save.plan = k - 1
        BY <2>2, <2>5, <3>2 DEF FinishInv, AcceptsRandomized
      <4>2. RowSplits(metadata) = Schedule
        BY <2>3, <2>4, <4>1 DEF RowSplits, Schedule
      <4> QED BY <2>3, <2>4, <4>1, <4>2, RangesSeparate
    <3> QED BY <2>1, <3>1, <3>2
  <2>7. DatasetTrue
    <3>1. \A i \in 0 .. Len(Rows) - 1 : metadata[i + 1] = [save |-> Row(i), index |-> i]
      <4> SUFFICES ASSUME NEW i \in 0 .. Len(Rows) - 1
                   PROVE  metadata[i + 1] = [save |-> Row(i), index |-> i]
        OBVIOUS
      <4>1. i + 1 \in DOMAIN metadata /\ (i + 1) - 1 = i
        BY <2>4
      <4> QED BY <2>4, <4>1 DEF Row
    <3> QED BY <2>4, <2>6, <3>1 DEF DatasetTrue
  <2>8. ASSUME info.total = NumPlans PROVE NoPlanTwice
    <3>1. \A p \in Plan : \E k \in DOMAIN Rows : Rows[k].plan = p
      <4> SUFFICES ASSUME NEW p \in Plan PROVE \E k \in DOMAIN Rows : Rows[k].plan = p
        OBVIOUS
      <4>1. stats[p].success
        BY <2>2 DEF FinishInv, Finishing, Succeeded
      <4>2. IsRow(p, stats[p])
        BY <2>4, <4>1 DEF Straight, SaveInv, RecordsTrue
      <4>3. stats[p].index + 1 \in DOMAIN Rows /\ Rows[stats[p].index + 1].plan = p
        BY <4>2, Shapes DEF IsRow, Row
      <4> QED BY <4>3
    <3> QED BY <2>3, <2>8, <3>1, AllOnce
  <2> QED BY <2>7, <2>8
<1> QED BY <1>1, OneDeathInvariant, PTL

-----------------------------------------------------------------------------
(* The repair of the ranges, beside the collector whose dataset it repairs. *)

\* What the tool has seen and written since it was started.
RepairInv ==
  /\ fx = [pc |-> fx.pc, ranges |-> fx.ranges, missing |-> fx.missing, runs |-> fx.runs]
  /\ fx.pc \in {"info", "splits", "done"} =>
       /\ ~ Live /\ Len(Rows) = Len(metadata)
       /\ info.st = "whole" /\ SplitsRanged
       /\ fx.ranges = RangesOfRows /\ fx.missing = MissingPlans
  /\ fx.pc \in {"splits", "done"} => info.ranges = fx.ranges
  /\ fx.pc = "done" => splits = fx.ranges

FinalizerInv ==
  /\ tool # "finalizer" => fx.pc # "done"
  /\ tool = "finalizer" => OneDeathInv /\ RepairInv /\ kind = "atomic"

\* New ranges in info.json or in the splits file leave the books as they are.
LEMMA RangesAside ==
  ASSUME OneDeathInv, UNCHANGED <<episodes, tasks, parquet, videos, childVars, deaths, kind>>,
         UNCHANGED <<coll, stats, mem, manifest, starts, crashes>>,
         \/ info' = info
         \/ info.st = "whole" /\ \E r : info' = [info EXCEPT !.ranges = r]
  PROVE  OneDeathInv'
<1> USE DEF OneDeathInv
<1>1. /\ info'.st = info.st
      /\ info.st = "whole" =>
           /\ info' = [st |-> "whole", total |-> info.total, ranges |-> info'.ranges]
           /\ info'.total = info.total /\ info.total \in Nat
  <2>1. info.st = "whole" =>
          /\ info = [st |-> "whole", total |-> info.total, ranges |-> info.ranges]
          /\ info.total \in Nat
    BY DEF TypeInv, TypeOK, DatasetTypeOK
  <2> QED BY <2>1
<1>2. /\ UNCHANGED <<schema, metadata, child, writer>>
      /\ UNCHANGED Rows
  BY DEF childVars, Rows
<1>3. TypeInv'
  <2>1. DatasetTypeOK'
    BY <1>1, <1>2 DEF TypeInv, TypeOK, DatasetTypeOK
  <2>2. ChildTypeOK' /\ CollTypeOK' /\ PromptKnown'
    BY <1>2 DEF TypeInv, TypeOK, ChildTypeOK, CollTypeOK, PromptKnown
  <2> QED BY <2>1, <2>2 DEF TypeInv, TypeOK
<1>4. AheadInv' /\ WriterFollows' /\ InfoCounts' /\ KeepsMetadata' = KeepsMetadata
  BY <1>1, <1>2 DEF AheadInv, NextAttempt, WriterFollows, InfoCounts, KeepsMetadata, Live
<1>5. Straight => SaveInv'
  <2> SUFFICES ASSUME Straight PROVE SaveInv'
    OBVIOUS
  <2>1. RecordsTrue' /\ SaverUnrecorded'
    BY <1>2 DEF Straight, SaveInv, RecordsTrue, SaverUnrecorded, IsRow, Row, Live
  <2> QED BY <1>2, <2>1, RecordsOnly DEF Straight
<1>6. Owed' = Owed
  BY <1>2 DEF Owed
<1> QED BY <1>2, <1>3, <1>4, <1>5, <1>6, SameGap DEF Straight

\* Every step beside the repair keeps what it has written, or ends it.
LEMMA RepairSteps ==
  ASSUME MaxSaveDeaths <= 1, OneDeathInv, RepairInv, kind = "atomic", FinalizerNext
  PROVE  OneDeathInv' /\ RepairInv' /\ kind' = "atomic"
<1>1. CASE Resumed
  <2>1. /\ Next /\ fx' = [fx EXCEPT !.pc = "idle"]
        /\ fx'.pc = "idle"
    BY <1>1 DEF Resumed, RepairInv
  <2> QED BY <2>1, OneDeathSteps DEF RepairInv
<1>2. CASE StartFinalizer
  <2>1. UNCHANGED vars
    BY <1>2 DEF StartFinalizer
  <2>2. OneDeathInv' /\ kind' = kind
    BY <2>1, OneDeathSteps
  <2>a. fx = [pc |-> fx.pc, ranges |-> fx.ranges, missing |-> fx.missing, runs |-> fx.runs]
    BY DEF RepairInv
  <2> DEFINE fit == info.st = "whole" /\ info.total = Len(metadata) /\ SplitsRanged
  <2>3. CASE ~ fit
    <3>1. fx' = [fx EXCEPT !.pc = "raised", !.runs = @ + 1]
      BY <1>2, <2>3 DEF StartFinalizer
    <3>2. /\ fx'.pc = "raised"
          /\ fx' = [pc |-> fx'.pc, ranges |-> fx'.ranges, missing |-> fx'.missing,
                    runs |-> fx'.runs]
      BY <2>a, <3>1
    <3> QED BY <2>2, <3>2 DEF RepairInv
  <2>4. CASE fit
    <3>1. /\ ~ Live /\ fit
          /\ fx' = [pc |-> "info", ranges |-> RangesOfRows, missing |-> MissingPlans,
                    runs |-> fx.runs + 1]
      BY <1>2, <2>4 DEF StartFinalizer
    <3>2. Len(Rows) = Len(metadata)
      BY <3>1 DEF OneDeathInv, InfoCounts, KeepsMetadata, Live, SaveStages
    <3>3. /\ UNCHANGED <<metadata, info, child>> /\ Rows' = Rows
      BY <2>1 DEF vars, datasetVars, childVars, Rows
    <3>4. /\ Live' = Live /\ SplitsRanged' = SplitsRanged
          /\ RangesOfRows' = RangesOfRows /\ MissingPlans' = MissingPlans
      BY <3>3 DEF Live, SplitsRanged, IndexesConsecutive, Contiguous, SplitsFromTheFirst,
                  MetadataSplits, PresentSplits, RangesOfRows, MissingPlans
    <3> QED BY <2>2, <3>1, <3>2, <3>3, <3>4 DEF RepairInv
  <2> QED BY <2>3, <2>4
<1>3. CASE RepairInfo \/ RepairSplits \/ KillFinalizer
  <2>1. /\ UNCHANGED <<metadata, child, kind>> /\ Rows' = Rows
        /\ OneDeathInv'
    <3>1. CASE RepairInfo
      <4>1. info.st = "whole"
        BY <3>1 DEF RepairInfo, RepairInv
      <4> QED BY <3>1, <4>1, RangesAside DEF RepairInfo, childVars, collectorVars, Rows
    <3>2. CASE RepairSplits
      BY <3>2, RangesAside DEF RepairSplits, DatasetUnchanged, datasetVars, childVars, Rows
    <3>3. CASE KillFinalizer
      BY <3>3, OneDeathSteps DEF KillFinalizer, vars, datasetVars, childVars, Rows
    <3> QED BY <1>3, <3>1, <3>2, <3>3
  <2>2. /\ Live' = Live /\ SplitsRanged' = SplitsRanged
        /\ RangesOfRows' = RangesOfRows /\ MissingPlans' = MissingPlans
    BY <2>1 DEF Live, SplitsRanged, IndexesConsecutive, Contiguous, SplitsFromTheFirst,
                MetadataSplits, PresentSplits, RangesOfRows, MissingPlans
  <2>3. RepairInv'
    <3>1. CASE RepairInfo
      <4>1. /\ fx.pc = "info" /\ fx' = [fx EXCEPT !.pc = "splits"]
            /\ info' = [info EXCEPT !.ranges = fx.ranges]
        BY <3>1 DEF RepairInfo
      <4>2. info = [st |-> "whole", total |-> info.total, ranges |-> info.ranges]
        BY <4>1 DEF RepairInv, OneDeathInv, TypeInv, TypeOK, DatasetTypeOK
      <4>3. info'.st = "whole" /\ info'.ranges = fx.ranges
        BY <4>1, <4>2
      <4> QED BY <2>1, <2>2, <4>1, <4>3 DEF RepairInv
    <3>2. CASE RepairSplits
      BY <2>1, <2>2, <3>2 DEF RepairInv, RepairSplits, DatasetUnchanged, datasetVars
    <3>3. CASE KillFinalizer
      BY <3>3 DEF RepairInv, KillFinalizer
    <3> QED BY <1>3, <3>1, <3>2, <3>3
  <2> QED BY <2>1, <2>3
<1> QED BY <1>1, <1>2, <1>3 DEF FinalizerNext

\* The tools that are run alone leave the repair where it is.
LEMMA FinalizerInvariant ==
  ASSUME MaxSaveDeaths <= 1
  PROVE  ToolSpec => []FinalizerInv
<1>1. ToolInit => FinalizerInv
  <2> SUFFICES ASSUME ToolInit PROVE FinalizerInv
    OBVIOUS
  <2>1. OneDeathInv
    BY OneDeathInit DEF ToolInit
  <2>2. fx = [pc |-> "idle", ranges |-> NoSplits, missing |-> {}, runs |-> 0]
    BY DEF ToolInit, FinalizerInit
  <2>3. tool = "finalizer" => kind = "atomic"
    BY DEF ToolInit
  <2> QED BY <2>1, <2>2, <2>3 DEF FinalizerInv, RepairInv
<1>2. FinalizerInv /\ [ToolNext]_toolVars => FinalizerInv'
  <2> SUFFICES ASSUME FinalizerInv, [ToolNext]_toolVars PROVE FinalizerInv'
    OBVIOUS
  <2>1. CASE UNCHANGED toolVars
    <3>1. UNCHANGED vars /\ UNCHANGED <<fx, tool>>
      BY <2>1 DEF toolVars, allVars
    <3>2. tool = "finalizer" => OneDeathInv'
      BY <3>1, OneDeathSteps DEF FinalizerInv
    <3>3. tool = "finalizer" => RepairInv' /\ kind' = kind
      <4>1. /\ UNCHANGED <<metadata, info, child, splits, kind, episodes>>
        BY <3>1 DEF vars, datasetVars, childVars, collectorVars
      <4>2. UNCHANGED <<Live, Rows, SplitsRanged, RangesOfRows, MissingPlans>>
        BY <4>1 DEF Live, SplitsRanged, IndexesConsecutive, Contiguous, SplitsFromTheFirst,
             MetadataSplits, PresentSplits, RangesOfRows, MissingPlans, Rows
      <4> QED BY <3>1, <4>1, <4>2 DEF FinalizerInv, RepairInv
    <3> QED BY <3>1, <3>2, <3>3 DEF FinalizerInv
  <2>2. CASE ToolNext /\ tool = "finalizer"
    <3>1. FinalizerNext /\ tool' = tool
      BY <2>2 DEF ToolNext
    <3> QED BY <2>2, <3>1, RepairSteps DEF FinalizerInv
  <2>3. CASE ToolNext /\ tool # "finalizer"
    <3>1. fx' = fx /\ tool' = tool
      BY <2>3 DEF ToolNext, NotBatch
    <3> QED BY <2>3, <3>1 DEF FinalizerInv
  <2> QED BY <2>1, <2>2, <2>3
<1> QED BY <1>1, <1>2, PTL DEF ToolSpec

(***************************************************************************)
(* Whatever the collection went through (plans given up, kills, one death  *)
(* inside a save, an earlier repair cut short), the ranges the finalizer   *)
(* of the atomic splits writes put every episode into its own split and no *)
(* other, both files say the same, the missing plans are those without     *)
(* data, and a partial dataset whose files are there passes the split      *)
(* rules of the validator too.                                             *)
(***************************************************************************)
THEOREM RepairedSplitsAreTrue ==
  ASSUME MaxSaveDeaths <= 1
  PROVE  ToolSpec => []RepairedSplitsTrue
<1>1. FinalizerInv => RepairedSplitsTrue
  <2> SUFFICES ASSUME FinalizerInv, fx.pc = "done"
               PROVE  /\ SplitsTrue /\ splits = info.ranges
                      /\ fx.missing = Plan \ {Rows[k].plan : k \in DOMAIN Rows}
                      /\ FilesPresent /\ CountsAgree /\ ParquetReadable /\ info.total < NumPlans
                           => AcceptsAtomic
    BY DEF RepairedSplitsTrue
  <2>1. /\ OneDeathInv /\ TypeInv /\ KeepsMetadata /\ ~ Live /\ Len(Rows) = Len(metadata)
        /\ SplitsRanged /\ fx.missing = MissingPlans
        /\ info.ranges = RangesOfRows /\ splits = RangesOfRows
    BY DEF FinalizerInv, RepairInv, OneDeathInv, KeepsMetadata
  <2>2. /\ DOMAIN metadata = 1 .. Len(Rows) /\ DOMAIN Rows = 1 .. Len(Rows)
        /\ \A k \in DOMAIN metadata : metadata[k].save = Rows[k]
    BY <2>1, CountsStraighten, Shapes
  <2>3. PresentSplits \in SUBSET Split
    <3>1. \A k \in DOMAIN metadata : Rows[k].plan \in Plan
      BY <2>1, <2>2, RowPlans
    <3> QED BY <2>2, <3>1, CollectorAssumption DEF PresentSplits, MetadataSplits, RowSplits
  <2>4. SplitsTrue
    BY <2>1, <2>2, <2>3, RangesSeparate DEF SplitsRanged, MetadataSplits, RangesOfRows
  <2>5. fx.missing = Plan \ {Rows[k].plan : k \in DOMAIN Rows}
    BY <2>1, <2>2 DEF MissingPlans
  <2>6. ASSUME FilesPresent, CountsAgree, ParquetReadable, info.total < NumPlans
        PROVE  AcceptsAtomic
    <3>1. info.total # NumPlans
      <4>1. info.total \in Nat /\ NumPlans \in Nat
        BY <2>1, <2>6, WriterAssumption DEF FilesPresent, TypeInv, TypeOK, DatasetTypeOK
      <4> QED BY <2>6, <4>1
    <3> QED BY <2>1, <2>6, <3>1 DEF AcceptsAtomic, SplitsRanged, RangesOfRows
  <2> QED BY <2>1, <2>4, <2>5, <2>6
<1> QED BY <1>1, FinalizerInvariant, PTL

-----------------------------------------------------------------------------
(* From a dataset to a training. *)

FileTypes ==
  [recorded : [Gate!Files -> {"raw", "nominal"}],
   file : [Gate!Files -> {"raw", "nominal", "torn"}],
   backup : [Gate!Files -> {"absent", "raw", "nominal", "torn"}],
   sound : BOOLEAN, leftover : BOOLEAN]

GuardTypes ==
  [script : {"atomic", "transport"},
   pc : {"idle", "wait", "stats", "preflight", "checkpoint", "launch", "started", "refused"},
   at : Gate!Files, opened : SUBSET Gate!Files]

GateTypeOK ==
  /\ files \in FileTypes
  /\ patch \in [pc : {"idle", "preview", "read", "copying", "write", "writing", "died",
                      "raised", "aborted", "done"},
                at : Gate!Files, backup : BOOLEAN, runs : Nat, deaths : Nat,
                bare : SUBSET Gate!Files]
  /\ norm \in [pc : {"none", "compute", "announced", "writing", "ended", "died"},
               log : BOOLEAN, file : {"absent", "old", "torn", "new"}, examples : BOOLEAN]
  /\ guard \in [Guards -> GuardTypes]
  /\ train = [pc |-> train.pc, checkpoint |-> train.checkpoint, file |-> train.file,
              stats |-> train.stats, opened |-> train.opened]

\* The episode that is read has not been touched, the one that is written is torn.
AtWork ==
  /\ patch.pc = "copying" => /\ files.backup[patch.at] = "torn"
                             /\ files.file[patch.at] # "torn"
  /\ patch.pc = "write" => files.file[patch.at] # "torn"
  /\ patch.pc = "writing" => /\ files.file[patch.at] = "torn"
                             /\ patch.at \in patch.bare \/ files.backup[patch.at] # "absent"

\* An episode that was never opened without a copy.
Backed(e) ==
  /\ files.backup[e] \in {"absent", "torn", files.recorded[e]}
  /\ files.backup[e] = "absent" \/ (patch.pc = "copying" /\ patch.at = e) =>
       files.file[e] = files.recorded[e]
  /\ files.backup[e] = "torn" => patch.deaths > 0 \/ (patch.pc = "copying" /\ patch.at = e)
  /\ files.file[e] = "torn" /\ files.backup[e] = "torn" =>
       patch.deaths > (IF patch.pc = "writing" /\ patch.at = e THEN 0 ELSE 1)

\* What a launch script has seen holds until it starts the training, but for a file the
\* patch has opened since.
Passed(opened, e) == files.file[e] = "nominal" \/ (files.file[e] = "torn" /\ e \in opened)

NormTrue ==
  /\ norm.log => norm.pc \notin {"none", "compute"}
  /\ norm.pc = "ended" <=> norm.file = "new"

\* What a script must have seen before it is at pc, in the preflight before episode at.
Seen(script, pc, at, opened) ==
  /\ pc \in {"stats", "preflight", "checkpoint", "launch"} => norm.pc \in {"ended", "died"}
  /\ pc \in {"preflight", "checkpoint", "launch"} => norm.file \in {"old", "new"}
  /\ script = "atomic" /\ pc = "preflight" =>
       \A e \in Gate!Files : e < at => files.sound /\ Passed(opened, e)
  /\ script = "atomic" /\ pc \in {"checkpoint", "launch"} =>
       files.sound /\ \A e \in Gate!Files : Passed(opened, e)

GuardTrue(g) == Seen(guard[g].script, guard[g].pc, guard[g].at, guard[g].opened)

PatchKeeps == AtWork /\ \A e \in Gate!Files \ patch.bare : Backed(e)
GuardsKeep == NormTrue /\ (\A g \in Guards : GuardTrue(g)) /\ Gate!TrainsOnWhatPassed

\* The launch scripts stay where they are, and what one has passed it has passed.
GuardsStay ==
  \A g \in Guards :
    /\ guard'[g].script = guard[g].script /\ guard'[g].pc = guard[g].pc
    /\ guard'[g].at = guard[g].at
    /\ \A e \in Gate!Files : Passed(guard[g].opened, e) => Passed(guard[g].opened, e)'

GateInv == tool = "gate" => GateTypeOK /\ PatchKeeps /\ GuardsKeep

\* Before the patch is first run.
LEMMA GateInits == Gate!GateInit => GateTypeOK /\ PatchKeeps /\ GuardsKeep
<1> SUFFICES ASSUME Gate!GateInit PROVE GateTypeOK /\ PatchKeeps /\ GuardsKeep
  OBVIOUS
<1>0. 0 \in Gate!Files
  BY GateAssumption DEF Gate!Files
<1>1. PICK script \in {"atomic", "transport"}, sound, leftover, examples \in BOOLEAN,
           old \in {"absent", "old"},
           recorded \in [Gate!Files -> Gate!Whole] :
        /\ IF script = "atomic" THEN examples ELSE sound /\ ~ leftover
        /\ files = [recorded |-> recorded, file |-> recorded,
                    backup |-> [e \in Gate!Files |-> "absent"],
                    sound |-> sound, leftover |-> leftover]
        /\ patch = [pc |-> "idle", at |-> 0, backup |-> FALSE, runs |-> 0, deaths |-> 0,
                    bare |-> {}]
        /\ norm = [pc |-> "none", log |-> FALSE, file |-> old, examples |-> examples]
        /\ guard = [g \in Guards |-> [script |-> script, pc |-> "idle", at |-> 0,
                                       opened |-> {}]]
        /\ train = [pc |-> "none", checkpoint |-> FALSE, file |-> << >>, stats |-> "absent",
                    opened |-> {}]
  BY ZenonT(60) DEF Gate!GateInit
<1>2. GateTypeOK
  <2>1. files \in FileTypes
    BY <1>1 DEF FileTypes, Gate!Whole
  <2>2. guard \in [Guards -> GuardTypes]
    BY <1>0, <1>1 DEF GuardTypes
  <2> QED BY <1>0, <1>1, <2>1, <2>2 DEF GateTypeOK
<1>3. PatchKeeps
  BY <1>0, <1>1 DEF PatchKeeps, AtWork, Backed
<1>4. GuardsKeep
  BY <1>1 DEF GuardsKeep, NormTrue, GuardTrue, Seen, Gate!TrainsOnWhatPassed
<1> QED BY <1>2, <1>3, <1>4

\* What holds of the episode a step is about holds of all after it.
LEMMA PatchSteps ==
  ASSUME GateTypeOK, PatchKeeps,
         \/ Gate!StartPatch \/ Gate!Preview \/ Gate!ReadEpisode \/ Gate!CopyBackup
         \/ Gate!OpenEpisode \/ Gate!WriteEpisode \/ Gate!KillPatch
  PROVE  /\ GateTypeOK' /\ PatchKeeps'
         /\ UNCHANGED <<norm, train>> /\ files'.sound = files.sound /\ GuardsStay
<1> USE GateAssumption DEF GateTypeOK, FileTypes
<1>1. UNCHANGED <<norm, train>>
  BY DEF Gate!StartPatch, Gate!Preview, Gate!ReadEpisode, Gate!CopyBackup, Gate!OpenEpisode,
         Gate!WriteEpisode, Gate!KillPatch, Gate!Patches
<1>2. CASE Gate!StartPatch
  <2>1. PICK backup \in BOOLEAN :
          /\ patch.pc \in {"idle", "died", "raised", "aborted", "done"}
          /\ patch' = [patch EXCEPT !.pc = "preview", !.at = 0, !.backup = backup,
                                    !.runs = patch.runs + 1]
          /\ files' = files /\ guard' = guard
    BY <1>2 DEF Gate!StartPatch
  <2>2. 0 \in Gate!Files
    BY DEF Gate!Files
  <2>3. /\ patch'.pc = "preview" /\ patch'.runs = patch.runs + 1
        /\ patch'.deaths = patch.deaths /\ patch'.bare = patch.bare
        /\ patch' \in [pc : {"preview"}, at : Gate!Files, backup : BOOLEAN, runs : Nat,
                       deaths : Nat, bare : SUBSET Gate!Files]
    <3>1. PICK more : more = patch.runs + 1
      OBVIOUS
    <3>2. more \in Nat
          /\ patch' = [patch EXCEPT !.pc = "preview", !.at = 0, !.backup = backup,
                                    !.runs = more]
      BY <2>1, <3>1
    <3>3. /\ patch'.pc = "preview" /\ patch'.runs = more
          /\ patch'.deaths = patch.deaths /\ patch'.bare = patch.bare
          /\ patch' \in [pc : {"preview"}, at : Gate!Files, backup : BOOLEAN, runs : Nat,
                         deaths : Nat, bare : SUBSET Gate!Files]
      BY <2>2, <3>2
    <3> QED BY <3>1, <3>3
  <2>4. GateTypeOK'
    BY <1>1, <2>1, <2>3
  <2>5. AtWork' /\ (\A e \in Gate!Files \ patch'.bare : Backed(e)')
    BY <2>1, <2>3 DEF PatchKeeps, AtWork, Backed
  <2>6. GuardsStay
    BY <2>1 DEF GuardsStay, Passed
  <2> QED BY <1>1, <2>1, <2>4, <2>5, <2>6 DEF PatchKeeps
<1>3. CASE Gate!Preview
  <2>1. /\ patch.pc = "preview" /\ files' = files /\ guard' = guard
        /\ patch' \in {[patch EXCEPT !.pc = "raised"], [patch EXCEPT !.pc = "read"],
                       [patch EXCEPT !.pc = "aborted"]}
    BY <1>3 DEF Gate!Preview, Gate!Patches
  <2>2. /\ patch'.pc \in {"raised", "read", "aborted"} /\ patch'.runs = patch.runs
        /\ patch'.at = patch.at /\ patch'.deaths = patch.deaths /\ patch'.bare = patch.bare
        /\ patch' \in [pc : {"raised", "read", "aborted"}, at : Gate!Files, backup : BOOLEAN,
                       runs : Nat, deaths : Nat, bare : SUBSET Gate!Files]
    BY <2>1
  <2>3. GateTypeOK'
    BY <1>1, <2>1, <2>2
  <2>4. AtWork' /\ (\A e \in Gate!Files \ patch'.bare : Backed(e)')
    BY <2>1, <2>2 DEF PatchKeeps, AtWork, Backed
  <2>5. GuardsStay
    BY <2>1 DEF GuardsStay, Passed
  <2> QED BY <1>1, <2>1, <2>2, <2>3, <2>4, <2>5 DEF PatchKeeps
<1>4. CASE Gate!ReadEpisode
  <2>1. CASE files' = files
    <3>1. /\ patch.pc = "read" /\ guard' = guard
          /\ \/ patch' = [patch EXCEPT !.pc = "raised"]
             \/ patch' = [patch EXCEPT !.pc = "write"] /\ files.file[patch.at] # "torn"
             \/ files' = [files EXCEPT !.backup[patch.at] = "torn"]
                /\ files.backup[patch.at] = "absent"
      BY <1>4 DEF Gate!ReadEpisode, Gate!Patches, Gate!Whole, Gate!NeedsBackup
    <3>2. ~ (/\ files' = [files EXCEPT !.backup[patch.at] = "torn"]
             /\ files.backup[patch.at] = "absent")
      BY <2>1
    <3>3. /\ patch'.pc \in {"raised", "write"} /\ patch'.runs = patch.runs
          /\ patch'.at = patch.at /\ patch'.deaths = patch.deaths /\ patch'.bare = patch.bare
          /\ patch'.pc = "write" => files.file[patch.at] # "torn"
          /\ patch' \in [pc : {"raised", "write"}, at : Gate!Files, backup : BOOLEAN,
                         runs : Nat, deaths : Nat, bare : SUBSET Gate!Files]
      BY <3>1, <3>2
    <3>4. GateTypeOK'
      BY <1>1, <2>1, <3>1, <3>3
    <3>5. AtWork' /\ (\A e \in Gate!Files \ patch'.bare : Backed(e)')
      BY <2>1, <3>1, <3>3 DEF PatchKeeps, AtWork, Backed
    <3>6. GuardsStay
      BY <2>1, <3>1 DEF GuardsStay, Passed
    <3> QED BY <1>1, <2>1, <3>3, <3>4, <3>5, <3>6 DEF PatchKeeps
  <2>2. CASE files' # files
    <3> DEFINE at == patch.at
    <3>1. /\ patch.pc = "read" /\ patch' = [patch EXCEPT !.pc = "copying"]
          /\ guard' = guard
          /\ files' = [files EXCEPT !.backup[at] = "torn"]
          /\ files.file[at] # "torn" /\ files.backup[at] = "absent"
      BY <1>4, <2>2 DEF Gate!ReadEpisode, Gate!Patches, Gate!Whole, Gate!NeedsBackup
    <3>2. /\ patch'.pc = "copying" /\ patch'.runs = patch.runs
          /\ patch'.at = at /\ patch'.deaths = patch.deaths /\ patch'.bare = patch.bare
          /\ patch' \in [pc : {"copying"}, at : Gate!Files, backup : BOOLEAN,
                         runs : Nat, deaths : Nat, bare : SUBSET Gate!Files]
      BY <3>1
    <3>3. /\ files'.file = files.file /\ files'.sound = files.sound
          /\ files'.backup[at] = "torn" /\ at \in Gate!Files
          /\ \A e \in Gate!Files : e # at => files'.backup[e] = files.backup[e]
          /\ files' \in FileTypes /\ files'.recorded = files.recorded
      BY <3>1
    <3>4. GateTypeOK'
      BY <1>1, <3>1, <3>2, <3>3
    <3>5. AtWork'
      BY <3>1, <3>2, <3>3 DEF AtWork
    <3>6. \A e \in Gate!Files \ patch'.bare : Backed(e)'
      BY <3>1, <3>2, <3>3 DEF PatchKeeps, Backed
    <3>7. GuardsStay
      BY <3>1, <3>3 DEF GuardsStay, Passed
    <3> QED BY <1>1, <3>2, <3>3, <3>4, <3>5, <3>6, <3>7 DEF PatchKeeps
  <2> QED BY <2>1, <2>2
<1>5. CASE Gate!CopyBackup
  <2> DEFINE at == patch.at
  <2>1. /\ patch.pc = "copying" /\ patch' = [patch EXCEPT !.pc = "write"]
        /\ guard' = guard
        /\ files' = [files EXCEPT !.backup[at] = files.file[at]]
    BY <1>5 DEF Gate!CopyBackup, Gate!Patches
  <2>2. /\ patch'.pc = "write" /\ patch'.runs = patch.runs
        /\ patch'.at = at /\ patch'.deaths = patch.deaths /\ patch'.bare = patch.bare
        /\ patch' \in [pc : {"write"}, at : Gate!Files, backup : BOOLEAN,
                       runs : Nat, deaths : Nat, bare : SUBSET Gate!Files]
    BY <2>1
  <2>3. /\ files'.file = files.file /\ files'.sound = files.sound
        /\ files'.backup[at] = files.file[at] /\ at \in Gate!Files
        /\ files.file[at] # "torn" /\ files.file[at] # "absent"
        /\ \A e \in Gate!Files : e # at => files'.backup[e] = files.backup[e]
        /\ files' \in FileTypes /\ files'.recorded = files.recorded
    BY <2>1 DEF PatchKeeps, AtWork
  <2>4. GateTypeOK'
    BY <1>1, <2>1, <2>2, <2>3
  <2>5. AtWork'
    BY <2>1, <2>2, <2>3 DEF AtWork
  <2>6. \A e \in Gate!Files \ patch'.bare : Backed(e)'
    BY <2>1, <2>2, <2>3 DEF PatchKeeps, Backed
  <2>7. GuardsStay
    BY <2>1, <2>3 DEF GuardsStay, Passed
  <2> QED BY <1>1, <2>2, <2>3, <2>4, <2>5, <2>6, <2>7 DEF PatchKeeps
<1>6. CASE Gate!OpenEpisode
  <2> DEFINE at == patch.at
  <2>1. /\ patch.pc = "write"
        /\ files' = [files EXCEPT !.file[at] = "torn"]
        /\ patch' = [patch EXCEPT
             !.pc = "writing",
             !.bare = IF files.backup[at] = "absent" THEN patch.bare \cup {at} ELSE patch.bare]
        /\ guard' = [g \in Guards |-> [guard[g] EXCEPT !.opened = guard[g].opened \cup {at}]]
    BY <1>6 DEF Gate!OpenEpisode
  <2>2. /\ patch'.pc = "writing" /\ patch'.runs = patch.runs
        /\ patch'.at = at /\ patch'.deaths = patch.deaths
        /\ patch'.bare = IF files.backup[at] = "absent" THEN patch.bare \cup {at}
                         ELSE patch.bare
        /\ patch' \in [pc : {"writing"}, at : Gate!Files, backup : BOOLEAN,
                       runs : Nat, deaths : Nat, bare : SUBSET Gate!Files]
    BY <2>1
  <2>3. /\ files'.backup = files.backup /\ files'.sound = files.sound
        /\ files'.file[at] = "torn" /\ at \in Gate!Files /\ files.file[at] # "torn"
        /\ \A e \in Gate!Files : e # at => files'.file[e] = files.file[e]
        /\ files' \in FileTypes /\ files'.recorded = files.recorded
    BY <2>1 DEF PatchKeeps, AtWork
  <2>5. AtWork'
    BY <2>1, <2>2, <2>3 DEF AtWork
  <2>6. \A e \in Gate!Files \ patch'.bare : Backed(e)'
    BY <2>1, <2>2, <2>3 DEF PatchKeeps, Backed
  <2>7. \A g \in Guards :
          /\ guard'[g] \in GuardTypes
          /\ guard'[g].script = guard[g].script /\ guard'[g].pc = guard[g].pc
          /\ guard'[g].at = guard[g].at /\ guard'[g].opened = guard[g].opened \cup {at}
    <3>1. \A g \in Guards : guard[g] \in GuardTypes
      OBVIOUS
    <3> QED BY <2>1, <2>3, <3>1 DEF GuardTypes
  <2>8. GuardsStay
    BY <2>3, <2>7 DEF GuardsStay, Passed
  <2>9. guard' \in [Guards -> GuardTypes]
    BY <2>1, <2>7
  <2>4. GateTypeOK'
    BY <1>1, <2>2, <2>3, <2>9
  <2> QED BY <1>1, <2>3, <2>4, <2>5, <2>6, <2>8 DEF PatchKeeps
<1>7. CASE Gate!WriteEpisode
  <2> DEFINE at == patch.at
  <2>1. /\ patch.pc = "writing" /\ guard' = guard
        /\ files' = [files EXCEPT !.file[at] = "nominal"]
        /\ patch' = IF at + 1 < NumFiles THEN [patch EXCEPT !.pc = "read", !.at = at + 1]
                    ELSE [patch EXCEPT !.pc = "done"]
    BY <1>7 DEF Gate!WriteEpisode, Gate!Patches
  <2>2. /\ patch'.pc \in {"read", "done"} /\ patch'.runs = patch.runs
        /\ patch'.pc = "read" => patch'.at = at + 1
        /\ patch'.deaths = patch.deaths /\ patch'.bare = patch.bare
        /\ patch' \in [pc : {"read", "done"}, at : Gate!Files, backup : BOOLEAN,
                       runs : Nat, deaths : Nat, bare : SUBSET Gate!Files]
    <3>1. at + 1 < NumFiles => at + 1 \in Gate!Files
      BY DEF Gate!Files
    <3> QED BY <2>1, <3>1
  <2>3. /\ files'.backup = files.backup /\ files'.sound = files.sound
        /\ files'.file[at] = "nominal" /\ at \in Gate!Files /\ files.file[at] = "torn"
        /\ \A e \in Gate!Files : e # at => files'.file[e] = files.file[e]
        /\ files' \in FileTypes /\ files'.recorded = files.recorded
    BY <2>1 DEF PatchKeeps, AtWork
  <2>4. GateTypeOK'
    BY <1>1, <2>1, <2>2, <2>3
  <2>5. AtWork'
    BY <2>2 DEF AtWork
  <2>6. \A e \in Gate!Files \ patch'.bare : Backed(e)'
    BY <2>1, <2>2, <2>3 DEF PatchKeeps, AtWork, Backed
  <2>7. GuardsStay
    BY <2>1, <2>3 DEF GuardsStay, Passed
  <2> QED BY <1>1, <2>2, <2>3, <2>4, <2>5, <2>6, <2>7 DEF PatchKeeps
<1>8. CASE Gate!KillPatch
  <2>1. /\ patch.pc \in {"copying", "write", "writing"} /\ files' = files
        /\ guard' = guard
        /\ patch' = [patch EXCEPT !.pc = "died", !.deaths = patch.deaths + 1]
    BY <1>8 DEF Gate!KillPatch
  <2>2. /\ patch'.pc = "died" /\ patch'.runs = patch.runs
        /\ patch'.at = patch.at /\ patch'.deaths = patch.deaths + 1
        /\ patch'.bare = patch.bare
        /\ patch' \in [pc : {"died"}, at : Gate!Files, backup : BOOLEAN,
                       runs : Nat, deaths : Nat, bare : SUBSET Gate!Files]
    <3>1. PICK more : more = patch.deaths + 1
      OBVIOUS
    <3>2. more \in Nat /\ patch' = [patch EXCEPT !.pc = "died", !.deaths = more]
      BY <2>1, <3>1
    <3>3. /\ patch'.pc = "died" /\ patch'.runs = patch.runs
          /\ patch'.at = patch.at /\ patch'.deaths = more
          /\ patch'.bare = patch.bare
          /\ patch' \in [pc : {"died"}, at : Gate!Files, backup : BOOLEAN,
                         runs : Nat, deaths : Nat, bare : SUBSET Gate!Files]
      BY <3>2
    <3> QED BY <3>1, <3>3
  <2>3. GateTypeOK'
    BY <1>1, <2>1, <2>2
  <2>4. AtWork'
    BY <2>1, <2>2 DEF PatchKeeps, AtWork
  <2>5. \A e \in Gate!Files \ patch'.bare : Backed(e)'
    BY <2>1, <2>2 DEF PatchKeeps, Backed
  <2>6. GuardsStay
    BY <2>1 DEF GuardsStay, Passed
  <2> QED BY <1>1, <2>1, <2>2, <2>3, <2>4, <2>5, <2>6 DEF PatchKeeps
<1> QED BY <1>2, <1>3, <1>4, <1>5, <1>6, <1>7, <1>8

\* What the launch scripts have seen is not changed by the patch.
LEMMA GuardsPatched ==
  ASSUME GuardsKeep, UNCHANGED <<norm, train>>, files'.sound = files.sound, GuardsStay
  PROVE  GuardsKeep'
<1>1. NormTrue' /\ \A g \in Guards : GuardTrue(g)'
  BY DEF GuardsKeep, NormTrue, GuardTrue, Seen, GuardsStay
<1>2. Gate!TrainsOnWhatPassed'
  <2>1. (\A g \in Guards : guard'[g].script = "atomic")
          => \A g \in Guards : guard[g].script = "atomic"
    BY DEF GuardsStay
  <2> QED BY <2>1 DEF GuardsKeep, Gate!TrainsOnWhatPassed
<1> QED BY <1>1, <1>2 DEF GuardsKeep

\* The normalization ends before a launch script looks at what it left.
LEMMA NormSteps ==
  ASSUME GateTypeOK, GuardsKeep, Gate!NormRuns
  PROVE  GateTypeOK' /\ GuardsKeep'
<1> USE DEF GateTypeOK
<1>1. /\ UNCHANGED <<files, patch, guard, train>>
      /\ norm.pc \in {"none", "compute", "announced", "writing"}
      /\ \/ norm.pc = "none" /\ norm' = [norm EXCEPT !.pc = "compute"]
         \/ norm.pc = "compute" /\ norm' = [norm EXCEPT !.pc = "announced", !.log = TRUE]
         \/ norm.pc = "announced" /\ norm' = [norm EXCEPT !.pc = "writing", !.file = "torn"]
         \/ norm.pc = "writing" /\ norm' = [norm EXCEPT !.pc = "ended", !.file = "new"]
         \/ norm.pc # "none" /\ norm' = [norm EXCEPT !.pc = "died"]
  BY DEF Gate!NormRuns, Gate!NormAlive
<1>2. /\ norm' \in [pc : {"none", "compute", "announced", "writing", "ended", "died"},
                   log : BOOLEAN, file : {"absent", "old", "torn", "new"}, examples : BOOLEAN]
      /\ NormTrue'
  <2>1. norm \in [pc : {"none", "compute", "announced", "writing", "ended", "died"},
                 log : BOOLEAN, file : {"absent", "old", "torn", "new"}, examples : BOOLEAN]
    OBVIOUS
  <2>2. CASE norm.pc = "none" /\ norm' = [norm EXCEPT !.pc = "compute"]
    BY <2>1, <2>2 DEF GuardsKeep, NormTrue
  <2>3. CASE norm.pc = "compute" /\ norm' = [norm EXCEPT !.pc = "announced", !.log = TRUE]
    BY <2>1, <2>3 DEF GuardsKeep, NormTrue
  <2>4. CASE norm.pc = "announced" /\ norm' = [norm EXCEPT !.pc = "writing", !.file = "torn"]
    BY <2>1, <2>4 DEF GuardsKeep, NormTrue
  <2>5. CASE norm.pc = "writing" /\ norm' = [norm EXCEPT !.pc = "ended", !.file = "new"]
    BY <2>1, <2>5 DEF GuardsKeep, NormTrue
  <2>6. CASE norm.pc # "none" /\ norm.pc # "ended" /\ norm' = [norm EXCEPT !.pc = "died"]
    BY <2>1, <2>6, <1>1 DEF GuardsKeep, NormTrue
  <2> QED BY <1>1, <2>2, <2>3, <2>4, <2>5, <2>6
<1>3. GateTypeOK'
  BY <1>1, <1>2
<1>4. \A g \in Guards : GuardTrue(g)'
  <2>1. \A g \in Guards : guard[g].pc \notin {"stats", "preflight", "checkpoint", "launch"}
    BY <1>1 DEF GuardsKeep, GuardTrue, Seen
  <2> QED BY <1>1, <2>1 DEF GuardTrue, Seen
<1>5. Gate!TrainsOnWhatPassed'
  BY <1>1 DEF GuardsKeep, Gate!TrainsOnWhatPassed
<1> QED BY <1>2, <1>3, <1>4, <1>5 DEF GuardsKeep

\* A launch script moves to pc, in the preflight to episode at.
GuardMoves(g, pc, at, opened) ==
  /\ guard' \in [Guards -> GuardTypes]
  /\ guard'[g].pc = pc /\ guard'[g].at = at /\ guard'[g].script = guard[g].script
  /\ guard'[g].opened = opened
  /\ \A h \in Guards : h # g => guard'[h] = guard[h]

\* A record update moves the script it names, and no other.
LEMMA GuardMove ==
  ASSUME GateTypeOK, NEW g \in Guards, NEW at \in Gate!Files,
         NEW pc \in {"idle", "wait", "stats", "preflight", "checkpoint", "launch", "started",
                     "refused"},
         NEW opened \in SUBSET Gate!Files,
         guard' = [guard EXCEPT ![g] =
                     [guard[g] EXCEPT !.pc = pc, !.at = at, !.opened = opened]]
  PROVE  GuardMoves(g, pc, at, opened)
<1> DEFINE new == [guard[g] EXCEPT !.pc = pc, !.at = at, !.opened = opened]
<1>1. guard \in [Guards -> GuardTypes]
  BY DEF GateTypeOK
<1>2. guard' = [guard EXCEPT ![g] = new]
  OBVIOUS
<1>3. /\ new \in GuardTypes /\ new.pc = pc /\ new.at = at /\ new.script = guard[g].script
      /\ new.opened = opened
  BY <1>1 DEF GuardTypes
<1> HIDE DEF new
<1>4. /\ guard' \in [Guards -> GuardTypes] /\ guard'[g] = new
      /\ \A h \in Guards : h # g => guard'[h] = guard[h]
  BY <1>1, <1>2, <1>3
<1> QED BY <1>3, <1>4 DEF GuardMoves

\* A script that goes on, or is refused, keeps what was opened.
LEMMA GuardGoes ==
  ASSUME GateTypeOK, NEW g \in Guards, NEW at \in Gate!Files,
         NEW pc \in {"idle", "wait", "stats", "preflight", "checkpoint", "launch", "started",
                     "refused"},
         guard' = [guard EXCEPT ![g].pc = pc, ![g].at = at]
  PROVE  GuardMoves(g, pc, at, guard[g].opened)
<1>1. guard \in [Guards -> GuardTypes] /\ guard[g] \in GuardTypes
  BY DEF GateTypeOK
<1>2. guard[g].opened \in SUBSET Gate!Files
  BY <1>1 DEF GuardTypes
<1>3. [guard[g] EXCEPT !.pc = pc, !.at = at]
        = [guard[g] EXCEPT !.pc = pc, !.at = at, !.opened = guard[g].opened]
  BY <1>1 DEF GuardTypes
<1>4. guard' = [guard EXCEPT ![g] = [guard[g] EXCEPT !.pc = pc, !.at = at]]
  BY <1>1
<1>5. PICK opened \in SUBSET Gate!Files : opened = guard[g].opened
  BY <1>2
<1>6. guard' = [guard EXCEPT
                 ![g] = [guard[g] EXCEPT !.pc = pc, !.at = at, !.opened = opened]]
  BY <1>3, <1>4, <1>5
<1>7. GuardMoves(g, pc, at, opened)
  BY <1>6, GuardMove
<1> QED BY <1>5, <1>7

\* What the others have seen is not changed by the move of one script.
LEMMA GuardMoved ==
  ASSUME GateTypeOK, GuardsKeep, NEW g \in Guards, NEW pc, NEW at, NEW opened,
         GuardMoves(g, pc, at, opened),
         UNCHANGED <<files, patch, norm>>, Seen(guard[g].script, pc, at, opened)
  PROVE  NormTrue' /\ \A h \in Guards : GuardTrue(h)'
<1>1. NormTrue'
  BY DEF GuardsKeep, NormTrue
<1>2. \A s, q, t, o : Seen(s, q, t, o)' <=> Seen(s, q, t, o)
  BY DEF Seen, Passed
<1>3. ASSUME NEW h \in Guards PROVE GuardTrue(h)'
  <2>1. CASE h = g
    BY <1>2, <2>1 DEF GuardTrue, GuardMoves, Seen, Passed
  <2>2. CASE h # g
    <3>1. guard'[h] = guard[h]
      BY <2>2 DEF GuardMoves
    <3> QED BY <3>1 DEF GuardsKeep, GuardTrue, Seen, Passed
  <2> QED BY <2>1, <2>2
<1> QED BY <1>1, <1>3

\* A launch script that does not start the training.
LEMMA GuardOnly ==
  ASSUME GateTypeOK, GuardsKeep, NEW g \in Guards, NEW pc, NEW at, NEW opened,
         GuardMoves(g, pc, at, opened),
         UNCHANGED <<files, patch, norm, train>>, Seen(guard[g].script, pc, at, opened)
  PROVE  GateTypeOK' /\ GuardsKeep'
<1>1. GateTypeOK'
  BY DEF GateTypeOK, GuardMoves
<1>2. (\A h \in Guards : guard'[h].script = "atomic")
        => \A h \in Guards : guard[h].script = "atomic"
  BY DEF GuardMoves
<1>3. Gate!TrainsOnWhatPassed'
  BY <1>2 DEF GuardsKeep, Gate!TrainsOnWhatPassed
<1> QED BY <1>1, <1>3, GuardMoved DEF GuardsKeep

\* A launch script goes on only with what it has found in order.
LEMMA GuardSteps ==
  ASSUME GateTypeOK, GuardsKeep, NEW g \in Guards, Gate!GuardStep(g)
  PROVE  GateTypeOK' /\ GuardsKeep' /\ UNCHANGED <<files, patch>>
<1>0. 0 \in Gate!Files
  BY GateAssumption DEF Gate!Files
<1>1. UNCHANGED <<files, patch, norm>>
  BY DEF Gate!GuardStep, Gate!StartGuard, Gate!WaitForNorm, Gate!CheckStats, Gate!Preflight,
         Gate!CheckDestination, Gate!Launch, Gate!Guarding
<1>2. GuardTrue(g)
  BY DEF GuardsKeep
<1>3. CASE Gate!StartGuard(g)
  <2>1. PICK pc \in {"wait", "refused"} :
          guard' = [guard EXCEPT ![g].pc = pc, ![g].at = 0] /\ train' = train
    BY <1>3 DEF Gate!StartGuard, Gate!Goes
  <2>2. GuardMoves(g, pc, 0, guard[g].opened)
    BY <1>0, <2>1, GuardGoes
  <2>3. Seen(guard[g].script, pc, 0, guard[g].opened)
    BY DEF Seen
  <2> QED BY <1>1, <2>1, <2>2, <2>3, GuardOnly
<1>4. CASE Gate!WaitForNorm(g)
  <2>1. train' = train /\ (norm.log => norm.pc \in {"ended", "died"})
    <3>1. norm.log => norm.pc \notin {"none", "compute"}
      BY DEF GuardsKeep, NormTrue
    <3>2. norm.pc \in {"none", "compute", "announced", "writing", "ended", "died"}
      BY DEF GateTypeOK
    <3> QED BY <1>4, <3>1, <3>2 DEF Gate!WaitForNorm, Gate!NormAlive
  <2>2. PICK pc \in {"stats", "refused"} :
          /\ guard' = [guard EXCEPT ![g].pc = pc, ![g].at = 0]
          /\ pc = "stats" => norm.log
    BY <1>4 DEF Gate!WaitForNorm, Gate!Goes
  <2>3. GuardMoves(g, pc, 0, guard[g].opened)
    BY <1>0, <2>2, GuardGoes
  <2>4. Seen(guard[g].script, pc, 0, guard[g].opened)
    BY <2>1, <2>2 DEF Seen
  <2> QED BY <1>1, <2>1, <2>3, <2>4, GuardOnly
<1>5. CASE Gate!CheckStats(g)
  <2>1. guard[g].pc = "stats" /\ train' = train
    BY <1>5 DEF Gate!CheckStats, Gate!Guarding
  <2>2. PICK pc \in {"preflight", "checkpoint", "refused"} :
          /\ guard' = [guard EXCEPT ![g].pc = pc, ![g].at = 0]
          /\ pc # "refused" => norm.file \in {"old", "new"}
          /\ guard[g].script = "atomic" => pc # "checkpoint"
    BY <1>5 DEF Gate!CheckStats, Gate!Goes
  <2>3. GuardMoves(g, pc, 0, guard[g].opened)
    BY <1>0, <2>2, GuardGoes
  <2>4. norm.pc \in {"ended", "died"}
    BY <1>2, <2>1 DEF GuardTrue, Seen
  <2>5. \A e \in Gate!Files : ~ (e < 0)
    BY GateAssumption DEF Gate!Files
  <2>6. Seen(guard[g].script, pc, 0, guard[g].opened)
    BY <2>2, <2>4, <2>5 DEF Seen
  <2> QED BY <1>1, <2>1, <2>3, <2>6, GuardOnly
<1>6. CASE Gate!Preflight(g)
  <2> DEFINE at == guard[g].at
             script == guard[g].script
             opened == guard[g].opened
             ok == files.sound /\ ~ files.leftover /\ files.file[at] = "nominal"
  <2>1. guard[g].pc = "preflight" /\ train' = train
    BY <1>6 DEF Gate!Preflight, Gate!Guarding
  <2>2. Seen(script, "preflight", at, opened)
    BY <1>2, <2>1 DEF GuardTrue
  <2>3. /\ guard \in [Guards -> GuardTypes] /\ guard[g] \in GuardTypes
        /\ at \in Gate!Files /\ opened \in SUBSET Gate!Files
    BY DEF GateTypeOK, GuardTypes
  <2>4. guard' = [guard EXCEPT ![g] =
           IF ~ ok THEN [guard[g] EXCEPT !.pc = "refused"]
           ELSE IF at + 1 < NumFiles
                THEN [guard[g] EXCEPT !.at = at + 1, !.opened = opened \ {at}]
           ELSE [guard[g] EXCEPT !.pc = "checkpoint", !.at = 0, !.opened = opened \ {at}]]
    BY <1>6 DEF Gate!Preflight, Gate!InOrder
  <2>5. CASE ~ ok
    <3>1. [guard[g] EXCEPT !.pc = "refused"]
            = [guard[g] EXCEPT !.pc = "refused", !.at = at, !.opened = opened]
      BY <2>3 DEF GuardTypes
    <3>2. GuardMoves(g, "refused", at, opened)
      BY <2>3, <2>4, <2>5, <3>1, GuardMove
    <3>3. Seen(script, "refused", at, opened)
      BY DEF Seen
    <3> QED BY <1>1, <2>1, <3>2, <3>3, GuardOnly
  <2>6. CASE ok /\ at + 1 < NumFiles
    <3>1. [guard[g] EXCEPT !.at = at + 1, !.opened = opened \ {at}]
            = [guard[g] EXCEPT !.pc = "preflight", !.at = at + 1, !.opened = opened \ {at}]
      BY <2>1, <2>3 DEF GuardTypes
    <3>2. at + 1 \in Gate!Files
      BY <2>3, <2>6, GateAssumption DEF Gate!Files
    <3>3. GuardMoves(g, "preflight", at + 1, opened \ {at})
      BY <2>3, <2>4, <2>6, <3>1, <3>2, GuardMove
    <3>4. \A e \in Gate!Files : e < at + 1 => e < at \/ e = at
      BY <2>3, GateAssumption DEF Gate!Files
    <3>5. files.sound /\ files.file[at] = "nominal"
      BY <2>6
    <3>6. Seen(script, "preflight", at + 1, opened \ {at})
      BY <2>2, <3>4, <3>5 DEF Seen, Passed
    <3> QED BY <1>1, <2>1, <3>3, <3>6, GuardOnly
  <2>7. CASE ok /\ ~ (at + 1 < NumFiles)
    <3>2. GuardMoves(g, "checkpoint", 0, opened \ {at})
      BY <1>0, <2>3, <2>4, <2>7, GuardMove
    <3>3. \A e \in Gate!Files : e < at \/ e = at
      BY <2>3, <2>7, GateAssumption DEF Gate!Files
    <3>4. files.sound /\ files.file[at] = "nominal"
      BY <2>7
    <3>5. Seen(script, "checkpoint", 0, opened \ {at})
      BY <2>2, <3>3, <3>4 DEF Seen, Passed
    <3> QED BY <1>1, <2>1, <3>2, <3>5, GuardOnly
  <2> QED BY <2>5, <2>6, <2>7
<1>7. CASE Gate!CheckDestination(g)
  <2>1. guard[g].pc = "checkpoint" /\ train' = train
    BY <1>7 DEF Gate!CheckDestination, Gate!Guarding
  <2>2. PICK pc \in {"launch", "refused"} :
          guard' = [guard EXCEPT ![g].pc = pc, ![g].at = 0]
    BY <1>7 DEF Gate!CheckDestination, Gate!Goes
  <2>3. GuardMoves(g, pc, 0, guard[g].opened)
    BY <1>0, <2>2, GuardGoes
  <2>4. Seen(guard[g].script, pc, 0, guard[g].opened)
    BY <1>2, <2>1 DEF GuardTrue, Seen
  <2> QED BY <1>1, <2>1, <2>3, <2>4, GuardOnly
<1>8. CASE Gate!Launch(g)
  <2>1. guard[g].pc = "launch"
    BY <1>8 DEF Gate!Launch, Gate!Guarding
  <2>2. PICK pc \in {"started", "refused"} :
          guard' = [guard EXCEPT ![g].pc = pc, ![g].at = 0]
    BY <1>8 DEF Gate!Launch, Gate!Goes
  <2>3. GuardMoves(g, pc, 0, guard[g].opened)
    BY <1>0, <2>2, GuardGoes
  <2>4. Seen(guard[g].script, pc, 0, guard[g].opened)
    BY DEF Seen
  <2>5. CASE train' = train
    BY <1>1, <2>3, <2>4, <2>5, GuardOnly
  <2>6. CASE train' # train
    <3>1. train' = [train EXCEPT !.pc = "running", !.file = files.file, !.stats = norm.file,
                                 !.opened = guard[g].opened]
      BY <1>8, <2>6 DEF Gate!Launch
    <3>2. /\ train'.file = files.file /\ train'.stats = norm.file
          /\ train'.opened = guard[g].opened
          /\ train' = [pc |-> train'.pc, checkpoint |-> train'.checkpoint,
                       file |-> train'.file, stats |-> train'.stats, opened |-> train'.opened]
      BY <3>1 DEF GateTypeOK
    <3>3. GateTypeOK'
      BY <1>1, <2>3, <3>2 DEF GateTypeOK, GuardMoves
    <3>4. /\ norm.file = "new" \/ (norm.file = "old" /\ norm.pc = "died")
          /\ guard[g].script = "atomic" =>
               files.sound /\ \A e \in Gate!Files : Passed(guard[g].opened, e)
      BY <1>2, <2>1 DEF GuardsKeep, GuardTrue, NormTrue, Seen
    <3>5. Gate!TrainsOnWhatPassed'
      <4>1. guard'[g].script = guard[g].script
        BY <2>3 DEF GuardMoves
      <4> QED BY <1>1, <3>2, <3>4, <4>1 DEF Gate!TrainsOnWhatPassed, Passed
    <3> QED BY <1>1, <2>3, <2>4, <3>3, <3>5, GuardMoved DEF GuardsKeep
  <2> QED BY <2>5, <2>6
<1> QED BY <1>1, <1>3, <1>4, <1>5, <1>6, <1>7, <1>8 DEF Gate!GuardStep

\* The patch, the normalization, the scripts and the training in any order.
LEMMA GateInvariant == ToolSpec => []GateInv
<1>1. ToolInit => GateInv
  BY GateInits DEF ToolInit, GateInv
<1>2. GateInv /\ [ToolNext]_toolVars => GateInv'
  <2> SUFFICES ASSUME GateInv, [ToolNext]_toolVars PROVE GateInv'
    OBVIOUS
  <2>1. CASE tool' # "gate"
    BY <2>1 DEF GateInv
  <2> SUFFICES ASSUME tool' = "gate" PROVE GateInv'
    BY <2>1
  <2>2. tool = "gate"
    BY DEF ToolNext, toolVars
  <2>3. GateTypeOK /\ PatchKeeps /\ GuardsKeep
    BY <2>2 DEF GateInv
  <2>4. CASE UNCHANGED gates
    BY <2>3, <2>4 DEF gates, GateInv, GateTypeOK, PatchKeeps, AtWork, Backed, GuardsKeep,
         NormTrue, GuardTrue, Seen, Passed, Gate!TrainsOnWhatPassed
  <2>5. CASE Gate!GateNext
    <3>1. CASE \/ Gate!StartPatch \/ Gate!Preview \/ Gate!ReadEpisode \/ Gate!CopyBackup
               \/ Gate!OpenEpisode \/ Gate!WriteEpisode \/ Gate!KillPatch
      <4>1. /\ GateTypeOK' /\ PatchKeeps'
            /\ UNCHANGED <<norm, train>> /\ files'.sound = files.sound /\ GuardsStay
        BY <2>3, <3>1, PatchSteps
      <4>2. GuardsKeep'
        BY <2>3, <4>1, GuardsPatched
      <4> QED BY <4>1, <4>2 DEF GateInv
    <3>2. CASE Gate!NormRuns
      <4>1. UNCHANGED <<files, patch>>
        BY <3>2 DEF Gate!NormRuns
      <4>2. PatchKeeps'
        BY <2>3, <4>1 DEF PatchKeeps, AtWork, Backed
      <4> QED BY <2>3, <3>2, <4>2, NormSteps DEF GateInv
    <3>3. CASE Gate!TrainRuns
      <4>1. UNCHANGED <<files, patch, norm, guard>> /\ train.pc = "running"
        BY <3>3 DEF Gate!TrainRuns
      <4>2. PatchKeeps'
        BY <2>3, <4>1 DEF PatchKeeps, AtWork, Backed
      <4>3. /\ train'.file = train.file /\ train'.stats = train.stats
            /\ train'.opened = train.opened
            /\ train' = [pc |-> train'.pc, checkpoint |-> train'.checkpoint,
                         file |-> train'.file, stats |-> train'.stats,
                         opened |-> train'.opened]
        BY <2>3, <3>3 DEF Gate!TrainRuns, GateTypeOK
      <4>4. GateTypeOK'
        BY <2>3, <4>1, <4>3 DEF GateTypeOK
      <4>5. NormTrue' /\ \A g \in Guards : GuardTrue(g)'
        BY <2>3, <4>1 DEF GuardsKeep, NormTrue, GuardTrue, Seen, Passed
      <4>6. Gate!TrainsOnWhatPassed'
        BY <2>3, <4>1, <4>3 DEF GuardsKeep, Gate!TrainsOnWhatPassed
      <4> QED BY <4>2, <4>4, <4>5, <4>6 DEF GateInv, GuardsKeep
    <3>4. CASE \E g \in Guards : Gate!GuardStep(g)
      <4>1. GateTypeOK' /\ GuardsKeep' /\ UNCHANGED <<files, patch>>
        BY <2>3, <3>4, GuardSteps
      <4>2. PatchKeeps'
        BY <2>3, <4>1 DEF PatchKeeps, AtWork, Backed
      <4> QED BY <4>1, <4>2 DEF GateInv
    <3>5. CASE Gate!GateDone
      BY <2>4, <3>5 DEF Gate!GateDone, Gate!gateVars, gates
    <3> QED BY <2>5, <3>1, <3>2, <3>3, <3>4, <3>5 DEF Gate!GateNext
  <2> QED BY <2>2, <2>4, <2>5 DEF ToolNext, toolVars
<1> QED BY <1>1, <1>2, PTL DEF ToolSpec

(***************************************************************************)
(* However often the timestamps are patched, with or without copies, and   *)
(* wherever the patch dies, what an episode was recorded with is lost only *)
(* without a copy or to a death that cut the copy short; and a training    *)
(* starts on the new normalization, or the one an ended program left, and  *)
(* on the atomic path on a dataset that passed, but for what a patch has   *)
(* opened since preflight read it.  For any number of episodes, with the   *)
(* times of either recorder, of launch scripts and of runs of the patch.   *)
(***************************************************************************)
THEOREM TrainingsStartOnWhatPassed == ToolSpec => []TrainingHolds
<1>1. GateInv => TrainingHolds
  <2> SUFFICES ASSUME GateInv, tool = "gate" PROVE Gate!RecordingKept /\ Gate!TrainsOnWhatPassed
    BY DEF TrainingHolds
  <2>1. GateTypeOK /\ PatchKeeps /\ GuardsKeep
    BY DEF GateInv
  <2>2. ASSUME NEW e \in Gate!Files \ patch.bare
        PROVE  /\ \/ files.recorded[e] \in {files.file[e], files.backup[e]}
                  \/ files.backup[e] = "torn" /\ patch.deaths > 0
               /\ files.file[e] = "torn" /\ files.backup[e] = "torn" =>
                    patch.deaths > (IF patch.pc = "writing" /\ patch.at = e THEN 0 ELSE 1)
    <3>1. Backed(e)
      BY <2>1 DEF PatchKeeps
    <3> QED BY <3>1 DEF Backed
  <2> QED BY <2>1, <2>2 DEF Gate!RecordingKept, GuardsKeep
<1> QED BY <1>1, GateInvariant, PTL

-----------------------------------------------------------------------------
(* The batch collector, on a root of its own. *)

BatchShape ==
  /\ batch \in [pc : {"idle", "died", "failed", "ended", "seed", "rollout", "parquet", "video",
                      "info", "episodes", "tasks"},
                seed : Plan, cam : Camera, run : 0 .. MaxAttempt, torn : BOOLEAN]
  /\ batch.pc # "video" => batch.cam = 1
  /\ batch.pc \notin Batch!BatchStopped => batch.run \in 1 .. MaxAttempt

FileShapes ==
  /\ episodes.rows \in Seq(Save) /\ tasks \in Seq(Prompt) /\ finished \in Seq(Save)
  /\ writer \in [index : Nat, rows : Seq(Save), tasks : Seq(Prompt)]

\* No prompt has two indexes, so none changes when the vocabulary grows.
Distinct(ts) == \A j, k \in DOMAIN ts : ts[j] = ts[k] => j = k
Knows(ts, prompt) == \E k \in DOMAIN ts : ts[k] = prompt
Extends(us, ts) == \A k \in DOMAIN ts : k \in DOMAIN us /\ us[k] = ts[k]

\* Episode i is s, in every file, and its task_index is that of its prompt in ts.
ParquetKept(i, s, ts) ==
  /\ i \in DOMAIN parquet
  /\ parquet[i] = [st |-> "whole", save |-> s, task |-> TaskIndex(ts, PromptOf[s.plan])]
  /\ Knows(ts, PromptOf[s.plan])
Kept(i, s, ts) ==
  ParquetKept(i, s, ts) /\ \A cam \in Camera : VideoHolds(i, cam, s)

\* What the run has saved so far, and the episode it is saving.
SavedSoFar ==
  /\ Extends(writer.tasks, tasks) /\ Distinct(writer.tasks)
  /\ \A i \in 0 .. Len(writer.rows) - 1 : Kept(i, writer.rows[i + 1], writer.tasks)
  /\ batch.pc \in {"rollout", "parquet", "video"} =>
       writer.index = Len(writer.rows) /\ Knows(writer.tasks, PromptOf[batch.seed])
  /\ batch.pc = "video" =>
       /\ ParquetKept(writer.index, Batch!This, writer.tasks)
       /\ \A cam \in Camera : cam < batch.cam => VideoHolds(writer.index, cam, Batch!This)
  /\ batch.pc = "tasks" => episodes.rows = writer.rows

\* What earlier runs have finished lies before everything this run writes.
FinishedKept ==
  /\ episodes.rows = finished /\ Distinct(tasks)
  /\ \A i \in 0 .. Len(finished) - 1 : Kept(i, finished[i + 1], tasks)
  /\ batch.pc \notin Batch!BatchStopped => Len(finished) <= Len(writer.rows)

BatchBooks ==
  /\ FileShapes
  /\ batch.pc \notin Batch!Finalizing => FinishedKept
  /\ batch.pc \notin Batch!BatchStopped => SavedSoFar

BatchInv == BatchShape /\ (~ batch.torn => BatchBooks)

\* The batch collector writes with the definitions of the task process.
LEMMA SameWriter ==
  /\ Batch!Plan = Plan /\ Batch!Camera = Camera /\ Batch!Torn = Torn
  /\ \A s : Batch!Whole(s) = Whole(s)
  /\ \A f, k, v : Batch!Put(f, k, v) = Put(f, k, v)
  /\ \A ts, prompt : Batch!Register(ts, prompt) = Register(ts, prompt)
  /\ \A ts, prompt : Batch!TaskIndex(ts, prompt) = TaskIndex(ts, prompt)
BY DEF Batch!Plan, Plan, Batch!Camera, Camera, Batch!Torn, Torn, Batch!Whole, Whole, Batch!Put,
       Put, Batch!Register, Register, Batch!TaskIndex, TaskIndex

\* A prompt keeps its index when a vocabulary of distinct prompts is extended.
LEMMA TaskIndexKept ==
  ASSUME NEW ts, NEW us, NEW prompt, Knows(ts, prompt), Extends(us, ts), Distinct(us)
  PROVE  TaskIndex(us, prompt) = TaskIndex(ts, prompt) /\ Knows(us, prompt)
<1> DEFINE k == CHOOSE i \in DOMAIN ts : ts[i] = prompt
           j == CHOOSE i \in DOMAIN us : us[i] = prompt
<1>1. k \in DOMAIN ts /\ ts[k] = prompt
  BY DEF Knows
<1>2. k \in DOMAIN us /\ us[k] = prompt
  BY <1>1 DEF Extends
<1>3. j \in DOMAIN us /\ us[j] = prompt
  BY <1>2
<1>4. j = k
  BY <1>2, <1>3 DEF Distinct
<1> QED BY <1>2, <1>4 DEF TaskIndex, Knows

\* Registering a prompt keeps the prompts distinct.
LEMMA RegisterKeeps ==
  ASSUME NEW ts \in Seq(Prompt), NEW prompt \in Prompt, Distinct(ts)
  PROVE  /\ Register(ts, prompt) \in Seq(Prompt) /\ Distinct(Register(ts, prompt))
         /\ Extends(Register(ts, prompt), ts) /\ Knows(Register(ts, prompt), prompt)
<1>1. /\ Register(ts, prompt) \in Seq(Prompt) /\ Extends(Register(ts, prompt), ts)
      /\ Knows(Register(ts, prompt), prompt)
  BY RegisterKnows DEF Extends, Knows
<1>2. Distinct(Register(ts, prompt))
  <2>1. CASE Knows(ts, prompt)
    BY <2>1 DEF Register, Knows
  <2>2. CASE ~ Knows(ts, prompt)
    <3>1. Register(ts, prompt) = Append(ts, prompt)
      BY <2>2 DEF Register, Knows
    <3>2. /\ DOMAIN ts = 1 .. Len(ts) /\ Len(ts) \in Nat
          /\ DOMAIN Append(ts, prompt) = 1 .. Len(ts) + 1
          /\ \A k \in 1 .. Len(ts) : Append(ts, prompt)[k] = ts[k]
          /\ Append(ts, prompt)[Len(ts) + 1] = prompt
      BY LenProperties, AppendProperties
    <3> QED BY <2>2, <3>1, <3>2 DEF Distinct, Knows
  <2> QED BY <2>1, <2>2
<1> QED BY <1>1, <1>2

\* An episode that is kept stays kept under a larger vocabulary.
LEMMA KeptUnder ==
  ASSUME NEW i, NEW s, NEW ts, NEW us, Extends(us, ts), Distinct(us)
  PROVE  /\ Kept(i, s, ts) => Kept(i, s, us)
         /\ ParquetKept(i, s, ts) => ParquetKept(i, s, us)
BY TaskIndexKept DEF Kept, ParquetKept

\* Nothing but the Parquet file and one video of index n is written.
WritesAt(n) ==
  /\ parquet' = parquet \/ \E v : parquet' = Put(parquet, n, v)
  /\ videos' = videos \/ \E v, cam : videos' = Put(videos, <<n, cam>>, v)

\* An episode that is kept is not touched by a write at another index.
LEMMA KeptAside ==
  ASSUME NEW n, NEW i, NEW s, NEW ts, i # n,
         WritesAt(n)
  PROVE  /\ ParquetKept(i, s, ts) => ParquetKept(i, s, ts)'
         /\ Kept(i, s, ts) => Kept(i, s, ts)'
<1>1. ParquetKept(i, s, ts) => ParquetKept(i, s, ts)'
  BY DEF ParquetKept, Put, WritesAt
<1>2. \A cam \in Camera : VideoHolds(i, cam, s) => VideoHolds(i, cam, s)'
  BY DEF VideoHolds, Put, WritesAt
<1> QED BY <1>1, <1>2 DEF Kept

\* After a seed comes the next one, or the finalization.
LEMMA SeedEnds ==
  ASSUME BatchShape, Batch!NextSeed
  PROVE  batch'.pc \in {"seed", "info"}
<1>1. PICK next : next = batch.seed + 1
  OBVIOUS
<1>2. \/ batch' = [batch EXCEPT !.pc = "seed", !.seed = next, !.cam = 1]
      \/ batch' = [batch EXCEPT !.pc = "info", !.cam = 1]
  BY <1>1 DEF Batch!NextSeed
<1> QED BY <1>2 DEF BatchShape

\* Every action keeps the shape of the process, and a dataset once torn stays so.
LEMMA BatchMoves ==
  ASSUME BatchShape, Batch!BatchNext
  PROVE  BatchShape' /\ (batch.torn => batch'.torn)
<1> USE SameWriter, WriterAssumption DEF Batch!BatchStopped, Batch!Finalizing, Batch!To
<1> DEFINE Pcs == {"idle", "died", "failed", "ended", "seed", "rollout", "parquet", "video",
                   "info", "episodes", "tasks"}
           Shape == [pc : Pcs, seed : Plan, cam : Camera, run : 0 .. MaxAttempt,
                     torn : BOOLEAN]
<1>0. 0 \in Plan /\ 1 \in Camera
  BY DEF Plan, Camera
<1>1. batch \in Shape
  BY DEF BatchShape
<1>2. ASSUME NEW pc \in Pcs, batch' = [batch EXCEPT !.pc = pc]
      PROVE  /\ batch' \in Shape /\ batch'.pc = pc
             /\ UNCHANGED <<batch.seed, batch.run, batch.cam, batch.torn>>
  BY <1>1, <1>2
<1>3. ASSUME Batch!NextSeed
      PROVE  /\ batch' \in Shape /\ batch'.pc \in {"seed", "info"} /\ batch'.cam = 1
             /\ UNCHANGED <<batch.run, batch.torn>>
  <2>1. PICK next : next = batch.seed + 1
    OBVIOUS
  <2>2. CASE next \in Plan
    <3>1. batch' = [batch EXCEPT !.pc = "seed", !.seed = next, !.cam = 1]
      BY <1>3, <2>1, <2>2 DEF Batch!NextSeed
    <3> QED BY <1>0, <1>1, <2>2, <3>1
  <2>3. CASE next \notin Plan
    <3>1. batch' = [batch EXCEPT !.pc = "info", !.cam = 1]
      BY <1>3, <2>1, <2>3 DEF Batch!NextSeed
    <3> QED BY <1>0, <1>1, <3>1
  <2> QED BY <2>2, <2>3
<1>4. CASE Batch!OpenRoot
  <2>1. PICK run : run = batch.run + 1
    OBVIOUS
  <2>2. /\ batch.pc \in Batch!BatchStopped /\ batch.run < MaxAttempt
        /\ \/ batch' = [batch EXCEPT !.pc = "failed", !.run = run]
           \/ batch' = [batch EXCEPT !.pc = "seed", !.seed = 0, !.run = run]
    BY <1>4, <2>1 DEF Batch!OpenRoot
  <2>3. run \in 1 .. MaxAttempt /\ run \in 0 .. MaxAttempt
    <3>1. batch.run \in 0 .. MaxAttempt
      BY <1>1
    <3> QED BY <2>1, <2>2, <3>1
  <2>4. batch.cam = 1
    BY <2>2 DEF BatchShape
  <2>5. /\ batch' \in Shape /\ batch'.pc \in {"failed", "seed"} /\ batch'.cam = 1
        /\ batch'.run = run /\ batch'.torn = batch.torn
    BY <1>0, <1>1, <2>2, <2>3, <2>4
  <2> QED BY <2>2, <2>3, <2>5 DEF BatchShape
<1>5. CASE Batch!NewEpisode
  <2>1. batch.pc = "seed" /\ batch' = [batch EXCEPT !.pc = "rollout"]
    BY <1>5 DEF Batch!NewEpisode
  <2> QED BY <1>2, <2>1 DEF BatchShape
<1>6. CASE Batch!RolloutOfSeed
  <2>1. /\ batch.pc = "rollout"
        /\ batch' = [batch EXCEPT !.pc = "parquet"] \/ Batch!NextSeed
    BY <1>6 DEF Batch!RolloutOfSeed
  <2>2. CASE batch' = [batch EXCEPT !.pc = "parquet"]
    BY <1>2, <2>1, <2>2 DEF BatchShape
  <2>3. CASE Batch!NextSeed
    BY <1>3, <2>1, <2>3 DEF BatchShape
  <2> QED BY <2>1, <2>2, <2>3
<1>7. CASE Batch!SaveSeedParquet
  <2>1. batch.pc = "parquet" /\ batch' = [batch EXCEPT !.pc = "video"]
    BY <1>7 DEF Batch!SaveSeedParquet
  <2> QED BY <1>2, <2>1 DEF BatchShape
<1>8. CASE Batch!SaveSeedVideo
  <2>1. batch.pc = "video"
    BY <1>8 DEF Batch!SaveSeedVideo
  <2>2. CASE batch.cam = NumCameras
    <3>1. Batch!NextSeed
      BY <1>8, <2>2 DEF Batch!SaveSeedVideo
    <3> QED BY <1>3, <2>1, <3>1 DEF BatchShape
  <2>3. CASE batch.cam # NumCameras
    <3>1. PICK cam : cam = batch.cam + 1
      OBVIOUS
    <3>2. batch' = [batch EXCEPT !.cam = cam]
      BY <1>8, <2>3, <3>1 DEF Batch!SaveSeedVideo
    <3>3. cam \in Camera
      <4>1. batch.cam \in 1 .. NumCameras
        BY <1>1 DEF Camera
      <4> QED BY <2>3, <3>1, <4>1 DEF Camera
    <3>4. /\ batch' \in Shape /\ batch'.pc = "video" /\ batch'.cam = cam
          /\ UNCHANGED <<batch.seed, batch.run, batch.torn>>
      BY <1>1, <2>1, <3>2, <3>3
    <3> QED BY <2>1, <3>1, <3>4 DEF BatchShape
  <2> QED BY <2>2, <2>3
<1>9. CASE Batch!FinalizeBatch
  <2>1. \/ batch.pc = "info" /\ batch' = [batch EXCEPT !.pc = "episodes"]
        \/ batch.pc = "episodes" /\ batch' = [batch EXCEPT !.pc = "tasks"]
        \/ batch.pc = "tasks" /\ batch' = [batch EXCEPT !.pc = "ended"]
    BY <1>9 DEF Batch!FinalizeBatch
  <2> QED BY <1>2, <2>1 DEF BatchShape
<1>10. CASE Batch!BatchDies
  <2>1. /\ batch.pc \notin Batch!BatchStopped
        /\ batch' = [batch EXCEPT !.pc = "died", !.cam = 1,
                            !.torn = batch.torn \/ batch.pc \in Batch!Finalizing]
    BY <1>10 DEF Batch!BatchDies
  <2>2. /\ batch' \in Shape /\ batch'.pc = "died" /\ batch'.cam = 1
        /\ batch'.torn = (batch.torn \/ batch.pc \in Batch!Finalizing)
    BY <1>0, <1>1, <2>1
  <2> QED BY <2>1, <2>2 DEF BatchShape
<1>11. CASE Batch!BatchDone
  <2>1. batch.pc \in Batch!BatchStopped /\ batch' = batch
    BY <1>11 DEF Batch!BatchDone, Batch!batchVars
  <2> QED BY <2>1 DEF BatchShape
<1> QED BY <1>4, <1>5, <1>6, <1>7, <1>8, <1>9, <1>10, <1>11 DEF Batch!BatchNext
\* A run starts from what the files hold, or fails to.
LEMMA OpenKeeps ==
  ASSUME BatchShape, BatchBooks, Batch!OpenRoot
  PROVE  BatchBooks'
<1> USE SameWriter DEF Batch!BatchStopped, Batch!Finalizing
<1>1. /\ batch.pc \in Batch!BatchStopped /\ FileShapes /\ FinishedKept
      /\ UNCHANGED <<info, episodes, tasks, parquet, videos, finished>>
  BY DEF BatchBooks, Batch!OpenRoot, Batch!datasetVars
<1>2. batch \in [pc : {"idle", "died", "failed", "ended", "seed", "rollout", "parquet", "video",
                       "info", "episodes", "tasks"},
                 seed : Plan, cam : Camera, run : 0 .. MaxAttempt, torn : BOOLEAN]
  BY DEF BatchShape
<1>3. \A i \in 0 .. Len(finished) - 1 : Kept(i, finished[i + 1], tasks)'
  BY <1>1 DEF FinishedKept, Kept, ParquetKept, VideoHolds
<1>4. CASE batch'.pc = "failed" /\ writer' = writer
  BY <1>1, <1>3, <1>4 DEF BatchBooks, FileShapes, FinishedKept
<1>5. CASE batch'.pc # "failed"
  <2>1. /\ batch'.pc = "seed"
        /\ writer' = [index |-> Len(episodes.rows), rows |-> episodes.rows, tasks |-> tasks]
    <3>1. PICK run : run = batch.run + 1
      OBVIOUS
    <3>2. CASE Batch!LoadFails
      <4>1. batch' = [batch EXCEPT !.pc = "failed", !.run = run]
        BY <1>5, <3>1, <3>2 DEF Batch!OpenRoot
      <4> QED BY <1>2, <1>5, <4>1
    <3>3. CASE ~ Batch!LoadFails
      <4>1. /\ batch' = [batch EXCEPT !.pc = "seed", !.seed = 0, !.run = run]
            /\ writer' = [index |-> Len(episodes.rows), rows |-> episodes.rows, tasks |-> tasks]
        BY <3>1, <3>3 DEF Batch!OpenRoot
      <4> QED BY <1>2, <4>1
    <3> QED BY <3>2, <3>3
  <2>2. writer' \in [index : Nat, rows : Seq(Save), tasks : Seq(Prompt)]
    <3>1. episodes.rows \in Seq(Save) /\ tasks \in Seq(Prompt)
      BY <1>1 DEF FileShapes
    <3> QED BY <2>1, <3>1, LenProperties
  <2>3. FileShapes' /\ FinishedKept'
    <3>1. Len(finished) \in Nat /\ Len(finished) <= Len(finished)
      BY <1>1, LenProperties DEF FileShapes
    <3> QED BY <1>1, <1>3, <2>1, <2>2, <3>1 DEF FileShapes, FinishedKept
  <2>4. SavedSoFar'
    <3>1. /\ writer'.rows = finished /\ finished' = finished
          /\ writer'.tasks = tasks /\ tasks' = tasks
      BY <1>1, <2>1 DEF FinishedKept
    <3>2. Extends(writer'.tasks, tasks') /\ Distinct(writer'.tasks)
      BY <1>1, <3>1 DEF Extends, FinishedKept
    <3>3. \A i \in 0 .. Len(writer'.rows) - 1 : Kept(i, writer.rows[i + 1], writer.tasks)'
      BY <1>3, <3>1
    <3> QED BY <2>1, <3>2, <3>3 DEF SavedSoFar
  <2> QED BY <2>1, <2>3, <2>4 DEF BatchBooks
<1>6. batch'.pc = "failed" => writer' = writer
  BY <1>2 DEF Batch!OpenRoot
<1> QED BY <1>4, <1>5, <1>6

\* A seed registers its prompt and takes the index after the episodes saved.
LEMMA EpisodeKeeps ==
  ASSUME BatchShape, BatchBooks, Batch!NewEpisode
  PROVE  BatchBooks'
<1> USE SameWriter DEF Batch!BatchStopped, Batch!Finalizing
<1> DEFINE us == Register(writer.tasks, PromptOf[batch.seed])
<1>1. /\ FileShapes /\ FinishedKept /\ SavedSoFar /\ batch.pc = "seed" /\ batch.seed \in Plan
      /\ UNCHANGED <<info, episodes, tasks, parquet, videos, finished>>
  BY DEF BatchBooks, BatchShape, Batch!NewEpisode, Batch!datasetVars
<1>2. batch'.pc = "rollout" /\ batch'.seed = batch.seed
  <2>1. batch' = [batch EXCEPT !.pc = "rollout"]
    BY DEF Batch!NewEpisode, Batch!To
  <2> QED BY <2>1 DEF BatchShape
<1>3. /\ writer.rows \in Seq(Save) /\ Len(writer.rows) \in Nat /\ writer.tasks \in Seq(Prompt)
      /\ PromptOf[batch.seed] \in Prompt
  BY <1>1, LenProperties DEF FileShapes, Prompt
<1>4. us \in Seq(Prompt) /\ Distinct(us) /\ Extends(us, writer.tasks) /\ Knows(us, PromptOf[batch.seed])
  BY <1>1, <1>3, RegisterKeeps DEF SavedSoFar
<1>5. writer' = [writer EXCEPT !.index = Len(writer.rows), !.tasks = us]
  BY DEF Batch!NewEpisode, Batch!NewIndex
<1> HIDE DEF us
<1>6. writer' = [index |-> Len(writer.rows), rows |-> writer.rows, tasks |-> us]
  BY <1>1, <1>5 DEF FileShapes
<1>7. FileShapes'
  BY <1>1, <1>3, <1>4, <1>6 DEF FileShapes
<1>8. FinishedKept'
  <2>1. \A i \in 0 .. Len(finished) - 1 : Kept(i, finished[i + 1], tasks)'
    BY <1>1 DEF FinishedKept, Kept, ParquetKept, VideoHolds
  <2> QED BY <1>1, <1>6, <2>1 DEF FinishedKept
<1>9. SavedSoFar'
  <2>1. Extends(writer.tasks, tasks)' /\ Distinct(writer.tasks)'
    <3>1. Extends(us, tasks)
      BY <1>1, <1>4 DEF Extends, SavedSoFar
    <3> QED BY <1>1, <1>4, <1>6, <3>1 DEF Extends, Distinct
  <2>2. \A i \in 0 .. Len(writer.rows) - 1 : Kept(i, writer.rows[i + 1], us)
    BY <1>1, <1>4, KeptUnder DEF SavedSoFar
  <2>3. \A i \in 0 .. Len(writer'.rows) - 1 : Kept(i, writer.rows[i + 1], writer.tasks)'
    BY <1>1, <1>6, <2>2 DEF Kept, ParquetKept, VideoHolds
  <2>4. writer'.index = Len(writer'.rows) /\ Knows(writer'.tasks, PromptOf[batch'.seed])
    BY <1>2, <1>4, <1>6
  <2> QED BY <1>2, <2>1, <2>3, <2>4 DEF SavedSoFar
<1> QED BY <1>2, <1>7, <1>8, <1>9 DEF BatchBooks

\* A rollout writes nothing.
LEMMA RolloutKeeps ==
  ASSUME BatchShape, BatchBooks, Batch!RolloutOfSeed
  PROVE  BatchBooks'
<1> USE SameWriter DEF Batch!BatchStopped, Batch!Finalizing
<1>1. /\ FileShapes /\ FinishedKept /\ SavedSoFar /\ batch.pc = "rollout"
      /\ UNCHANGED <<info, episodes, tasks, parquet, videos, finished, writer>>
  BY DEF BatchBooks, Batch!RolloutOfSeed, Batch!datasetVars
<1>2. \/ batch'.pc = "parquet" /\ batch'.seed = batch.seed
      \/ batch'.pc \in {"seed", "info"}
  <2>1. CASE batch' = [batch EXCEPT !.pc = "parquet"]
    BY <2>1 DEF BatchShape
  <2>2. CASE Batch!NextSeed
    BY <2>2, SeedEnds
  <2> QED BY <2>1, <2>2 DEF Batch!RolloutOfSeed, Batch!To
<1>3. \A i \in 0 .. Len(finished) - 1 : Kept(i, finished[i + 1], tasks)'
  BY <1>1 DEF FinishedKept, Kept, ParquetKept, VideoHolds
<1>4. \A i \in 0 .. Len(writer.rows) - 1 : Kept(i, writer.rows[i + 1], writer.tasks)'
  BY <1>1 DEF SavedSoFar, Kept, ParquetKept, VideoHolds
<1>5. FileShapes' /\ FinishedKept'
  BY <1>1, <1>3 DEF FileShapes, FinishedKept
<1>6. SavedSoFar'
  BY <1>1, <1>2, <1>4 DEF SavedSoFar
<1> QED BY <1>2, <1>5, <1>6 DEF BatchBooks

\* A write at the index after the saved episodes touches none of them.
LEMMA EarlierKept ==
  ASSUME FileShapes, FinishedKept, SavedSoFar, Len(finished) <= Len(writer.rows),
         UNCHANGED <<tasks, finished>>, NEW n, n = Len(writer.rows),
         WritesAt(n)
  PROVE  /\ \A i \in 0 .. Len(finished) - 1 : Kept(i, finished[i + 1], tasks)'
         /\ \A e, ts : ts = writer.tasks => \A i \in 0 .. n - 1 :
              e = writer.rows[i + 1] => Kept(i, e, ts)'
<1>1. Len(finished) \in Nat /\ Len(writer.rows) \in Nat
  BY LenProperties DEF FileShapes
<1>2. \A i \in 0 .. Len(finished) - 1 : Kept(i, finished[i + 1], tasks)'
  <2> SUFFICES ASSUME NEW i \in 0 .. Len(finished) - 1
               PROVE  Kept(i, finished[i + 1], tasks)'
    OBVIOUS
  <2>1. PICK e, us : e = finished[i + 1] /\ us = tasks
    OBVIOUS
  <2>2. Kept(i, e, us) /\ i # n
    BY <1>1, <2>1 DEF FinishedKept
  <2>3. Kept(i, e, us)'
    BY <2>2, KeptAside
  <2> QED BY <2>1, <2>3
<1>3. ASSUME NEW e, NEW ts, ts = writer.tasks, NEW i \in 0 .. n - 1, e = writer.rows[i + 1]
      PROVE  Kept(i, e, ts)'
  <2>1. Kept(i, e, ts) /\ i # n
    BY <1>1, <1>3 DEF SavedSoFar
  <2> QED BY <2>1, KeptAside
<1> QED BY <1>2, <1>3

\* The Parquet file of an episode goes beside those of the episodes saved before.
LEMMA ParquetKeeps ==
  ASSUME BatchShape, BatchBooks, Batch!SaveSeedParquet
  PROVE  BatchBooks'
<1> USE SameWriter DEF Batch!BatchStopped, Batch!Finalizing
<1>1. /\ FileShapes /\ FinishedKept /\ SavedSoFar /\ batch.pc = "parquet"
      /\ writer.index = Len(writer.rows) /\ Knows(writer.tasks, PromptOf[batch.seed])
      /\ UNCHANGED <<episodes, tasks, videos, finished, writer>>
  BY DEF BatchBooks, Batch!SaveSeedParquet, Batch!WriteParquet, SavedSoFar
<1>2. /\ batch'.pc = "video" /\ batch'.seed = batch.seed /\ batch'.run = batch.run
      /\ batch'.cam = 1
  <2>1. batch' = [batch EXCEPT !.pc = "video"] /\ batch.cam = 1
    BY <1>1 DEF Batch!SaveSeedParquet, Batch!To, BatchShape
  <2> QED BY <2>1 DEF BatchShape
<1>3. PICK n, s, ts : n = writer.index /\ s = Batch!This /\ ts = writer.tasks
  OBVIOUS
<1>4. s.plan = batch.seed /\ Batch!This' = s
  BY <1>2, <1>3 DEF Batch!This
<1>5. parquet' = Put(parquet, n, [st |-> "whole", save |-> s,
                                  task |-> TaskIndex(ts, PromptOf[s.plan])])
  BY <1>3 DEF Batch!SaveSeedParquet, Batch!WriteParquet
<1>6. /\ Len(finished) \in Nat /\ Len(writer.rows) \in Nat
      /\ Len(finished) <= Len(writer.rows) /\ n = Len(writer.rows)
  BY <1>1, <1>3, LenProperties DEF FileShapes, FinishedKept
<1>7. /\ \A i \in 0 .. Len(finished) - 1 : Kept(i, finished[i + 1], tasks)'
      /\ \A e : \A i \in 0 .. n - 1 : e = writer.rows[i + 1] => Kept(i, e, ts)'
  BY <1>1, <1>3, <1>5, <1>6, EarlierKept DEF WritesAt
<1>8. \A i \in 0 .. Len(writer.rows) - 1 : Kept(i, writer.rows[i + 1], writer.tasks)'
  <2> SUFFICES ASSUME NEW i \in 0 .. Len(writer.rows) - 1
               PROVE  Kept(i, writer.rows[i + 1], writer.tasks)'
    BY <1>1
  <2>1. PICK e : e = writer.rows[i + 1]
    OBVIOUS
  <2>2. Kept(i, e, ts)'
    BY <1>6, <1>7, <2>1
  <2> QED BY <1>1, <1>3, <2>1, <2>2
<1>9. ParquetKept(writer.index, Batch!This, writer.tasks)'
  <2>1. ParquetKept(n, s, ts)'
    BY <1>1, <1>3, <1>4, <1>5 DEF ParquetKept, Put
  <2> QED BY <1>1, <1>3, <1>4, <2>1
<1>10. FileShapes' /\ FinishedKept'
  BY <1>1, <1>7 DEF FileShapes, FinishedKept
<1>11. SavedSoFar'
  <2>1. \A cam \in Camera : ~ cam < batch'.cam
    BY <1>2 DEF Camera
  <2> QED BY <1>1, <1>2, <1>8, <1>9, <2>1 DEF SavedSoFar
<1> QED BY <1>2, <1>10, <1>11 DEF BatchBooks

\* So do its videos; the row is appended with the last of them.
LEMMA VideoKeeps ==
  ASSUME BatchShape, BatchBooks, Batch!SaveSeedVideo
  PROVE  BatchBooks'
<1> USE SameWriter DEF Batch!BatchStopped, Batch!Finalizing
<1>1. /\ FileShapes /\ FinishedKept /\ SavedSoFar /\ batch.pc = "video"
      /\ writer.index = Len(writer.rows) /\ Knows(writer.tasks, PromptOf[batch.seed])
      /\ UNCHANGED <<episodes, tasks, parquet, finished>>
  BY DEF BatchBooks, Batch!SaveSeedVideo, Batch!WriteVideo, SavedSoFar
<1>2. PICK n, s, ts, cam : /\ n = writer.index /\ s = Batch!This /\ ts = writer.tasks
                           /\ cam = batch.cam
  OBVIOUS
<1>3. /\ s \in Save /\ s.plan = batch.seed /\ cam \in Camera
  BY <1>1, <1>2 DEF Batch!This, BatchShape, Save, Batch!BatchStopped
<1>4. /\ videos' = Put(videos, <<n, cam>>, Whole(s))
      /\ writer' = IF cam = NumCameras THEN [writer EXCEPT !.rows = Append(writer.rows, s)]
                   ELSE writer
  BY <1>2 DEF Batch!SaveSeedVideo, Batch!WriteVideo
<1>5. /\ Len(finished) \in Nat /\ Len(writer.rows) \in Nat
      /\ Len(finished) <= Len(writer.rows) /\ n = Len(writer.rows)
  BY <1>1, <1>2, LenProperties DEF FileShapes, FinishedKept
<1>6. /\ \A i \in 0 .. Len(finished) - 1 : Kept(i, finished[i + 1], tasks)'
      /\ \A e : \A i \in 0 .. n - 1 : e = writer.rows[i + 1] => Kept(i, e, ts)'
  BY <1>1, <1>2, <1>4, <1>5, EarlierKept DEF WritesAt
<1>7. /\ ParquetKept(n, s, ts)'
      /\ \A c \in Camera : c <= cam => VideoHolds(n, c, s)'
  <2>1. ParquetKept(n, s, ts)'
    BY <1>1, <1>2 DEF SavedSoFar, ParquetKept
  <2>2. ASSUME NEW c \in Camera, c <= cam PROVE VideoHolds(n, c, s)'
    <3>1. CASE c = cam
      BY <1>4, <3>1 DEF VideoHolds, Put
    <3>2. CASE c # cam
      <4>1. c < cam
        BY <1>3, <2>2, <3>2 DEF Camera
      <4>2. VideoHolds(n, c, s)
        BY <1>1, <1>2, <4>1 DEF SavedSoFar
      <4> QED BY <1>4, <4>2 DEF VideoHolds, Put
    <3> QED BY <3>1, <3>2
  <2> QED BY <2>1, <2>2
<1>8. CASE cam = NumCameras
  <2>1. batch'.pc \in {"seed", "info"}
    BY <1>2, <1>8, SeedEnds DEF Batch!SaveSeedVideo
  <2>2. writer' = [index |-> n, rows |-> Append(writer.rows, s), tasks |-> ts]
    BY <1>1, <1>2, <1>4, <1>8 DEF FileShapes
  <2>3. /\ Append(writer.rows, s) \in Seq(Save) /\ Len(Append(writer.rows, s)) = n + 1
        /\ Append(writer.rows, s)[n + 1] = s
        /\ \A i \in 0 .. n - 1 : Append(writer.rows, s)[i + 1] = writer.rows[i + 1]
    BY <1>1, <1>3, <1>5, AppendProperties DEF FileShapes
  <2>4. FileShapes' /\ FinishedKept'
    BY <1>1, <1>2, <1>5, <1>6, <2>2, <2>3 DEF FileShapes, FinishedKept
  <2>5. Kept(n, s, ts)'
    <3>1. \A c \in Camera : c <= cam
      BY <1>8 DEF Camera
    <3> QED BY <1>7, <3>1 DEF Kept
  <2>6. \A i \in 0 .. Len(writer'.rows) - 1 : Kept(i, writer.rows[i + 1], writer.tasks)'
    <3> SUFFICES ASSUME NEW i \in 0 .. Len(writer'.rows) - 1
                 PROVE  Kept(i, writer.rows[i + 1], writer.tasks)'
      OBVIOUS
    <3>1. PICK e : e = writer'.rows[i + 1]
      OBVIOUS
    <3>2. CASE i = n
      BY <2>2, <2>3, <2>5, <3>1, <3>2
    <3>3. CASE i # n
      <4>1. i \in 0 .. n - 1
        BY <1>5, <2>2, <2>3, <3>3
      <4>2. e = writer.rows[i + 1]
        BY <2>2, <2>3, <3>1, <4>1
      <4>3. Kept(i, e, ts)'
        BY <1>6, <4>1, <4>2
      <4> QED BY <2>2, <3>1, <4>3
    <3> QED BY <3>2, <3>3
  <2>7. SavedSoFar'
    <3>1. Extends(writer.tasks, tasks)' /\ Distinct(writer.tasks)'
      BY <1>1, <1>2, <2>2 DEF SavedSoFar, Extends, Distinct
    <3> QED BY <2>1, <2>6, <3>1 DEF SavedSoFar
  <2> QED BY <2>1, <2>4, <2>7 DEF BatchBooks
<1>9. CASE cam # NumCameras
  <2>1. PICK next : next = cam + 1
    OBVIOUS
  <2>2. batch' = [batch EXCEPT !.cam = next] /\ writer' = writer
    BY <1>2, <1>4, <1>9, <2>1 DEF Batch!SaveSeedVideo
  <2>3. /\ batch'.pc = "video" /\ batch'.seed = batch.seed /\ batch'.run = batch.run
        /\ batch'.cam = next
    BY <1>1, <2>2 DEF BatchShape
  <2>4. Batch!This' = s
    BY <1>2, <2>3 DEF Batch!This
  <2>5. FileShapes' /\ FinishedKept'
    BY <1>1, <1>6, <2>2 DEF FileShapes, FinishedKept
  <2>6. \A i \in 0 .. Len(writer.rows) - 1 : Kept(i, writer.rows[i + 1], writer.tasks)'
    <3> SUFFICES ASSUME NEW i \in 0 .. Len(writer.rows) - 1
                 PROVE  Kept(i, writer.rows[i + 1], writer.tasks)'
      OBVIOUS
    <3>1. PICK e : e = writer.rows[i + 1]
      OBVIOUS
    <3>2. Kept(i, e, ts)'
      BY <1>5, <1>6, <3>1
    <3> QED BY <1>2, <2>2, <3>1, <3>2
  <2>7. ParquetKept(writer.index, Batch!This, writer.tasks)'
    BY <1>2, <1>7, <2>2, <2>4
  <2>8. \A c \in Camera : c < batch'.cam => VideoHolds(writer.index, c, Batch!This)'
    <3>1. \A c \in Camera : c < next => c <= cam
      BY <1>3, <2>1 DEF Camera
    <3> QED BY <1>2, <1>7, <2>2, <2>3, <2>4, <3>1
  <2>9. SavedSoFar'
    BY <1>1, <2>2, <2>3, <2>6, <2>7, <2>8 DEF SavedSoFar
  <2> QED BY <2>3, <2>5, <2>9 DEF BatchBooks
<1> QED BY <1>8, <1>9

\* A finalization makes the files say what the writer holds.
LEMMA FinalizeKeeps ==
  ASSUME BatchShape, BatchBooks, Batch!FinalizeBatch
  PROVE  BatchBooks'
<1> USE SameWriter DEF Batch!BatchStopped, Batch!Finalizing
<1>1. /\ batch.pc \in {"info", "episodes", "tasks"} /\ FileShapes /\ SavedSoFar
      /\ UNCHANGED <<parquet, videos, writer>>
  BY DEF BatchBooks, Batch!FinalizeBatch, Batch!WriteInfo, Batch!WriteEpisodes, Batch!WriteTasks
<1>2. \A i \in 0 .. Len(writer.rows) - 1 : Kept(i, writer.rows[i + 1], writer.tasks)'
  BY <1>1 DEF SavedSoFar, Kept, ParquetKept, VideoHolds
<1>3. CASE batch.pc = "info"
  <2>1. batch' = [batch EXCEPT !.pc = "episodes"] /\ UNCHANGED <<episodes, tasks, finished>>
    BY <1>3 DEF Batch!FinalizeBatch, Batch!WriteInfo, Batch!To
  <2>2. batch'.pc = "episodes"
    BY <2>1 DEF BatchShape
  <2>3. FileShapes' /\ SavedSoFar'
    BY <1>1, <1>2, <2>1, <2>2 DEF FileShapes, SavedSoFar
  <2> QED BY <2>2, <2>3 DEF BatchBooks
<1>4. CASE batch.pc = "episodes"
  <2>1. /\ batch' = [batch EXCEPT !.pc = "tasks"] /\ UNCHANGED <<tasks, finished>>
        /\ episodes'.rows = writer.rows
    BY <1>4 DEF Batch!FinalizeBatch, Batch!WriteEpisodes, Batch!To
  <2>2. batch'.pc = "tasks"
    BY <2>1 DEF BatchShape
  <2>3. FileShapes' /\ SavedSoFar'
    BY <1>1, <1>2, <2>1, <2>2 DEF FileShapes, SavedSoFar
  <2> QED BY <2>2, <2>3 DEF BatchBooks
<1>5. CASE batch.pc = "tasks"
  <2>1. /\ batch' = [batch EXCEPT !.pc = "ended"] /\ UNCHANGED episodes
        /\ tasks' = writer.tasks /\ finished' = writer.rows
    BY <1>5 DEF Batch!FinalizeBatch, Batch!WriteTasks, Batch!To
  <2>2. batch'.pc = "ended"
    BY <2>1 DEF BatchShape
  <2>3. FileShapes'
    BY <1>1, <2>1 DEF FileShapes
  <2>4. FinishedKept'
    <3>1. episodes'.rows = finished' /\ Distinct(tasks)'
      BY <1>1, <1>5, <2>1 DEF SavedSoFar, Distinct
    <3>2. \A i \in 0 .. Len(finished') - 1 : Kept(i, finished[i + 1], tasks)'
      BY <1>1, <1>2, <2>1
    <3> QED BY <2>2, <3>1, <3>2 DEF FinishedKept
  <2> QED BY <2>2, <2>3, <2>4 DEF BatchBooks
<1> QED BY <1>1, <1>3, <1>4, <1>5

\* A run that dies before its finalization loses nothing but its own episodes.
LEMMA DeathKeeps ==
  ASSUME BatchShape, BatchBooks, Batch!BatchDies, ~ batch'.torn
  PROVE  BatchBooks'
<1> USE SameWriter DEF Batch!BatchStopped, Batch!Finalizing
<1>1. batch'.pc = "died" /\ batch.pc \in {"seed", "rollout", "parquet", "video"}
  <2>1. /\ batch' = [batch EXCEPT !.pc = "died", !.cam = 1,
                            !.torn = batch.torn \/ batch.pc \in Batch!Finalizing]
        /\ batch.pc \notin Batch!BatchStopped
    BY DEF Batch!BatchDies
  <2>2. batch'.pc = "died" /\ batch'.torn = (batch.torn \/ batch.pc \in Batch!Finalizing)
    BY <2>1 DEF BatchShape
  <2> QED BY <2>1, <2>2 DEF BatchShape
<1>2. FileShapes /\ FinishedKept /\ SavedSoFar
  BY <1>1 DEF BatchBooks
<1>3. /\ Len(finished) \in Nat /\ Len(writer.rows) \in Nat /\ Len(finished) <= Len(writer.rows)
  BY <1>1, <1>2, LenProperties DEF FileShapes, FinishedKept
<1>4. PICK n : n = Len(writer.rows)
  OBVIOUS
<1>5. WritesAt(n) /\ UNCHANGED <<episodes, tasks, writer, finished>>
  <2>1. CASE batch.pc = "parquet"
    <3>1. n = writer.index
      BY <1>2, <1>4, <2>1 DEF SavedSoFar
    <3>2. Batch!TornParquet /\ UNCHANGED finished
      BY <2>1 DEF Batch!BatchDies
    <3> QED BY <3>1, <3>2 DEF Batch!TornParquet, WritesAt
  <2>2. CASE batch.pc = "video"
    <3>1. n = writer.index
      BY <1>2, <1>4, <2>2 DEF SavedSoFar
    <3>2. Batch!TornVideo(batch.cam) /\ UNCHANGED finished
      BY <2>2 DEF Batch!BatchDies
    <3> QED BY <3>1, <3>2 DEF Batch!TornVideo, WritesAt
  <2>3. CASE batch.pc \in {"seed", "rollout"}
    BY <2>3 DEF Batch!BatchDies, Batch!datasetVars, WritesAt
  <2> QED BY <1>1, <2>1, <2>2, <2>3
<1>6. \A i \in 0 .. Len(finished) - 1 : Kept(i, finished[i + 1], tasks)'
  BY <1>2, <1>3, <1>4, <1>5, EarlierKept
<1>7. FileShapes' /\ FinishedKept'
  BY <1>1, <1>2, <1>5, <1>6 DEF FileShapes, FinishedKept
<1> QED BY <1>1, <1>7 DEF BatchBooks

\* Nothing written, nothing changed.
LEMMA BatchSame ==
  ASSUME BatchBooks, UNCHANGED <<batch, finished, episodes, tasks, parquet, videos, writer>>
  PROVE  BatchBooks'
BY DEF BatchBooks, FileShapes, FinishedKept, SavedSoFar, Kept, ParquetKept, VideoHolds,
       Batch!This

\* The invariant of the batch collector, while it is the tool in use.
LEMMA BatchInvariant == ToolSpec => [](tool = "batch" => BatchInv)
<1> USE SameWriter DEF Batch!BatchStopped, Batch!Finalizing
<1>1. ToolInit => (tool = "batch" => BatchInv)
  <2> SUFFICES ASSUME ToolInit PROVE BatchInv
    OBVIOUS
  <2>1. /\ batch = [pc |-> "idle", seed |-> 0, cam |-> 1, run |-> 0, torn |-> FALSE]
        /\ finished = << >>
    BY DEF ToolInit, Batch!BatchInit
  <2>2. /\ episodes.rows = << >> /\ tasks = << >>
        /\ writer = [index |-> 0, rows |-> << >>, tasks |-> << >>]
    BY DEF ToolInit, Init, DatasetInit, NoRows
  <2>3. BatchShape
    BY <2>1, WriterAssumption DEF BatchShape, Plan, Camera
  <2>4. FileShapes
    BY <2>1, <2>2, EmptySeq DEF FileShapes
  <2>5. FinishedKept
    BY <2>1, <2>2 DEF FinishedKept, Distinct
  <2> QED BY <2>1, <2>3, <2>4, <2>5 DEF BatchInv, BatchBooks
<1>2. ASSUME tool = "batch" => BatchInv, [ToolNext]_toolVars
      PROVE  (tool = "batch" => BatchInv)'
  <2> SUFFICES ASSUME tool' = "batch" PROVE BatchInv'
    OBVIOUS
  <2>1. tool = "batch" /\ BatchInv
    BY <1>2 DEF ToolNext, toolVars
  <2>2. CASE Batch!BatchNext
    <3>1. BatchShape' /\ (batch.torn => batch'.torn)
      BY <2>1, <2>2, BatchMoves DEF BatchInv
    <3>2. ASSUME ~ batch'.torn PROVE BatchBooks'
      <4>1. BatchShape /\ BatchBooks
        BY <2>1, <3>1, <3>2 DEF BatchInv
      <4>2. CASE Batch!OpenRoot
        BY <4>1, <4>2, OpenKeeps
      <4>3. CASE Batch!NewEpisode
        BY <4>1, <4>3, EpisodeKeeps
      <4>4. CASE Batch!RolloutOfSeed
        BY <4>1, <4>4, RolloutKeeps
      <4>5. CASE Batch!SaveSeedParquet
        BY <4>1, <4>5, ParquetKeeps
      <4>6. CASE Batch!SaveSeedVideo
        BY <4>1, <4>6, VideoKeeps
      <4>7. CASE Batch!FinalizeBatch
        BY <4>1, <4>7, FinalizeKeeps
      <4>8. CASE Batch!BatchDies
        BY <3>2, <4>1, <4>8, DeathKeeps
      <4>9. CASE Batch!BatchDone
        BY <4>1, <4>9, BatchSame DEF Batch!BatchDone, Batch!batchVars, Batch!datasetVars
      <4> QED BY <2>2, <4>2, <4>3, <4>4, <4>5, <4>6, <4>7, <4>8, <4>9 DEF Batch!BatchNext
    <3> QED BY <3>1, <3>2 DEF BatchInv
  <2>3. CASE UNCHANGED toolVars
    <3>1. UNCHANGED <<batch, finished, episodes, tasks, parquet, videos, writer>>
      BY <2>3 DEF toolVars, allVars, vars, datasetVars, childVars
    <3>2. BatchShape' /\ (BatchBooks => BatchBooks')
      BY <2>1, <3>1, BatchSame DEF BatchInv, BatchShape
    <3> QED BY <2>1, <3>1, <3>2 DEF BatchInv
  <2> QED BY <1>2, <2>1, <2>2, <2>3 DEF ToolNext
<1> QED BY <1>1, <1>2, PTL DEF ToolSpec

-----------------------------------------------------------------------------
\* What the batch collector finalized stays as it was in every later run of it,
\* with the data and the prompt of each episode (collect_batch.py; README.md:329),
\* as long as no run dies inside finalize.
THEOREM BatchesKeepFinished == ToolSpec => []BatchKeepsFinished
<1>1. (tool = "batch" => BatchInv) => BatchKeepsFinished
  <2> SUFFICES ASSUME BatchInv, ~ batch.torn, batch.pc \notin Batch!Finalizing
               PROVE  /\ episodes.rows = finished
                      /\ \A i \in 0 .. Len(finished) - 1 :
                           Kept(i, finished[i + 1], tasks)
    BY SameWriter DEF BatchKeepsFinished, Batch!BatchKeepsFinished, Kept, ParquetKept, VideoHolds
  <2> QED BY DEF BatchInv, BatchBooks, FinishedKept
<1> QED BY <1>1, BatchInvariant, PTL

-----------------------------------------------------------------------------
(* A dataset that is rebuilt in the order of the plan. *)

\* A collection in which no task process has died in a save.
FreshInv == deaths = << >> => SaveInv /\ BooksInv /\ ~ episodes.torn

\* The row of the episode that has been listed is counted.
InfoListed ==
  /\ child.stage = "episodes" => info.st = "whole"
  /\ IsListed => info.st = "whole" /\ info.total = Len(Rows)

\* The schema is there before the first metadata row, and stays.
SchemaFirst == child.stage \in {"row", "exit"} \/ metadata # << >> => schema = "whole"

\* Counts that differ for good: every later start of the collector is refused.
Stuck ==
  /\ coll.pc \in Stopped /\ ~ Live
  /\ info.st = "whole" /\ info.total # Cardinality(Succeeded(stats))

HasLine(p) == \E k \in DOMAIN manifest : manifest[k].plan = p

\* The plans in the manifest are those of the statistics, or a crash between the two has
\* left one more, which no later start gets past.
LineFollows(p) ==
  \/ stats[p].success
  \/ coll.pc = "stats" /\ child.ok /\ p = coll.plan
  \/ Stuck

LinesFollow ==
  /\ \A j, k \in DOMAIN manifest : manifest[j].plan = manifest[k].plan => j = k
  /\ \A k \in DOMAIN manifest : LineFollows(manifest[k].plan)
  /\ \A p \in Plan : stats[p].success => HasLine(p)
  /\ coll.pc = "stats" /\ child.ok => HasLine(coll.plan)

SourceInv ==
  /\ MemoryAhead /\ InfoListed /\ SchemaFirst
  /\ Straight => LinesFollow

\* A step that interrupts no save leaves a collection without a death as it was.
LEMMA FreshStep ==
  ASSUME OneDeathInv, FreshInv, [Next]_vars
  PROVE  FreshInv'
<1> USE DEF OneDeathInv
<1> SUFFICES ASSUME deaths' = << >>
             PROVE  SaveInv' /\ BooksInv' /\ ~ episodes'.torn
  BY DEF FreshInv
<1>1. deaths = << >> /\ (Die => child.stage \in EarlyStages)
  <2>1. ASSUME Die, NEW stage \in SaveStages, child.stage = stage PROVE FALSE
    <3>1. deaths' = Append(deaths, stage) /\ deaths \in Seq(SaveStages)
      BY <2>1 DEF Die, TypeInv, TypeOK, ChildTypeOK
    <3>2. Len(deaths') = Len(deaths) + 1 /\ Len(deaths) \in Nat
      BY <3>1
    <3> QED BY <3>2
  <2>2. Die => child.stage \in EarlyStages /\ UNCHANGED deaths
    BY <2>1 DEF Die, Live
  <2>3. Timeout \/ CrashTogether \/ OrphanDies => Die
    BY DEF Timeout, CrashTogether, OrphanDies
  <2>4. UNCHANGED deaths
    <3>1. CASE Die
      BY <2>2, <3>1
    <3>2. CASE ~ Die
      BY <2>3, <3>2 DEF Next, Done, Operator, Start, CollectorStep, Spawn, Reap, AppendManifest,
       WriteStats, EndLoop, FinalizeInfo, FinalizeSplits, CrashAlone, ChildStep, ChildEarly,
       ChildSave, CheckSchema, OpenWriter, RolloutFails, RolloutSucceeds, SaveParquet,
       SaveVideo, SaveInfo, SaveEpisodes, SaveTasks, SaveSchema, SaveMetadataRow, ExitSuccess,
       DatasetUnchanged, vars
    <3> QED BY <3>1, <3>2
  <2> QED BY <2>2, <2>4
<1>2. SaveInv /\ BooksInv /\ ~ episodes.torn
  BY <1>1 DEF FreshInv
<1>3. SaveInv' /\ BooksInv'
  BY <1>1, <1>2, SaveStep, BooksStep DEF EarlyStages
<1>4. ~ episodes'.torn
  <2>1. CASE Die
    BY <1>1, <1>2, <2>1 DEF Die, TornFiles, NothingTorn, EarlyStages, datasetVars
  <2>2. CASE ChildStep
    <3>1. CASE SaveEpisodes
      BY <3>1 DEF SaveEpisodes, WriteEpisodes
    <3>2. CASE ~ SaveEpisodes
      <4>1. UNCHANGED episodes
        BY <2>2, <3>2 DEF ChildStep, ChildEarly, ChildSave, CheckSchema, OpenWriter,
           RolloutFails, RolloutSucceeds, SaveParquet, SaveVideo, SaveInfo, SaveTasks,
           SaveSchema, SaveMetadataRow, ExitSuccess, LoadExistingState, WriteParquet,
           WriteVideo, WriteInfo, WriteTasks, datasetVars
      <4> QED BY <1>2, <4>1
    <3> QED BY <3>1, <3>2
  <2>3. CASE ~ Die /\ ~ ChildStep
    <3>1. UNCHANGED episodes
      BY <2>3 DEF Next, Done, Operator, Start, CollectorStep, Spawn, Reap, AppendManifest,
         WriteStats, EndLoop, FinalizeInfo, FinalizeSplits, CrashAlone, CrashTogether, Timeout,
         OrphanDies, DatasetUnchanged, datasetVars, vars
    <3> QED BY <1>2, <3>1
  <2> QED BY <2>1, <2>2, <2>3
<1> QED BY <1>3, <1>4

\* While an outcome is being recorded, only the collector moves.
LEMMA RecordingSteps ==
  ASSUME TypeInv, MemoryAhead, coll.pc \in {"manifest", "stats"}, [Next]_vars
  PROVE  AppendManifest \/ WriteStats \/ CrashAlone \/ UNCHANGED vars
<1>1. ~ Live
  BY DEF MemoryAhead, Live, EarlyStages, SaveStages
<1>2. ~ ChildStep /\ ~ OrphanDies /\ ~ CrashTogether /\ ~ Timeout
  <2>1. ~ Die
    BY <1>1 DEF Die
  <2>2. ~ ChildEarly
    BY <1>1 DEF ChildEarly, CheckSchema, OpenWriter, RolloutFails, RolloutSucceeds, ExitAt,
                AtStage, Live, EarlyStages
  <2>3. ~ ChildSave
    BY <1>1 DEF ChildSave, SaveParquet, SaveVideo, SaveInfo, SaveEpisodes, SaveTasks,
                SaveSchema, SaveMetadataRow, ExitSuccess, ExitAt, AtStage, Live, SaveStages
  <2> QED BY <2>1, <2>2, <2>3 DEF ChildStep, OrphanDies, CrashTogether, Timeout
<1>3. ~ Operator /\ ~ Spawn /\ ~ Reap /\ ~ EndLoop /\ ~ FinalizeInfo /\ ~ FinalizeSplits
  BY DEF Operator, Start, Stopped, Spawn, Reap, EndLoop, FinalizeInfo, FinalizeSplits
<1> QED BY <1>2, <1>3 DEF Next, CollectorStep, Done

\* An outcome is first recorded when its process has been waited for.
LEMMA RecordingBegins ==
  ASSUME TypeInv, coll.pc \notin {"manifest", "stats"}, [Next]_vars
  PROVE  /\ UNCHANGED <<stats, manifest>>
         /\ coll'.pc \in {"manifest", "stats"} => Reap
<1>1. CASE Operator \/ Spawn
  BY <1>1, BookShapes DEF Operator, Start, Spawn
<1>2. CASE Reap \/ EndLoop
  BY <1>2, BookShapes DEF Reap, EndLoop, GoTo
<1>3. CASE FinalizeInfo \/ FinalizeSplits
  BY <1>3, BookShapes DEF FinalizeInfo, FinalizeSplits, GoTo
<1>4. CASE CrashAlone \/ CrashTogether
  BY <1>4, BookShapes DEF CrashAlone, CrashTogether, Crash, GoTo
<1>5. CASE ChildStep \/ OrphanDies \/ Timeout \/ UNCHANGED vars
  BY <1>5 DEF ChildStep, OrphanDies, Timeout, collectorVars, vars
<1> QED BY <1>1, <1>2, <1>3, <1>4, <1>5 DEF Next, CollectorStep, Done, AppendManifest, WriteStats

\* Counts that differ are never compared with another outcome.
LEMMA StuckStays ==
  ASSUME TypeInv, Stuck, [Next]_vars
  PROVE  Stuck'
<1>1. CASE UNCHANGED vars
  BY <1>1 DEF vars, Stuck, Live, datasetVars, childVars, collectorVars
<1>2. CASE Operator
  <2> PICK budget \in Budgets, defer \in BOOLEAN : Start(budget, defer)
    BY <1>2 DEF Operator
  <2>1. UNCHANGED <<info, stats, child>>
    BY DEF Start, DatasetUnchanged, datasetVars, childVars
  <2>2. coll'.pc = "refused"
    BY BookShapes DEF Start, Stuck, ResumeRefused
  <2> QED BY <2>1, <2>2 DEF Stuck, Live, Stopped
<1>3. CASE Next /\ ~ Operator
  <2>1. ~ Live /\ coll.pc \in Stopped
    BY DEF Stuck
  <2>2. ~ ChildStep /\ ~ OrphanDies /\ ~ CrashTogether /\ ~ Timeout
    <3>1. ~ Die
      BY <2>1 DEF Die
    <3>2. ~ ChildEarly
      BY <2>1 DEF ChildEarly, CheckSchema, OpenWriter, RolloutFails, RolloutSucceeds, ExitAt,
                  AtStage, Live, EarlyStages
    <3>3. ~ ChildSave
      BY <2>1 DEF ChildSave, SaveParquet, SaveVideo, SaveInfo, SaveEpisodes, SaveTasks,
                  SaveSchema, SaveMetadataRow, ExitSuccess, ExitAt, AtStage, Live, SaveStages
    <3> QED BY <3>1, <3>2, <3>3 DEF ChildStep, OrphanDies, CrashTogether, Timeout
  <2>3. ~ CollectorStep /\ ~ CrashAlone
    BY <2>1, <2>2 DEF CollectorStep, Spawn, Reap, AppendManifest, WriteStats, EndLoop,
       FinalizeInfo, FinalizeSplits, CrashAlone, Crash, Stopped, Running
  <2> QED BY <1>1, <1>3, <2>2, <2>3 DEF Next, Done
<1> QED BY <1>1, <1>2, <1>3

\* What is in memory and not in the statistics is the outcome of the last attempt.
LEMMA MemoryStep ==
  ASSUME OneDeathInv, FinishInv', MemoryAhead, [Next]_vars
  PROVE  MemoryAhead'
<1> USE DEF OneDeathInv
<1>1. CASE coll'.pc \notin {"manifest", "stats"}
  BY <1>1 DEF FinishInv, MemoryAhead
<1>2. CASE coll.pc \notin {"manifest", "stats"} /\ coll'.pc \in {"manifest", "stats"}
  <2>1. Reap
    BY <1>2, RecordingBegins
  <2>2. /\ coll.pc = "wait" /\ child.stage = "exited"
        /\ coll'.pc = IF child.ok THEN "manifest" ELSE "stats"
        /\ coll'.plan = coll.plan /\ coll.plan \in Plan
        /\ UNCHANGED <<stats, child>>
    BY <2>1, BookShapes DEF Reap, GoTo, DatasetUnchanged, childVars
  <2>3. child.save.plan = coll.plan /\ mem = stats /\ ~ stats[coll.plan].success
    BY <2>2 DEF AheadInv, NextAttempt, MemoryAhead
  <2>4. /\ \A p \in Plan \ {coll.plan} : mem'[p] = stats[p]
        /\ mem'[coll.plan].success = child.ok
    BY <2>1, <2>2, <2>3, BookShapes DEF Reap, Records
  <2> QED BY <2>2, <2>3, <2>4 DEF MemoryAhead
<1>3. CASE coll.pc \in {"manifest", "stats"} /\ coll'.pc \in {"manifest", "stats"}
  <2>1. CASE AppendManifest
    <3>1. /\ coll'.pc = "stats" /\ coll'.plan = coll.plan
          /\ UNCHANGED <<stats, mem, child>>
      BY <2>1, BookShapes DEF AppendManifest, GoTo, DatasetUnchanged, childVars
    <3> QED BY <1>3, <3>1 DEF MemoryAhead
  <2>2. CASE UNCHANGED vars
    BY <2>2 DEF vars, MemoryAhead, childVars, collectorVars
  <2>3. ~ WriteStats /\ ~ CrashAlone
    BY <1>3, BookShapes DEF WriteStats, CrashAlone, Crash, GoTo
  <2> QED BY <1>3, <2>1, <2>2, <2>3, RecordingSteps
<1> QED BY <1>1, <1>2, <1>3

\* Every other step is one of a process that lives, or a death.
LEMMA ChildCases ==
  ASSUME TypeInv, [Next]_vars
  PROVE  \/ Die \/ ChildStep \/ Spawn
         \/ UNCHANGED <<info, episodes, schema, metadata, child>>
         \/ FinalizeInfo
<1>1. CASE Operator \/ Reap \/ AppendManifest \/ WriteStats \/ EndLoop \/ FinalizeSplits
           \/ CrashAlone
  BY <1>1 DEF Operator, Start, Reap, AppendManifest, WriteStats, EndLoop, FinalizeSplits,
              CrashAlone, DatasetUnchanged, datasetVars, childVars
<1>2. CASE UNCHANGED vars
  BY <1>2 DEF vars, datasetVars, childVars
<1>3. Timeout \/ CrashTogether \/ OrphanDies => Die
  BY DEF Timeout, CrashTogether, OrphanDies
<1> QED BY <1>1, <1>2, <1>3 DEF Next, CollectorStep, Done

\* The count in info.json and the schema along the steps of a save.
LEMMA InfoSchemaStep ==
  ASSUME OneDeathInv, OneDeathInv', InfoListed, SchemaFirst, KeepsMetadata, UNCHANGED kind,
         [Next]_vars
  PROVE  InfoListed' /\ SchemaFirst'
<1> USE DEF OneDeathInv
<1>1. CASE Die
  <2>1. child'.stage = "exited" /\ ~ child'.ok /\ metadata' = metadata
    BY <1>1, Shapes DEF Die
  <2>2. metadata # << >> => schema' = "whole"
    <3>1. CASE child.stage = "schema"
      BY <1>1, <3>1 DEF Die, TornFiles, SchemaFirst
    <3>2. CASE child.stage # "schema"
      BY <1>1, <3>2 DEF Die, TornFiles, NothingTorn, SchemaFirst
    <3> QED BY <3>1, <3>2
  <2> QED BY <2>1, <2>2 DEF InfoListed, SchemaFirst, IsListed, Listed
<1>2. CASE ChildStep
  <2>1. KeepsMetadata'
    BY DEF KeepsMetadata
  <2>2. InfoListed'
    <3>1. CASE child.stage = "exit" /\ child'.stage = "exited" /\ UNCHANGED <<info, episodes>>
      BY <3>1 DEF InfoListed, IsListed, Listed, Rows
    <3>2. CASE child'.stage = "episodes" /\ info'.st = "whole"
      BY <3>2 DEF InfoListed, IsListed, Listed
    <3>3. CASE child'.stage \in Listed /\ info'.st = "whole"
      BY <2>1, <3>3 DEF InfoListed, InfoCounts, Listed
    <3>4. CASE child'.stage \notin {"episodes"} \cup Listed /\ (child'.stage = "exited" => ~ child'.ok)
      BY <3>4 DEF InfoListed, IsListed
    <3>5. child'.stage = "exited" /\ child.stage # "exit" => ~ child'.ok
      BY <1>2, Shapes DEF ChildStep, ChildEarly, ChildSave, CheckSchema, OpenWriter, RolloutFails,
         RolloutSucceeds, SaveParquet, SaveVideo, SaveInfo, SaveEpisodes, SaveTasks, SaveSchema,
         SaveMetadataRow, ExitSuccess, ExitAt, AtStage, Stages, EarlyStages, SaveStages
    <3> QED BY <1>2, <3>1, <3>2, <3>3, <3>4, <3>5, ChildMoves
            DEF ChildStep, InfoListed, IsListed, Listed, EarlyStages
  <2>3. SchemaFirst'
    <3>1. CASE SaveSchema
      BY <3>1 DEF SaveSchema, SchemaFirst
    <3>2. CASE ~ SaveSchema
      <4>1. UNCHANGED schema
        BY <1>2, <3>2 DEF ChildStep, ChildEarly, ChildSave, CheckSchema, OpenWriter, RolloutFails,
           RolloutSucceeds, SaveParquet, SaveVideo, SaveInfo, SaveEpisodes, SaveTasks,
           SaveMetadataRow, ExitSuccess
      <4>2. CASE child.stage = "schema"
        BY <1>2, <3>2, <4>2 DEF ChildStep, ChildEarly, ChildSave, CheckSchema, OpenWriter,
           RolloutFails, RolloutSucceeds, SaveParquet, SaveVideo, SaveInfo, SaveEpisodes,
           SaveTasks, SaveMetadataRow, ExitSuccess, ExitAt, AtStage
      <4>3. CASE child.stage # "schema"
        BY <1>2, <4>1, <4>3, ChildMoves DEF ChildStep, SchemaFirst, EarlyStages, KeepsMetadata
      <4> QED BY <4>2, <4>3
    <3> QED BY <3>1, <3>2
  <2> QED BY <2>2, <2>3
<1>3. CASE Spawn
  <2>1. child'.stage = "guard" /\ UNCHANGED <<schema, metadata>>
    BY <1>3 DEF Spawn
  <2> QED BY <2>1 DEF InfoListed, SchemaFirst, IsListed, Listed
<1>4. CASE UNCHANGED <<info, episodes, schema, metadata, child>>
  BY <1>4 DEF InfoListed, SchemaFirst, IsListed, Rows
<1>5. CASE FinalizeInfo
  <2>1. UNCHANGED <<episodes, schema, metadata, child>>
    BY <1>5 DEF FinalizeInfo, childVars
  <2>2. info'.st = info.st /\ (info.st = "whole" => info'.total = info.total)
    <3>1. CASE info' = info
      BY <3>1
    <3>2. CASE info' # info
      <4>1. info.st = "whole" /\ info' = [info EXCEPT !.ranges = FinalRanges]
        BY <1>5, <3>2 DEF FinalizeInfo
      <4>2. info = [st |-> "whole", total |-> info.total, ranges |-> info.ranges]
        BY <4>1 DEF TypeInv, TypeOK, DatasetTypeOK
      <4> QED BY <4>1, <4>2
    <3> QED BY <3>1, <3>2
  <2> QED BY <2>1, <2>2 DEF InfoListed, SchemaFirst, IsListed, Rows
<1> QED BY <1>1, <1>2, <1>3, <1>4, <1>5, ChildCases

\* A success that is not recorded leaves counts that differ.
LEMMA CrashSticks ==
  ASSUME OneDeathInv, MemoryAhead, InfoListed, Straight, coll.pc = "stats", child.ok
  PROVE  info.st = "whole" /\ info.total # Cardinality(Succeeded(stats)) /\ ~ Live
<1> USE DEF OneDeathInv
<1> DEFINE n == Len(Rows)
           f == [p \in Succeeded(stats) |-> stats[p].index + 1]
<1>1. /\ child.stage = "exited" /\ child.save.plan = coll.plan /\ ~ stats[coll.plan].success
      /\ SaveInv
  BY DEF MemoryAhead, Straight
<1>2. info.st = "whole" /\ info.total = n /\ Rows[n] = child.save
  BY <1>1 DEF InfoListed, IsListed, SaveInv, RowsProgress
<1>3. ASSUME NEW p \in Succeeded(stats)
      PROVE  f[p] \in 1 .. n - 1 /\ Rows[f[p]].plan = p
  <2>1. p \in Plan /\ stats[p].success
    BY <1>3 DEF Succeeded
  <2>2. /\ stats[p].index \in 0 .. n - 1
        /\ Row(stats[p].index) = SaveOf(p)
    BY <1>1, <2>1, SaveInvSuffices
  <2>3. Rows[f[p]].plan = p /\ f[p] \in 1 .. n
    BY <2>2, Shapes DEF Row, SaveOf
  <2>4. f[p] # n
    BY <1>1, <1>2, <2>1, <2>3
  <2> QED BY <2>3, <2>4, Shapes
<1>4. f \in Injection(Succeeded(stats), 1 .. n - 1)
  BY <1>3 DEF Injection, IsInjective
<1>5. n \in Nat /\ n # 0
  <2>1. n \in Nat
    BY Shapes
  <2>2. writer.index = n - 1 /\ writer.index \in Nat
    BY <1>1, Shapes DEF SaveInv, RowsProgress, IsListed
  <2> QED BY <2>1, <2>2
<1>6. IsFiniteSet(1 .. n - 1) /\ Cardinality(1 .. n - 1) = n - 1
  BY <1>5, IntervalCounts
<1>7. IsFiniteSet(Succeeded(stats)) /\ Cardinality(Succeeded(stats)) <= n - 1
  BY <1>4, <1>6, FS_Injection
<1>8. Cardinality(Succeeded(stats)) \in Nat
  BY <1>7, FS_CardinalityType
<1> QED BY <1>1, <1>2, <1>5, <1>7, <1>8 DEF Live, EarlyStages, SaveStages

\* A line of the manifest names a plan.
LEMMA LinePlans ==
  ASSUME TypeInv
  PROVE  \A k \in DOMAIN manifest : manifest[k].plan \in Plan
<1> SUFFICES ASSUME NEW k \in DOMAIN manifest PROVE manifest[k].plan \in Plan
  OBVIOUS
<1>1. manifest[k] \in [plan : Plan, index : Nat \cup {NoIndex}]
  BY BookShapes, ElementOfSeq
<1> QED BY <1>1

\* The same lines, explained in the next state.
LEMMA LinesKept ==
  ASSUME LinesFollow, manifest' = manifest,
         \A p : stats[p].success => stats'[p].success,
         \A p : LineFollows(p) => LineFollows(p)',
         \A p \in Plan : stats'[p].success => HasLine(p),
         (coll.pc = "stats" /\ child.ok)' => HasLine(coll'.plan)
  PROVE  LinesFollow'
<1>1. \A p : HasLine(p)' <=> HasLine(p)
  BY DEF HasLine
<1> QED BY <1>1 DEF LinesFollow

\* A line is added for a success that is not recorded yet, and no other.
LEMMA LineStep ==
  ASSUME OneDeathInv, MemoryAhead, InfoListed, Straight, LinesFollow, [Next]_vars
  PROVE  LinesFollow'
<1> USE DEF OneDeathInv
<1>1. CASE coll.pc \notin {"manifest", "stats"}
  <2>1. UNCHANGED <<stats, manifest>>
    BY <1>1, RecordingBegins
  <2>2. ~ (coll.pc = "stats" /\ child.ok)'
    <3>1. CASE Reap
      <4>1. coll'.pc = (IF child.ok THEN "manifest" ELSE "stats") /\ child' = child
        BY <3>1, BookShapes DEF Reap, GoTo, DatasetUnchanged, childVars
      <4> QED BY <4>1
    <3>2. CASE ~ Reap
      BY <1>1, <3>2, RecordingBegins
    <3> QED BY <3>1, <3>2
  <2>3. \A p : LineFollows(p) => LineFollows(p)'
    <3> SUFFICES ASSUME NEW p, LineFollows(p) PROVE LineFollows(p)'
      OBVIOUS
    <3>1. CASE stats[p].success
      BY <2>1, <3>1 DEF LineFollows
    <3>2. CASE Stuck
      BY <3>2, StuckStays DEF LineFollows
    <3> QED BY <1>1, <3>1, <3>2 DEF LineFollows
  <2> QED BY <2>1, <2>2, <2>3, LinesKept DEF LinesFollow
<1>2. CASE AppendManifest
  <2>1. /\ coll.pc = "manifest" /\ coll'.pc = "stats" /\ coll'.plan = coll.plan
        /\ coll.plan \in Plan /\ UNCHANGED <<stats, child>>
    BY <1>2, BookShapes DEF AppendManifest, GoTo, DatasetUnchanged, childVars
  <2>2. child.ok /\ ~ stats[coll.plan].success
    BY <2>1 DEF MemoryAhead
  <2> DEFINE line == [plan |-> coll.plan, index |-> mem[coll.plan].index]
             n == Len(manifest)
  <2>3. manifest' = Append(manifest, line) /\ line.plan = coll.plan
    BY <1>2 DEF AppendManifest
  <2>4. line \in [plan : Plan, index : Nat \cup {NoIndex}]
    BY <2>1, BookShapes DEF Records
  <2>5. /\ n \in Nat /\ DOMAIN manifest = 1 .. n /\ DOMAIN manifest' = 1 .. n + 1
        /\ manifest'[n + 1] = line
        /\ \A k \in 1 .. n : manifest'[k] = manifest[k]
    <3> HIDE DEF line
    <3> QED BY <2>3, <2>4, BookShapes
  <2>6. \A k \in 1 .. n : stats[manifest[k].plan].success
    BY <2>1, <2>5 DEF LinesFollow, LineFollows, Stuck, Stopped
  <2> HIDE DEF line, n
  <2>7. \A j, k \in DOMAIN manifest' : manifest'[j].plan = manifest'[k].plan => j = k
    <3> SUFFICES ASSUME NEW j \in DOMAIN manifest', NEW k \in DOMAIN manifest',
                        manifest'[j].plan = manifest'[k].plan
                 PROVE  j = k
      OBVIOUS
    <3>1. CASE j \in 1 .. n /\ k \in 1 .. n
      BY <2>5, <3>1 DEF LinesFollow
    <3>2. CASE j = n + 1 /\ k = n + 1
      BY <3>2
    <3>3. CASE (j = n + 1 /\ k \in 1 .. n) \/ (k = n + 1 /\ j \in 1 .. n)
      BY <2>2, <2>3, <2>5, <2>6, <3>3
    <3> QED BY <2>5, <3>1, <3>2, <3>3
  <2>8. \A k \in DOMAIN manifest' : LineFollows(manifest[k].plan)'
    <3> SUFFICES ASSUME NEW k \in DOMAIN manifest' PROVE LineFollows(manifest[k].plan)'
      OBVIOUS
    <3>1. CASE k = n + 1
      BY <2>1, <2>2, <2>3, <2>5, <3>1 DEF LineFollows
    <3>2. CASE k \in 1 .. n
      BY <2>1, <2>5, <2>6, <3>2 DEF LineFollows
    <3> QED BY <2>5, <3>1, <3>2
  <2>9. \A p : HasLine(p) => HasLine(p)'
    BY <2>5 DEF HasLine
  <2>10. HasLine(coll.plan)'
    BY <2>1, <2>3, <2>5 DEF HasLine
  <2> QED BY <2>1, <2>7, <2>8, <2>9, <2>10 DEF LinesFollow
<1>3. CASE WriteStats
  <2>1. /\ coll.pc = "stats" /\ coll'.pc = "loop" /\ stats' = mem /\ coll.plan \in Plan
        /\ UNCHANGED <<manifest, child>>
    BY <1>3, BookShapes DEF WriteStats, GoTo, DatasetUnchanged, childVars
  <2>2. /\ \A p \in Plan \ {coll.plan} : mem[p] = stats[p]
        /\ mem[coll.plan].success = child.ok /\ ~ stats[coll.plan].success
    BY <2>1 DEF MemoryAhead
  <2>3. ~ Stuck
    BY <2>1 DEF Stuck, Stopped
  <2>4. \A k \in DOMAIN manifest : manifest[k].plan \in Plan /\ LineFollows(manifest[k].plan)
    BY LinePlans DEF LinesFollow
  <2>5. \A k \in DOMAIN manifest : LineFollows(manifest[k].plan)'
    BY <2>1, <2>2, <2>3, <2>4 DEF LineFollows
  <2>6. \A p \in Plan : stats'[p].success => HasLine(p)
    BY <2>1, <2>2 DEF LinesFollow
  <2>7. \A p : HasLine(p)' <=> HasLine(p)
    BY <2>1 DEF HasLine
  <2> QED BY <2>1, <2>5, <2>6, <2>7 DEF LinesFollow
<1>4. CASE CrashAlone
  <2>1. /\ coll'.pc = "crashed" /\ UNCHANGED <<stats, manifest, info, child>>
    BY <1>4, BookShapes DEF CrashAlone, Crash, GoTo, datasetVars, childVars
  <2>2. \A p : LineFollows(p) => LineFollows(p)'
    <3> SUFFICES ASSUME NEW p, LineFollows(p) PROVE LineFollows(p)'
      OBVIOUS
    <3>1. CASE stats[p].success
      BY <2>1, <3>1 DEF LineFollows
    <3>2. CASE Stuck
      BY <3>2, StuckStays DEF LineFollows
    <3>3. CASE coll.pc = "stats" /\ child.ok
      BY <2>1, <3>3, CrashSticks DEF LineFollows, Stuck, Stopped, Live, Succeeded
    <3> QED BY <3>1, <3>2, <3>3 DEF LineFollows
  <2>3. coll'.pc # "stats"
    BY <2>1
  <2> QED BY <2>1, <2>2, <2>3, LinesKept DEF LinesFollow
<1>5. CASE UNCHANGED vars
  <2>1. UNCHANGED <<info, stats, manifest, coll, child>>
    BY <1>5 DEF vars, datasetVars, childVars, collectorVars
  <2>2. \A p : LineFollows(p) => LineFollows(p)'
    BY <2>1 DEF LineFollows, Stuck, Live, Succeeded
  <2> QED BY <2>1, <2>2, LinesKept DEF LinesFollow
<1> QED BY <1>1, <1>2, <1>3, <1>4, <1>5, RecordingSteps

\* What the reindexer reads besides the rows stays true of the records.
LEMMA SourceStep ==
  ASSUME OneDeathInv, OneDeathInv', FinishInv', SourceInv, KeepsMetadata, UNCHANGED kind,
         Skewed => Skewed', [Next]_vars
  PROVE  SourceInv'
<1>1. MemoryAhead' /\ InfoListed' /\ SchemaFirst'
  BY MemoryStep, InfoSchemaStep DEF SourceInv
<1>2. Straight' => Straight
  BY DEF OneDeathInv, Straight, Skewed, InStep
<1>3. Straight' => LinesFollow'
  BY <1>2, LineStep DEF SourceInv
<1> QED BY <1>1, <1>3 DEF SourceInv

-----------------------------------------------------------------------------
\* A collection that is recovered has nothing left to collect.
Settled == ~ Live /\ coll.pc \notin {"wait", "manifest", "stats"} /\ Recovered

\* No later run of the collector touches it, but for the split ranges.
LEMMA SettledStays ==
  ASSUME OneDeathInv, FinishInv, Settled, [Next]_vars
  PROVE  /\ Settled'
         /\ UNCHANGED <<episodes, tasks, parquet, videos, schema, metadata, stats, manifest,
                        child, deaths, kind>>
<1> USE DEF OneDeathInv
<1> DEFINE Same == UNCHANGED <<episodes, tasks, parquet, videos, schema, metadata, stats,
                               manifest, child, deaths, kind>>
<1>1. ~ Live /\ coll.pc \notin {"wait", "manifest", "stats"} /\ Pending = {}
  BY DEF Settled, FinishInv, Recovered, Succeeded, Pending
<1>2. ~ ChildStep /\ ~ OrphanDies /\ ~ CrashTogether /\ ~ Timeout
  <2>1. ~ Die
    BY <1>1 DEF Die
  <2>2. ~ ChildEarly
    BY <1>1 DEF ChildEarly, CheckSchema, OpenWriter, RolloutFails, RolloutSucceeds, ExitAt,
                AtStage, Live, EarlyStages
  <2>3. ~ ChildSave
    BY <1>1 DEF ChildSave, SaveParquet, SaveVideo, SaveInfo, SaveEpisodes, SaveTasks,
                SaveSchema, SaveMetadataRow, ExitSuccess, ExitAt, AtStage, Live, SaveStages
  <2> QED BY <2>1, <2>2, <2>3 DEF ChildStep, OrphanDies, CrashTogether, Timeout
<1>3. ~ Spawn /\ ~ Reap /\ ~ AppendManifest /\ ~ WriteStats
  BY <1>1 DEF Spawn, Reap, AppendManifest, WriteStats
<1>4. Same /\ coll'.pc \notin {"wait", "manifest", "stats"}
  <2>1. CASE Operator
    <3> PICK budget \in Budgets, defer \in BOOLEAN : Start(budget, defer)
      BY <2>1 DEF Operator
    <3> QED BY BookShapes DEF Start, DatasetUnchanged, datasetVars, childVars
  <2>2. CASE EndLoop
    BY <2>2, BookShapes DEF EndLoop, GoTo, DatasetUnchanged, datasetVars, childVars
  <2>3. CASE FinalizeInfo \/ FinalizeSplits
    BY <2>3, BookShapes DEF FinalizeInfo, FinalizeSplits, GoTo, DatasetUnchanged, datasetVars,
                            childVars
  <2>4. CASE CrashAlone
    BY <2>4, BookShapes DEF CrashAlone, Crash, GoTo, datasetVars, childVars
  <2>5. CASE UNCHANGED vars
    BY <1>1, <2>5 DEF vars, datasetVars, childVars, collectorVars
  <2> QED BY <1>2, <1>3, <2>1, <2>2, <2>3, <2>4, <2>5 DEF Next, CollectorStep, Done
<1>5. Recovered' /\ ~ Live'
  BY <1>4 DEF Settled, Recovered, Rows, Succeeded, Live
<1> QED BY <1>4, <1>5 DEF Settled

\* The ranges of the whole schedule, when it is ordered by split.
LEMMA PlannedRanges ==
  ASSUME Contiguous(Schedule), NEW p \in Plan, NEW sp \in Split
  PROVE  /\ (RangeIn(Schedule, sp)[1] <= p /\ p < RangeIn(Schedule, sp)[2]) <=> SplitOf[p] = sp
         /\ SplitOf[p] \in Split
<1>1. /\ DOMAIN Schedule = 1 .. NumPlans /\ NumPlans \in Nat /\ p \in 0 .. NumPlans - 1
      /\ \A k \in 1 .. NumPlans : Schedule[k] = SplitOf[k - 1] /\ Schedule[k] \in Split
  BY WriterAssumption, CollectorAssumption DEF Schedule, Plan
<1>2. Schedule[p + 1] = SplitOf[p] /\ SplitOf[p] \in Split
  BY <1>1, CollectorAssumption DEF Plan
<1> QED BY <1>1, <1>2, RangesLocate

\* So SPLIT_RANGES finds the split of a plan at its index.
LEMMA SplitFound ==
  ASSUME Contiguous(Schedule), NEW p \in Plan
  PROVE  SplitAt(p) = SplitOf[p]
<1>1. SplitOf[p] \in Split
  BY CollectorAssumption
<1>2. \A sp \in Split :
        (RangeIn(Schedule, sp)[1] <= p /\ p < RangeIn(Schedule, sp)[2]) <=> SplitOf[p] = sp
  BY PlannedRanges
<1> QED BY <1>1, <1>2 DEF SplitAt

\* What the reindexer finds for a plan: the row of the attempt the statistics record, where
\* its metadata row says.
Found(p) ==
  /\ p \in Plan /\ SaveOf(p) \in Save
  /\ OldIndex(p) \in 0 .. NumPlans - 1
  /\ MetadataOf(p) = [save |-> SaveOf(p), index |-> OldIndex(p)]
  /\ Row(OldIndex(p)) = SaveOf(p)
  /\ HoldsData(OldIndex(p), SaveOf(p)) /\ ResolvesPrompt(OldIndex(p), SaveOf(p))

\* Equal counts are the proof that the one death left nothing amiss.
LEMMA SettledFacts ==
  ASSUME OneDeathInv, SourceInv, Settled, KeepsMetadata
  PROVE  /\ Straight /\ LinesFollow /\ schema = "whole" /\ NoPlanTwice
         /\ Len(Rows) = NumPlans /\ DOMAIN metadata = 1 .. NumPlans
         /\ \A k \in DOMAIN metadata : metadata[k] = [save |-> Rows[k], index |-> k - 1]
         /\ \A i \in 0 .. NumPlans - 1 : HoldsData(i, Row(i)) /\ ResolvesPrompt(i, Row(i))
         /\ \A p \in Plan : stats[p].success
<1> USE DEF OneDeathInv
<1>1. /\ ~ Live /\ Len(Rows) = NumPlans /\ Len(metadata) = NumPlans
      /\ {metadata[k].save.plan : k \in DOMAIN metadata} = Plan
      /\ \A p \in Plan : stats[p].success
  BY DEF Settled, Recovered, Succeeded
<1>2. /\ Straight /\ DOMAIN metadata = 1 .. NumPlans
      /\ \A k \in DOMAIN metadata : metadata[k] = [save |-> Rows[k], index |-> k - 1]
      /\ \A k \in DOMAIN metadata : metadata[k].save = Rows[k]
      /\ \A i \in 0 .. NumPlans - 1 : HoldsData(i, Row(i)) /\ ResolvesPrompt(i, Row(i))
  BY <1>1, CountsStraighten
<1>3. NoPlanTwice
  <2>1. \A p \in Plan : \E k \in DOMAIN Rows : Rows[k].plan = p
    <3> SUFFICES ASSUME NEW p \in Plan PROVE \E k \in DOMAIN Rows : Rows[k].plan = p
      OBVIOUS
    <3>1. PICK k \in DOMAIN metadata : metadata[k].save.plan = p
      BY <1>1
    <3>2. k \in DOMAIN Rows /\ metadata[k].save = Rows[k]
      BY <1>1, <1>2, Shapes
    <3> QED BY <3>1, <3>2
  <2> QED BY <1>1, <2>1, AllOnce
<1>4. schema = "whole"
  <2>1. metadata # << >>
    BY <1>2, WriterAssumption
  <2> QED BY <2>1 DEF SourceInv, SchemaFirst
<1> QED BY <1>1, <1>2, <1>3, <1>4 DEF SourceInv

\* Every plan of a recovered source can be found.
LEMMA SettledFound ==
  ASSUME OneDeathInv, SourceInv, Settled, KeepsMetadata, NEW p \in Plan
  PROVE  Found(p)
<1> USE DEF OneDeathInv
<1>1. /\ SaveInv /\ NoPlanTwice /\ stats[p].success
      /\ Len(Rows) = NumPlans /\ DOMAIN metadata = 1 .. NumPlans
      /\ \A k \in DOMAIN metadata : metadata[k] = [save |-> Rows[k], index |-> k - 1]
      /\ \A i \in 0 .. NumPlans - 1 : HoldsData(i, Row(i)) /\ ResolvesPrompt(i, Row(i))
  BY SettledFacts DEF Straight
<1> PICK i : i = stats[p].index
  OBVIOUS
<1>2. i \in 0 .. NumPlans - 1 /\ Row(i) = SaveOf(p)
  BY <1>1, SaveInvSuffices
<1>3. /\ i + 1 \in 1 .. NumPlans /\ i + 1 \in DOMAIN Rows
      /\ Rows[i + 1] = SaveOf(p) /\ SaveOf(p).plan = p
      /\ metadata[i + 1] = [save |-> SaveOf(p), index |-> i]
  <2>1. NumPlans \in Nat /\ DOMAIN Rows = 1 .. NumPlans
    BY <1>1, Shapes, WriterAssumption
  <2>2. i + 1 \in 1 .. NumPlans /\ i + 1 - 1 = i
    BY <1>2, <2>1
  <2> QED BY <1>1, <1>2, <2>1, <2>2 DEF Row, SaveOf
<1>4. MetadataOf(p) = metadata[i + 1]
  <2>1. ASSUME NEW k \in DOMAIN metadata, metadata[k].save.plan = p PROVE k = i + 1
    <3>1. k \in DOMAIN Rows /\ Rows[k].plan = p
      BY <1>1, <2>1, Shapes
    <3> QED BY <1>1, <1>3, <3>1 DEF NoPlanTwice
  <2>2. i + 1 \in DOMAIN metadata /\ metadata[i + 1].save.plan = p
    BY <1>1, <1>3
  <2>3. (CHOOSE k \in DOMAIN metadata : metadata[k].save.plan = p) = i + 1
    BY <2>1, <2>2
  <2> QED BY <2>3 DEF MetadataOf
<1>5. OldIndex(p) = i /\ SaveOf(p) \in Save
  BY <1>3, <1>4, RowPlans DEF OldIndex
<1> QED BY <1>1, <1>2, <1>3, <1>4, <1>5 DEF Found

\* No check of a copy fails.
LEMMA SettledCopies ==
  ASSUME Contiguous(Schedule), NEW p \in Plan, Found(p)
  PROVE  Copyable(p)
<1>1. MetadataOf(p).save.plan = p
  BY DEF Found, SaveOf
<1> QED BY <1>1, SplitFound DEF Copyable, CopyFrom, Found, HoldsData

\* One line for each plan.
LEMMA SettledLines ==
  ASSUME OneDeathInv, SourceInv, Settled, KeepsMetadata
  PROVE  /\ Len(manifest) = NumPlans /\ DOMAIN manifest = 1 .. NumPlans
         /\ \A k \in DOMAIN manifest : manifest[k].plan \in Plan
         /\ \A j, k \in DOMAIN manifest : manifest[j].plan = manifest[k].plan => j = k
         /\ \A p \in Plan : \E k \in DOMAIN manifest : manifest[k].plan = p
<1> USE DEF OneDeathInv
<1> DEFINE n == Len(manifest)
           f == [k \in 1 .. n |-> manifest[k].plan]
<1>1. LinesFollow /\ \A p \in Plan : stats[p].success
  BY SettledFacts
<1>2. n \in Nat /\ DOMAIN manifest = 1 .. n
  BY BookShapes
<1>3. /\ \A k \in DOMAIN manifest : manifest[k].plan \in Plan
      /\ \A j, k \in DOMAIN manifest : manifest[j].plan = manifest[k].plan => j = k
      /\ \A p \in Plan : \E k \in DOMAIN manifest : manifest[k].plan = p
  BY <1>1, LinePlans DEF LinesFollow, HasLine
<1>4. IsFiniteSet(1 .. n) /\ Cardinality(1 .. n) = n
  BY <1>2, IntervalCounts
<1>5. f \in Bijection(1 .. n, Plan)
  BY <1>2, <1>3 DEF Bijection, Injection, Surjection, IsInjective
<1>6. Cardinality(Plan) = n
  BY <1>4, <1>5, FS_Bijection DEF ExistsBijection
<1> QED BY <1>2, <1>3, <1>6, PlanCount

\* The lines of distinct plans, sorted: that of plan i comes at place i.
LEMMA SortedLines ==
  ASSUME NEW lines, DOMAIN lines = 1 .. NumPlans,
         \A k \in DOMAIN lines : lines[k].plan \in Plan,
         \A j, k \in DOMAIN lines : lines[j].plan = lines[k].plan => j = k,
         \A p \in Plan : \E k \in DOMAIN lines : lines[k].plan = p
  PROVE  \A p \in Plan : \E k \in DOMAIN lines :
           lines[k].plan = p /\ ByPlan(lines)[p + 1] = lines[k]
<1> DEFINE Before(j, k) == \/ lines[j].plan < lines[k].plan
                           \/ lines[j].plan = lines[k].plan /\ j < k
           Ahead(k) == {j \in DOMAIN lines : Before(j, k)}
           Place(k) == Cardinality(Ahead(k))
           At(i) == CHOOSE k \in DOMAIN lines : Place(k) = i - 1
<1>1. ByPlan(lines) = [i \in DOMAIN lines |-> lines[At(i)]]
  BY DEF ByPlan
<1>2. ASSUME NEW k \in DOMAIN lines PROVE Place(k) = lines[k].plan
  <2>1. PICK q \in Plan : q = lines[k].plan
    OBVIOUS
  <2> DEFINE f == [j \in Ahead(k) |-> lines[j].plan]
  <2>2. q \in Nat
    BY PlanCount
  <2>3. \A j \in DOMAIN lines : j \in Ahead(k) <=> lines[j].plan \in 0 .. q - 1
    <3> SUFFICES ASSUME NEW j \in DOMAIN lines
                 PROVE  j \in Ahead(k) <=> lines[j].plan \in 0 .. q - 1
      OBVIOUS
    <3>1. PICK r \in Plan : r = lines[j].plan
      OBVIOUS
    <3>2. r = q => j = k
      BY <2>1, <3>1
    <3>3. r \in Nat /\ j \in Nat
      BY PlanCount
    <3> QED BY <2>1, <2>2, <3>1, <3>2, <3>3
  <2>4. f \in Bijection(Ahead(k), 0 .. q - 1)
    <3>1. \A j \in Ahead(k) : j \in DOMAIN lines /\ f[j] = lines[j].plan /\ f[j] \in 0 .. q - 1
      BY <2>3
    <3>2. \A r \in 0 .. q - 1 : \E j \in Ahead(k) : f[j] = r
      <4> SUFFICES ASSUME NEW r \in 0 .. q - 1 PROVE \E j \in Ahead(k) : f[j] = r
        OBVIOUS
      <4>1. r \in Plan
        BY <2>1, <2>2, PlanCount
      <4>2. PICK j \in DOMAIN lines : lines[j].plan = r
        BY <4>1
      <4> QED BY <2>3, <4>2
    <3> HIDE DEF Ahead
    <3> QED BY <3>1, <3>2 DEF Bijection, Injection, Surjection, IsInjective
  <2>5. IsFiniteSet(Ahead(k))
    <3>1. IsFiniteSet(DOMAIN lines)
      BY PlanCount, IntervalCounts
    <3> QED BY <3>1, FS_Subset
  <2>6. Cardinality(0 .. q - 1) = Place(k)
    BY <2>4, <2>5, FS_Bijection DEF ExistsBijection
  <2>7. Cardinality(0 .. q - 1) = q
    BY <2>2, BelowCounts
  <2> QED BY <2>1, <2>6, <2>7
<1> HIDE DEF Place
<1>3. SUFFICES ASSUME NEW p \in Plan
               PROVE  \E k \in DOMAIN lines :
                        lines[k].plan = p /\ ByPlan(lines)[p + 1] = lines[k]
  OBVIOUS
<1>4. PICK i \in DOMAIN lines : i = p + 1
  BY PlanCount
<1>5. i - 1 = p
  BY <1>4, PlanCount
<1>6. \E k \in DOMAIN lines : Place(k) = i - 1
  BY <1>2, <1>5
<1>7. At(i) \in DOMAIN lines /\ Place(At(i)) = i - 1
  BY <1>6, Zenon
<1> HIDE DEF At
<1>8. ByPlan(lines)[i] = lines[At(i)]
  BY <1>1
<1> QED BY <1>2, <1>4, <1>5, <1>7, <1>8

\* A directory has the files of a dataset, and no other.
Shaped(root) ==
  /\ DOMAIN root = DOMAIN NoRoot /\ DOMAIN root.episodes = DOMAIN NoRows
  /\ ~ root.episodes.torn
  /\ root.episodes.rows \in Seq(Save)
  /\ root.metadata \in Seq([save : Save, index : Nat])

\* The episode of plan p lies at index p, with the data, the prompt and the metadata of
\* the attempt s.
Placed(root, ts, p, s) ==
  /\ root.episodes.rows[p + 1] = s
  /\ root.metadata[p + 1] = [save |-> s, index |-> p]
  /\ root.parquet[p].st = "whole" /\ root.parquet[p].save = s
  /\ root.parquet[p].task + 1 \in DOMAIN ts /\ ts[root.parquet[p].task + 1] = PromptOf[p]
  /\ \A cam \in Camera : root.videos[<<p, cam>>] = Whole(s)

\* The episodes of the first n plans, and nothing else, under the vocabulary ts.
Holds(root, ts, n) ==
  /\ Len(root.episodes.rows) = n /\ Len(root.metadata) = n
  /\ DOMAIN root.parquet = 0 .. n - 1 /\ DOMAIN root.videos = (0 .. n - 1) \X Camera

Partial(root, n) ==
  /\ Shaped(root) /\ Holds(root, tasks, n)
  /\ \A p \in 0 .. n - 1 : Placed(root, tasks, p, SaveOf(p))

\* What is published: plan by plan the attempt its statistics record.
Rebuilt(root) ==
  /\ Shaped(root) /\ Holds(root, root.tasks, NumPlans)
  /\ root.info = [st |-> "whole", total |-> NumPlans, ranges |-> RangesIn(Schedule, Split)]
  /\ root.splits = RangesIn(Schedule, Split)
  /\ root.schema = "whole" /\ root.episodes.exists
  /\ \A p \in Plan :
       LET s == [plan |-> p, attempt |-> root.stats[p].attempts]
       IN  s \in Save /\ root.stats[p].index = p /\ Placed(root, root.tasks, p, s)

InOrder(root) == \A p \in Plan : root.manifest[p + 1] = [plan |-> p, index |-> p]

\* One more episode in its place.
LEMMA CopyKeeps ==
  ASSUME NEW p \in Plan, Partial(building, p), Found(p), p = rx.plan, Copyable(p), CopyEpisode
  PROVE  Partial(building', p + 1)
<1> DEFINE old == OldIndex(p)
           s == SaveOf(p)
<1> PICK b : b = building'
  OBVIOUS
<1> PICK root : root = building
  OBVIOUS
<1> PICK entry : entry = [save |-> s, index |-> p]
  OBVIOUS
<1>1. /\ p \in Nat /\ s \in Save /\ s.plan = p /\ Row(old) = s
      /\ MetadataOf(p) = [save |-> s, index |-> old]
      /\ HoldsData(old, s) /\ ResolvesPrompt(old, s)
  BY PlanCount DEF Found, SaveOf
<1>2. [MetadataOf(p) EXCEPT !.index = p] = entry
  BY <1>1
<1>3. b = [root EXCEPT
             !.parquet = Put(root.parquet, p, parquet[old]),
             !.videos  = [x \in DOMAIN root.videos \cup ({p} \X Camera) |->
                            IF x[1] = p THEN videos[<<old, x[2]>>] ELSE root.videos[x]],
             !.episodes.rows = Append(root.episodes.rows, s),
             !.metadata = Append(root.metadata, entry)]
  BY ZenonT(60), <1>1, <1>2 DEF CopyEpisode, CopyFrom
<1>4. /\ Shaped(root) /\ Holds(root, tasks, p)
      /\ \A q \in 0 .. p - 1 : Placed(root, tasks, q, SaveOf(q))
  BY DEF Partial
<1> DEFINE pq == Put(root.parquet, p, parquet[old])
           vd == [x \in DOMAIN root.videos \cup ({p} \X Camera) |->
                            IF x[1] = p THEN videos[<<old, x[2]>>] ELSE root.videos[x]]
           rows == Append(root.episodes.rows, s)
           meta == Append(root.metadata, entry)
<1> HIDE DEF pq, vd, rows, meta
<1>5. /\ b.parquet = pq /\ b.videos = vd /\ b.episodes.rows = rows /\ b.metadata = meta
      /\ DOMAIN b = DOMAIN root /\ DOMAIN b.episodes = DOMAIN root.episodes
      /\ b.episodes.torn = root.episodes.torn
  <2>1. b = [root EXCEPT !.parquet = pq, !.videos = vd, !.episodes.rows = rows,
                         !.metadata = meta]
    BY <1>3 DEF pq, vd, rows, meta
  <2>2. /\ DOMAIN root = {"exists", "info", "episodes", "tasks", "parquet", "videos", "schema",
                          "metadata", "splits", "stats", "manifest"}
        /\ DOMAIN root.episodes = {"exists", "rows", "torn"}
    BY <1>4 DEF Shaped, NoRoot, NoRows
  <2> QED BY <2>1, <2>2
<1> USE DEF pq, vd, rows, meta
<1>6. /\ rows \in Seq(Save) /\ Len(rows) = p + 1 /\ rows[p + 1] = s
      /\ \A q \in 0 .. p - 1 : rows[q + 1] = root.episodes.rows[q + 1]
  <2>1. root.episodes.rows \in Seq(Save) /\ Len(root.episodes.rows) = p
    BY <1>4 DEF Shaped, Holds
  <2>2. /\ rows \in Seq(Save) /\ Len(rows) = p + 1 /\ rows[p + 1] = s
        /\ \A i \in 1 .. p : rows[i] = root.episodes.rows[i]
    BY <1>1, <2>1, AppendProperties
  <2> HIDE DEF rows
  <2> QED BY <1>1, <2>2
<1>7. /\ meta \in Seq([save : Save, index : Nat]) /\ Len(meta) = p + 1 /\ meta[p + 1] = entry
      /\ \A q \in 0 .. p - 1 : meta[q + 1] = root.metadata[q + 1]
  <2>1. /\ root.metadata \in Seq([save : Save, index : Nat]) /\ Len(root.metadata) = p
        /\ entry \in [save : Save, index : Nat]
    BY <1>1, <1>4 DEF Shaped, Holds
  <2>2. /\ meta \in Seq([save : Save, index : Nat]) /\ Len(meta) = p + 1 /\ meta[p + 1] = entry
        /\ \A i \in 1 .. p : meta[i] = root.metadata[i]
    BY <2>1, AppendProperties
  <2> HIDE DEF meta
  <2> QED BY <1>1, <2>2
<1>8. /\ DOMAIN pq = 0 .. p /\ pq[p] = parquet[old]
      /\ \A q \in 0 .. p - 1 : pq[q] = root.parquet[q]
  BY <1>1, <1>4 DEF Put, Holds
<1>9. /\ DOMAIN vd = (0 .. p) \X Camera
      /\ \A cam \in Camera : vd[<<p, cam>>] = Whole(s)
      /\ \A q \in 0 .. p - 1, cam \in Camera : vd[<<q, cam>>] = root.videos[<<q, cam>>]
  <2>1. DOMAIN root.videos = (0 .. p - 1) \X Camera
    BY <1>4 DEF Holds
  <2>2. DOMAIN vd = (0 .. p) \X Camera
    BY <1>1, <2>1
  <2>3. \A cam \in Camera : videos[<<old, cam>>] = Whole(s)
    BY <1>1 DEF HoldsData
  <2> QED BY <1>1, <2>1, <2>2, <2>3
<1> HIDE DEF pq, vd, rows, meta
<1>10. Shaped(b)
  BY <1>4, <1>5, <1>6, <1>7 DEF Shaped
<1>11. Holds(b, tasks, p + 1)
  <2>1. (p + 1) - 1 = p
    BY <1>1
  <2>2. /\ Len(b.episodes.rows) = p + 1 /\ Len(b.metadata) = p + 1
        /\ DOMAIN b.parquet = 0 .. p /\ DOMAIN b.videos = (0 .. p) \X Camera
    BY <1>5, <1>6, <1>7, <1>8, <1>9
  <2> QED BY <2>1, <2>2 DEF Holds
<1>12. \A q \in 0 .. p - 1 : Placed(b, tasks, q, SaveOf(q))
  <2> SUFFICES ASSUME NEW q \in 0 .. p - 1 PROVE Placed(b, tasks, q, SaveOf(q))
    OBVIOUS
  <2>1. Placed(root, tasks, q, SaveOf(q))
    BY <1>4
  <2>2. /\ b.episodes.rows[q + 1] = root.episodes.rows[q + 1]
        /\ b.metadata[q + 1] = root.metadata[q + 1]
        /\ b.parquet[q] = root.parquet[q]
        /\ \A cam \in Camera : b.videos[<<q, cam>>] = root.videos[<<q, cam>>]
    BY <1>6, <1>7, <1>8, <1>9, <1>5
  <2> QED BY <2>1, <2>2 DEF Placed
<1>13. Placed(b, tasks, p, s)
  BY <1>1, <1>6, <1>7, <1>8, <1>9, <1>5 DEF Placed, HoldsData, ResolvesPrompt
<1> HIDE DEF s
<1>14. \A q \in 0 .. p : Placed(b, tasks, q, SaveOf(q))
  <2> SUFFICES ASSUME NEW q \in 0 .. p PROVE Placed(b, tasks, q, SaveOf(q))
    OBVIOUS
  <2>1. q = p \/ q \in 0 .. p - 1
    BY <1>1
  <2> QED BY <1>12, <1>13, <2>1 DEF s
<1> QED BY <1>1, <1>10, <1>11, <1>14 DEF Partial

\* The rows complete, the directory gets the meta files of the whole plan.
LEMMA MetaKeeps ==
  ASSUME TypeInv, Partial(building, NumPlans), \A p \in Plan : Found(p), schema = "whole",
         WriteMeta
  PROVE  Rebuilt(building')
<1> DEFINE filed == [st |-> "whole", total |-> NumPlans, ranges |-> RangesIn(Schedule, Split)]
           ranges == RangesIn(Schedule, Split)
           records == [p \in Plan |-> [stats[p] EXCEPT !.index = p]]
<1> PICK b : b = building'
  OBVIOUS
<1> PICK root : root = building
  OBVIOUS
<1>1. /\ Shaped(root) /\ Holds(root, tasks, NumPlans)
      /\ \A p \in Plan : Placed(root, tasks, p, SaveOf(p))
  BY PlanCount DEF Partial
<1>2. ASSUME NEW p \in Plan
      PROVE  records[p].attempts = stats[p].attempts /\ records[p].index = p
  <2>1. stats[p] \in [attempts : 0 .. MaxAttempt, success : BOOLEAN, index : Nat \cup {NoIndex}]
    BY BookShapes DEF Records
  <2> QED BY <2>1
<1> HIDE DEF filed, ranges, records
<1>3. /\ b.tasks = tasks /\ b.schema = "whole" /\ b.info = filed /\ b.splits = ranges
      /\ b.stats = records /\ b.parquet = root.parquet /\ b.videos = root.videos
      /\ b.metadata = root.metadata /\ b.episodes.exists /\ b.episodes.rows = root.episodes.rows
      /\ DOMAIN b = DOMAIN root /\ DOMAIN b.episodes = DOMAIN root.episodes
      /\ b.episodes.torn = root.episodes.torn
  <2>1. b = [root EXCEPT !.tasks = tasks, !.schema = schema, !.episodes.exists = TRUE,
                         !.info = filed, !.splits = ranges, !.stats = records]
    BY DEF WriteMeta, filed, ranges, records
  <2>2. /\ DOMAIN root = {"exists", "info", "episodes", "tasks", "parquet", "videos", "schema",
                          "metadata", "splits", "stats", "manifest"}
        /\ DOMAIN root.episodes = {"exists", "rows", "torn"}
    BY <1>1 DEF Shaped, NoRoot, NoRows
  <2> QED BY <2>1, <2>2
<1>4. Shaped(b) /\ Holds(b, b.tasks, NumPlans)
  BY <1>1, <1>3 DEF Shaped, Holds
<1>5. ASSUME NEW p \in Plan
      PROVE  /\ b.stats[p].index = p
             /\ Placed(b, b.tasks, p, [plan |-> p, attempt |-> b.stats[p].attempts])
             /\ [plan |-> p, attempt |-> b.stats[p].attempts] \in Save
  <2>1. b.stats[p].index = p /\ [plan |-> p, attempt |-> b.stats[p].attempts] = SaveOf(p)
    BY <1>2, <1>3 DEF SaveOf
  <2>2. Placed(b, b.tasks, p, SaveOf(p))
    BY <1>1, <1>3 DEF Placed
  <2> QED BY <2>1, <2>2 DEF Found
<1> QED BY <1>3, <1>4, <1>5 DEF Rebuilt, filed, ranges

\* The manifest of a settled collection has a line for each plan, and is sorted.
LEMMA ManifestKeeps ==
  ASSUME OneDeathInv, SourceInv, Settled, KeepsMetadata, Rebuilt(building), WriteManifest
  PROVE  rx'.pc # "raised" /\ Rebuilt(building') /\ InOrder(building')
<1> USE DEF OneDeathInv
<1> DEFINE line(k) == [manifest[k] EXCEPT !.index = manifest[k].plan]
           lines == [k \in DOMAIN manifest |-> line(k)]
<1> PICK b : b = building'
  OBVIOUS
<1> PICK root : root = building
  OBVIOUS
<1>1. /\ Len(manifest) = NumPlans /\ DOMAIN manifest = 1 .. NumPlans
      /\ \A k \in DOMAIN manifest : manifest[k].plan \in Plan
      /\ \A j, k \in DOMAIN manifest : manifest[j].plan = manifest[k].plan => j = k
      /\ \A p \in Plan : \E k \in DOMAIN manifest : manifest[k].plan = p
  BY SettledLines
<1>2. ASSUME NEW k \in DOMAIN manifest
      PROVE  lines[k] = [plan |-> manifest[k].plan, index |-> manifest[k].plan]
  <2>1. manifest[k] \in [plan : Plan, index : Nat \cup {NoIndex}]
    BY BookShapes, ElementOfSeq
  <2> PICK entry : entry = manifest[k]
    OBVIOUS
  <2>2. entry = [plan |-> entry.plan, index |-> entry.index]
    BY <2>1
  <2>3. line(k) = [plan |-> entry.plan, index |-> entry.plan]
    BY <2>1
  <2> QED BY <2>3
<1>3. DOMAIN lines = 1 .. NumPlans
  BY <1>1
<1> HIDE DEF lines
<1>4. \A p \in Plan : ByPlan(lines)[p + 1] = [plan |-> p, index |-> p]
  <2> SUFFICES ASSUME NEW p \in Plan PROVE ByPlan(lines)[p + 1] = [plan |-> p, index |-> p]
    OBVIOUS
  <2>1. /\ \A k \in DOMAIN lines : lines[k].plan \in Plan
        /\ \A j, k \in DOMAIN lines : lines[j].plan = lines[k].plan => j = k
        /\ \A q \in Plan : \E k \in DOMAIN lines : lines[k].plan = q
    BY <1>1, <1>2, <1>3
  <2>2. PICK k \in DOMAIN lines : lines[k].plan = p /\ ByPlan(lines)[p + 1] = lines[k]
    BY <1>3, <2>1, SortedLines
  <2> QED BY <1>1, <1>2, <1>3, <2>2
<1>5. rx'.pc = "publish" /\ b = [root EXCEPT !.manifest = ByPlan(lines)]
  <2>1. rx' = [rx EXCEPT !.pc = "publish"]
    BY <1>1 DEF WriteManifest
  <2> QED BY <1>1, <2>1 DEF WriteManifest, lines
<1>6. /\ b.manifest = ByPlan(lines)
      /\ b.tasks = root.tasks /\ b.schema = root.schema /\ b.info = root.info
      /\ b.splits = root.splits /\ b.stats = root.stats /\ b.parquet = root.parquet
      /\ b.videos = root.videos /\ b.metadata = root.metadata /\ b.episodes = root.episodes
      /\ DOMAIN b = DOMAIN root
  <2>1. DOMAIN root = {"exists", "info", "episodes", "tasks", "parquet", "videos", "schema",
                       "metadata", "splits", "stats", "manifest"}
    BY DEF Rebuilt, Shaped, NoRoot
  <2> QED BY <1>5, <2>1
<1>7. Rebuilt(b)
  <2>1. Rebuilt(root)
    OBVIOUS
  <2>2. Shaped(b) /\ Holds(b, b.tasks, NumPlans)
    BY <1>6, <2>1 DEF Rebuilt, Shaped, Holds
  <2>3. \A p, s : Placed(root, root.tasks, p, s) => Placed(b, b.tasks, p, s)
    BY <1>6 DEF Placed
  <2> QED BY <1>6, <2>1, <2>2, <2>3 DEF Rebuilt
<1> QED BY <1>4, <1>5, <1>6, <1>7 DEF InOrder

\* The definitions a dataset is judged by do not depend on whose dataset it is.
LEMMA SameJudge ==
  /\ Out!Plan = Plan /\ Out!Camera = Camera /\ Out!Split = Split /\ Out!NoSplits = NoSplits
  /\ Out!RangesIn(Out!Schedule, Out!Split) = RangesIn(Schedule, Split)
  /\ \A s : Out!Whole(s) = Whole(s)
  /\ \A S : Out!Cardinality(S) = Cardinality(S)
<1>0. \A S : Out!Cardinality(S) = Cardinality(S)
  BY DEF Out!Cardinality, Cardinality
<1>1. Out!Plan = Plan /\ Out!Camera = Camera /\ Out!Split = Split /\ Out!Schedule = Schedule
      /\ Out!NoSplits = NoSplits
  BY DEF Out!Plan, Plan, Out!Camera, Camera, Out!Split, Split, Out!Schedule, Schedule,
         Out!NoSplits, NoSplits
<1>2. \A seq, S : Out!Occurrences(seq, S) = Occurrences(seq, S)
  BY <1>0 DEF Out!Occurrences, Occurrences
<1>3. \A sp : Out!Earlier(sp) = Earlier(sp)
  BY DEF Out!Earlier, Earlier
<1>4. \A seq, sp : Out!RangeIn(seq, sp) = RangeIn(seq, sp)
  BY <1>2, <1>3 DEF Out!RangeIn, RangeIn
<1>5. \A seq, S : Out!RangesIn(seq, S) = RangesIn(seq, S)
  BY <1>4 DEF Out!RangesIn, RangesIn
<1> QED BY <1>0, <1>1, <1>5 DEF Out!Whole, Whole

\* What is published in the order of the plan is accepted, and is true.
LEMMA OutputHolds ==
  ASSUME Contiguous(Schedule), Rebuilt(output), InOrder(output)
  PROVE  OutputTrue
<1> DEFINE s(p) == [plan |-> p, attempt |-> output.stats[p].attempts]
           ranges == RangesIn(Schedule, Split)
<1>1. /\ output.episodes.rows \in Seq(Save) /\ Len(output.episodes.rows) = NumPlans
      /\ DOMAIN output.episodes.rows = 1 .. NumPlans
      /\ output.metadata \in Seq([save : Save, index : Nat]) /\ Len(output.metadata) = NumPlans
      /\ DOMAIN output.metadata = 1 .. NumPlans
      /\ DOMAIN output.parquet = Plan /\ DOMAIN output.videos = Plan \X Camera
      /\ output.info.st = "whole" /\ output.info.total = NumPlans
      /\ output.info.ranges = ranges /\ output.splits = ranges
      /\ output.schema = "whole" /\ output.episodes.exists /\ ~ output.episodes.torn
  BY PlanCount DEF Rebuilt, Shaped, Holds
<1>2. ASSUME NEW p \in Plan
      PROVE  /\ s(p) \in Save /\ s(p).plan = p /\ output.stats[p].index = p
             /\ output.episodes.rows[p + 1] = s(p)
             /\ output.metadata[p + 1] = [save |-> s(p), index |-> p]
             /\ output.parquet[p].st = "whole" /\ output.parquet[p].save = s(p)
             /\ output.parquet[p].task + 1 \in DOMAIN output.tasks
             /\ output.tasks[output.parquet[p].task + 1] = PromptOf[p]
             /\ \A cam \in Camera : output.videos[<<p, cam>>] = Whole(s(p))
  BY DEF Rebuilt, Placed
<1> HIDE DEF s, ranges
<1>3. Out!FilesPresent
  <2>1. output.metadata # << >>
    BY <1>1, PlanCount
  <2>2. ranges # NoSplits
    <3>1. PICK p : p \in Plan
      BY PlanCount
    <3>2. SplitOf[p] \in Split
      BY <3>1, CollectorAssumption
    <3>3. DOMAIN ranges # {}
      BY <3>2 DEF ranges, RangesIn
    <3> QED BY <3>3 DEF NoSplits
  <2> QED BY <1>1, <2>1, <2>2, SameJudge DEF Out!FilesPresent
<1>4. Out!CountsAgree
  <2>1. IsFiniteSet(Camera) /\ Cardinality(Camera) = NumCameras
    BY IntervalCounts, WriterAssumption DEF Camera
  <2>2. Cardinality(Plan \X Camera) = NumPlans * NumCameras
    BY <2>1, PlanCount, FS_Product
  <2>3. /\ Cardinality(DOMAIN output.parquet) = NumPlans
        /\ Cardinality(DOMAIN output.videos) = NumPlans * NumCameras
    BY <1>1, <2>2, PlanCount
  <2> QED BY <1>1, <2>3, SameJudge DEF Out!CountsAgree, Out!Rows
<1>5. Out!ParquetReadable
  <2> SUFFICES ASSUME NEW i \in Plan
               PROVE  output.parquet[i].st = "whole" /\ i < NumPlans
    BY <1>1 DEF Out!ParquetReadable, Out!Rows
  <2>1. output.parquet[i].st = "whole"
    BY <1>2
  <2> QED BY <2>1, PlanCount
<1>6. \A k \in 1 .. NumPlans : k - 1 \in Plan /\ (k - 1) + 1 = k
  BY PlanCount
<1>7. Out!IndexesConsecutive /\ \A k \in DOMAIN output.metadata :
        output.metadata[k].save.plan = k - 1
  <2> SUFFICES ASSUME NEW k \in DOMAIN output.metadata
               PROVE  output.metadata[k].index = k - 1 /\ output.metadata[k].save.plan = k - 1
    BY DEF Out!IndexesConsecutive
  <2> PICK p : p = k - 1
    OBVIOUS
  <2>1. p \in Plan /\ p + 1 = k
    BY <1>1, <1>6
  <2>2. output.metadata[p + 1] = [save |-> s(p), index |-> p] /\ s(p).plan = p
    BY <1>2, <2>1
  <2> QED BY <2>1, <2>2
<1>8. ASSUME NEW p \in Plan
      PROVE  /\ Out!HoldsData(p, s(p)) /\ Out!ResolvesPrompt(p, s(p)) /\ Out!Row(p) = s(p)
             /\ output.metadata[p + 1].save = s(p)
  <2>1. Out!HoldsData(p, s(p))
    BY ZenonT(60), <1>1, <1>2, SameJudge DEF Out!HoldsData
  <2>2. Out!ResolvesPrompt(p, s(p))
    BY <1>2 DEF Out!ResolvesPrompt
  <2>3. output.metadata[p + 1].save = s(p)
    <3> PICK entry : entry = [save |-> s(p), index |-> p]
      OBVIOUS
    <3>1. output.metadata[p + 1] = entry
      BY <1>2
    <3> QED BY <3>1
  <2>4. Out!Row(p) = s(p)
    BY <1>2 DEF Out!Row, Out!Rows
  <2> QED BY <2>1, <2>2, <2>3, <2>4
<1>9. Out!AcceptsRandomized
  <2>1. \A i \in DOMAIN output.parquet : Out!ResolvesPrompt(i, output.metadata[i + 1].save)
    BY <1>1, <1>8
  <2> QED BY <1>1, <1>3, <1>4, <1>5, <1>7, <2>1, SameJudge DEF Out!AcceptsRandomized, ranges
<1>10. 0 .. Len(output.episodes.rows) - 1 = Plan
  BY <1>1, PlanCount
<1>11. Out!SplitsTrue
  <2> SUFFICES ASSUME NEW i \in Plan, NEW sp \in DOMAIN ranges
               PROVE  (ranges[sp][1] <= i /\ i < ranges[sp][2]) <=> SplitOf[Out!Row(i).plan] = sp
    BY <1>1, <1>10 DEF Out!SplitsTrue, Out!Rows
  <2>1. sp \in Split /\ ranges[sp] = RangeIn(Schedule, sp)
    BY DEF ranges, RangesIn
  <2>2. Out!Row(i).plan = i
    BY <1>2, <1>8
  <2> QED BY <2>1, <2>2, PlannedRanges
<1>12. Out!DatasetTrue
  BY <1>2, <1>8, <1>10, <1>11 DEF Out!DatasetTrue, Out!Rows
<1>13. Out!RecordedSuccessIsOnDisk
  <2> SUFFICES ASSUME NEW p \in Plan
               PROVE  /\ output.stats[p].index \in 0 .. Len(output.episodes.rows) - 1
                      /\ Out!Row(output.stats[p].index) = Out!SaveOf(p)
                      /\ Out!HoldsData(output.stats[p].index, Out!SaveOf(p))
                      /\ Out!ResolvesPrompt(output.stats[p].index, Out!SaveOf(p))
    BY SameJudge DEF Out!RecordedSuccessIsOnDisk, Out!Succeeded, Out!Rows
  <2>1. Out!SaveOf(p) = s(p)
    BY DEF Out!SaveOf, s
  <2> QED BY <1>2, <1>8, <1>10, <2>1
<1> QED BY <1>9, <1>12, <1>13 DEF OutputTrue, InOrder

\* What lies under output.building and under output, for each place the reindexer is at.
BuildInv ==
  /\ rx = [pc |-> rx.pc, plan |-> rx.plan]
  /\ rx.pc \in {"idle", "refused", "killed", "published", "copy", "manifest", "publish"}
  /\ rx.plan \in 0 .. NumPlans
  /\ rx.pc \in {"copy", "manifest"} => Settled
  /\ rx.pc = "copy" => Partial(building, rx.plan)
  /\ rx.pc = "manifest" => Rebuilt(building)
  /\ rx.pc = "publish" => Rebuilt(building) /\ InOrder(building)
  /\ output.exists => Rebuilt(output) /\ InOrder(output)
  /\ builds \in Nat

\* The copies are judged by the vocabulary and the statistics of the source alone.
LEMMA PartialSame ==
  ASSUME NEW b, NEW n, b = building', n = rx'.plan, UNCHANGED <<tasks, stats>>, Partial(b, n)
  PROVE  Partial(building, rx.plan)'
BY DEF Partial, Holds, Placed, SaveOf, Shaped

\* A collector that is started beside it changes nothing of a recovered source.
LEMMA BuildAside ==
  ASSUME OneDeathInv, FinishInv, BuildInv, [Next]_vars, UNCHANGED reindexVars
  PROVE  BuildInv'
<1>1. UNCHANGED <<rx, building, output, builds>>
  BY DEF reindexVars
<1>2. rx.pc \in {"copy", "manifest"} => Settled' /\ UNCHANGED <<tasks, stats>>
  BY SettledStays DEF BuildInv
<1>3. rx.pc = "copy" => Partial(building, rx.plan)'
  <2> SUFFICES ASSUME rx.pc = "copy" PROVE Partial(building, rx.plan)'
    OBVIOUS
  <2> PICK b : b = building
    OBVIOUS
  <2> PICK n : n = rx.plan
    OBVIOUS
  <2>1. b = building' /\ n = rx'.plan /\ Partial(b, n) /\ UNCHANGED <<tasks, stats>>
    BY <1>1, <1>2 DEF BuildInv
  <2> QED BY <2>1, PartialSame
<1> QED BY <1>1, <1>2, <1>3 DEF BuildInv

\* A run starts only on a recovered source, with an empty directory.
LEMMA StartKeeps ==
  ASSUME BuildInv, StartBuild
  PROVE  BuildInv'
<1>1. UNCHANGED vars /\ UNCHANGED output /\ builds' = builds + 1 /\ builds \in Nat
      /\ rx.plan \in 0 .. NumPlans
  BY DEF StartBuild, SourceUnchanged, BuildInv
<1>2. CASE output.exists \/ building.exists \/ ~ Recovered
  <2>1. rx' = [rx EXCEPT !.pc = "refused"] /\ building' = building
    BY <1>2 DEF StartBuild
  <2>2. rx'.pc = "refused" /\ rx'.plan = rx.plan /\ rx' = [pc |-> rx'.pc, plan |-> rx'.plan]
    BY <2>1 DEF BuildInv
  <2> QED BY <1>1, <2>1, <2>2 DEF BuildInv
<1>3. CASE ~ (output.exists \/ building.exists \/ ~ Recovered)
  <2>1. /\ rx' = [pc |-> "copy", plan |-> 0] /\ building' = [NoRoot EXCEPT !.exists = TRUE]
        /\ Recovered /\ coll.pc \in Stopped /\ ~ Live
    BY <1>3 DEF StartBuild
  <2>2. rx'.pc = "copy" /\ rx'.plan = 0 /\ rx' = [pc |-> rx'.pc, plan |-> rx'.plan]
    BY <2>1
  <2>3. Settled
    BY <2>1 DEF Settled, Stopped
  <2>4. Settled' /\ UNCHANGED <<tasks, stats>>
    BY <1>1, <2>3 DEF Settled, Live, Recovered, Rows, vars, datasetVars, childVars, collectorVars
  <2>5. Partial([NoRoot EXCEPT !.exists = TRUE], 0)
    <3> PICK b : b = [NoRoot EXCEPT !.exists = TRUE]
      OBVIOUS
    <3>1. /\ DOMAIN b = DOMAIN NoRoot /\ DOMAIN b.episodes = DOMAIN NoRows /\ ~ b.episodes.torn
          /\ b.episodes.rows = << >> /\ b.metadata = << >>
          /\ b.parquet = NoFiles /\ b.videos = NoFiles
      BY DEF NoRoot, NoRows
    <3>2. DOMAIN NoFiles = {} /\ 0 .. 0 - 1 = {}
      BY DEF NoFiles
    <3>3. Shaped(b)
      <4>1. \A S : << >> \in Seq(S)
        BY EmptySeq
      <4>2. b.episodes.rows \in Seq(Save) /\ b.metadata \in Seq([save : Save, index : Nat])
        BY <3>1, <4>1, Zenon
      <4> QED BY <3>1, <4>2, Zenon DEF Shaped
    <3>4. Holds(b, tasks, 0)
      BY <3>1, <3>2 DEF Holds
    <3> QED BY <3>2, <3>3, <3>4 DEF Partial
  <2>6. Partial(building, rx.plan)'
    <3> PICK b : b = building'
      OBVIOUS
    <3> PICK n : n = rx'.plan
      OBVIOUS
    <3>1. Partial(b, n)
      BY <2>1, <2>2, <2>5
    <3> QED BY <2>4, <3>1, PartialSame
  <2>7. rx'.plan \in 0 .. NumPlans
    BY <2>2, PlanCount
  <2> QED BY <1>1, <2>2, <2>4, <2>6, <2>7 DEF BuildInv
<1> QED BY <1>2, <1>3

\* The source is found complete at every step, so that no step raises.
LEMMA BuildSteps ==
  ASSUME OneDeathInv, SourceInv, BuildInv, KeepsMetadata, Contiguous(Schedule),
         RebuildStep \/ KillReindexer \/ RemoveBuilding
  PROVE  BuildInv'
<1>1. UNCHANGED vars
  BY DEF RebuildStep, StartBuild, CopyEpisode, WriteMeta, WriteManifest, Publish, KillReindexer,
         RemoveBuilding, SourceUnchanged
<1>2. /\ Settled => Settled'
      /\ UNCHANGED <<tasks, stats>>
  BY <1>1 DEF Settled, Live, Recovered, Rows, vars, datasetVars, childVars, collectorVars
<1>3. CASE StartBuild
  BY <1>3, StartKeeps
<1>4. ASSUME Settled
      PROVE  /\ \A p \in Plan : Found(p) /\ Copyable(p)
             /\ schema = "whole" /\ TypeInv
  <2>1. \A p \in Plan : Found(p)
    BY <1>4, SettledFound
  <2>2. \A p \in Plan : Copyable(p)
    BY <2>1, SettledCopies
  <2> QED BY <1>4, <2>1, <2>2, SettledFacts DEF OneDeathInv
<1>5. CASE CopyEpisode
  <2> PICK p : p = rx.plan
    OBVIOUS
  <2>1. /\ rx.pc = "copy" /\ p \in Plan /\ Settled /\ Partial(building, p)
        /\ UNCHANGED <<output, builds>>
    BY <1>5 DEF CopyEpisode, BuildInv
  <2>2. Found(p) /\ Copyable(p)
    BY <1>4, <2>1
  <2>3. rx' = [rx EXCEPT !.plan = p + 1]
    BY <1>5, <2>2 DEF CopyEpisode
  <2>4. rx' = [pc |-> "copy", plan |-> p + 1]
    BY <2>1, <2>3 DEF BuildInv
  <2>5. Partial(building', p + 1)
    BY <1>5, <2>1, <2>2, CopyKeeps
  <2>6. Partial(building, rx.plan)'
    <3> PICK b : b = building'
      OBVIOUS
    <3> PICK n : n = p + 1
      OBVIOUS
    <3>1. Partial(b, n) /\ n = rx'.plan
      BY <2>4, <2>5
    <3> QED BY <1>2, <3>1, PartialSame
  <2>7. p + 1 \in 0 .. NumPlans
    BY <2>1, PlanCount
  <2>8. rx'.pc = "copy" /\ rx'.plan = p + 1
    BY <2>4
  <2> QED BY <1>2, <2>1, <2>4, <2>6, <2>7, <2>8 DEF BuildInv
<1>6. CASE WriteMeta
  <2>1. /\ rx.pc = "copy" /\ rx.plan = NumPlans /\ Settled /\ Partial(building, NumPlans)
        /\ UNCHANGED <<output, builds>> /\ rx' = [rx EXCEPT !.pc = "manifest"]
    BY <1>6 DEF WriteMeta, BuildInv
  <2>2. rx'.pc = "manifest" /\ rx'.plan = rx.plan /\ rx' = [pc |-> rx'.pc, plan |-> rx'.plan]
    BY <2>1 DEF BuildInv
  <2>3. Rebuilt(building')
    BY <1>4, <1>6, <2>1, MetaKeeps
  <2> QED BY <1>2, <2>1, <2>2, <2>3 DEF BuildInv
<1>7. CASE WriteManifest
  <2>1. /\ rx.pc = "manifest" /\ Settled /\ Rebuilt(building) /\ UNCHANGED <<output, builds>>
    BY <1>7 DEF WriteManifest, BuildInv
  <2>2. rx'.pc # "raised" /\ Rebuilt(building') /\ InOrder(building')
    BY <1>7, <2>1, ManifestKeeps
  <2>3. rx' = [rx EXCEPT !.pc = "publish"] \/ rx' = [rx EXCEPT !.pc = "raised"]
    BY <1>7 DEF WriteManifest
  <2>4. rx'.pc = "publish" /\ rx'.plan = rx.plan /\ rx' = [pc |-> rx'.pc, plan |-> rx'.plan]
    BY <2>2, <2>3 DEF BuildInv
  <2> QED BY <2>1, <2>2, <2>4 DEF BuildInv
<1>8. CASE Publish
  <2>1. /\ rx.pc = "publish" /\ Rebuilt(building) /\ InOrder(building)
        /\ output' = building /\ builds' = builds /\ rx' = [rx EXCEPT !.pc = "published"]
    BY <1>8 DEF Publish, BuildInv
  <2>2. rx'.pc = "published" /\ rx'.plan = rx.plan /\ rx' = [pc |-> rx'.pc, plan |-> rx'.plan]
    BY <2>1 DEF BuildInv
  <2>3. Rebuilt(output') /\ InOrder(output')
    BY <2>1
  <2> QED BY <2>1, <2>2, <2>3 DEF BuildInv
<1>9. CASE KillReindexer
  <2>1. rx' = [rx EXCEPT !.pc = "killed"] /\ UNCHANGED <<building, output, builds>>
    BY <1>9 DEF KillReindexer
  <2>2. rx'.pc = "killed" /\ rx'.plan = rx.plan /\ rx' = [pc |-> rx'.pc, plan |-> rx'.plan]
    BY <2>1 DEF BuildInv
  <2> QED BY <2>1, <2>2 DEF BuildInv
<1>10. CASE RemoveBuilding
  <2>1. rx.pc \in RxStopped /\ UNCHANGED <<rx, output, builds>>
    BY <1>10 DEF RemoveBuilding
  <2>2. rx.pc \notin {"copy", "manifest", "publish"}
    BY <2>1 DEF RxStopped
  <2> QED BY <2>1, <2>2 DEF BuildInv
<1> QED BY <1>3, <1>5, <1>6, <1>7, <1>8, <1>9, <1>10 DEF RebuildStep

\* The source as the reindexer may find it at any time, and what it has built from it.
RebuildInv ==
  kind = "randomized" /\ OneDeathInv /\ FinishInv /\ FreshInv /\ SourceInv /\ BuildInv

\* The other tools do not touch what it builds.
ReindexerInv ==
  IF tool = "reindexer" THEN RebuildInv
  ELSE rx.pc = "idle" /\ ~ output.exists /\ builds \in Nat

\* Nothing is collected and nothing is built.
LEMMA RebuildInit ==
  ASSUME Init, kind = "randomized", ReindexInit
  PROVE  RebuildInv
<1>1. OneDeathInv /\ SaveInv /\ BooksInv
  BY OneDeathInit, SaveInit, BooksInit
<1>2. FinishInv
  BY DEF Init, FinishInv, Finishing
<1>3. /\ metadata = << >> /\ manifest = << >> /\ ~ episodes.torn
      /\ child.stage = "none" /\ coll.pc = "idle"
      /\ \A p \in Plan : ~ stats[p].success
  BY DEF Init, ChildInit, DatasetInit, NoChild, NoRows
<1>4. FreshInv
  BY <1>1, <1>3 DEF FreshInv
<1>5. SourceInv
  <2>1. MemoryAhead
    BY <1>1 DEF BooksInv
  <2>2. InfoListed /\ SchemaFirst
    BY <1>3 DEF InfoListed, SchemaFirst, IsListed, Listed
  <2>3. LinesFollow
    <3>1. DOMAIN manifest = {}
      BY <1>3, EmptySeq
    <3> QED BY <1>3, <3>1 DEF LinesFollow
  <2> QED BY <2>1, <2>2, <2>3 DEF SourceInv
<1>6. BuildInv
  <2>1. rx = [pc |-> "idle", plan |-> 0] /\ output = NoRoot /\ builds = 0
    BY DEF ReindexInit
  <2>2. rx.pc = "idle" /\ rx.plan = 0 /\ rx = [pc |-> rx.pc, plan |-> rx.plan]
    BY <2>1
  <2>3. ~ output.exists /\ 0 \in 0 .. NumPlans
    BY <2>1, PlanCount DEF NoRoot
  <2> QED BY <2>1, <2>2, <2>3 DEF BuildInv
<1> QED BY <1>1, <1>2, <1>4, <1>5, <1>6 DEF RebuildInv

\* A step of the collector, and one of the reindexer.
LEMMA RebuildSteps ==
  ASSUME MaxSaveDeaths <= 1, Contiguous(Schedule), RebuildInv,
         ReindexNext \/ UNCHANGED allVars
  PROVE  RebuildInv'
<1> USE DEF RebuildInv
<1>1. [Next]_vars
  BY DEF ReindexNext, RebuildStep, StartBuild, CopyEpisode, WriteMeta, WriteManifest, Publish,
         KillReindexer, RemoveBuilding, SourceUnchanged, allVars
<1>2. KeepsMetadata
  BY DEF KeepsMetadata
<1>3. OneDeathInv' /\ (Skewed => Skewed') /\ kind' = kind
  BY <1>1, <1>2, OneDeathSteps
<1>4. FinishInv'
  BY <1>1, <1>3, FinishStep
<1>5. FreshInv'
  BY <1>1, FreshStep
<1>6. SourceInv'
  BY <1>1, <1>2, <1>3, <1>4, SourceStep
<1>7. BuildInv'
  <2>1. CASE UNCHANGED reindexVars
    BY <1>1, <2>1, BuildAside
  <2>2. CASE RebuildStep \/ KillReindexer \/ RemoveBuilding
    BY <1>2, <2>2, BuildSteps
  <2> QED BY <2>1, <2>2 DEF ReindexNext, allVars
<1> QED BY <1>3, <1>4, <1>5, <1>6, <1>7

\* A step of the tool that is run.
LEMMA ReindexerStep ==
  ASSUME MaxSaveDeaths <= 1, Contiguous(Schedule), ReindexerInv, [ToolNext]_toolVars
  PROVE  ReindexerInv'
<1>1. tool' = tool
  BY DEF ToolNext, toolVars
<1>2. CASE tool = "reindexer"
  <2>1. ReindexNext \/ UNCHANGED allVars
    BY <1>2 DEF ToolNext, toolVars
  <2> QED BY <1>1, <1>2, <2>1, RebuildSteps DEF ReindexerInv
<1>3. CASE tool # "reindexer"
  <2>1. UNCHANGED reindexVars
    BY <1>3 DEF ToolNext, toolVars, allVars, NotBatch
  <2> QED BY <1>1, <1>3, <2>1 DEF ReindexerInv, reindexVars
<1> QED BY <1>2, <1>3

\* The source of the reindexer and its output, beside every tool.
LEMMA ReindexerInvariant ==
  ASSUME MaxSaveDeaths <= 1, Contiguous(Schedule)
  PROVE  ToolSpec => []ReindexerInv
<1>1. ToolInit => ReindexerInv
  <2> SUFFICES ASSUME ToolInit PROVE ReindexerInv
    OBVIOUS
  <2>1. Init /\ ReindexInit /\ (tool = "reindexer" => kind = "randomized")
    BY DEF ToolInit
  <2>2. rx.pc = "idle" /\ ~ output.exists /\ builds \in Nat
    BY <2>1 DEF ReindexInit, NoRoot
  <2> QED BY <2>1, <2>2, RebuildInit DEF ReindexerInv
<1>2. ReindexerInv /\ [ToolNext]_toolVars => ReindexerInv'
  BY ReindexerStep
<1> QED BY <1>1, <1>2, PTL DEF ToolSpec

(***************************************************************************)
(* Whatever path the collection took, through retries, recoveries, crashes *)
(* and a death inside a save, an output of the reindexer that exists is a  *)
(* dataset that is accepted and true: plan i at index i with the data of   *)
(* the attempt the statistics record, its own prompt, its metadata and its *)
(* manifest row.  The checks before the first copy count rows and compare  *)
(* two sets of plans; that they find a source whose every row holds its    *)
(* data is what the collector owes them.                                   *)
(***************************************************************************)
THEOREM RebuiltDatasetsAreTrue ==
  ASSUME MaxSaveDeaths <= 1, Contiguous(Schedule)
  PROVE  ToolSpec => []OutputTrue
<1>1. ReindexerInv => OutputTrue
  <2> SUFFICES ASSUME ReindexerInv, output.exists PROVE OutputTrue
    BY DEF OutputTrue
  <2>1. Rebuilt(output) /\ InOrder(output)
    BY DEF ReindexerInv, RebuildInv, BuildInv
  <2> QED BY <2>1, OutputHolds
<1> QED BY <1>1, ReindexerInvariant, PTL

\* Every plan a success and no death in a save: as many rows, with their metadata.
LEMMA FreshIsRecovered ==
  ASSUME TypeInv, FreshInv, KeepsMetadata, deaths = << >>, Succeeded(stats) = Plan,
         coll.pc \in Stopped, ~ Live
  PROVE  Recovered
<1>1. SaveInv /\ BooksInv /\ ~ episodes.torn
  BY DEF FreshInv
<1>2. CommittedPlans = Plan
  <2>1. CommittedPlans \subseteq Plan
    BY RowPlans DEF CommittedPlans
  <2>2. Plan \subseteq CommittedPlans
    BY <1>1, RecordedAreCommitted
  <2> QED BY <2>1, <2>2
<1>3. Len(Rows) = NumPlans
  BY <1>1, <1>2, RowsCountPlans, PlanCount DEF BooksInv
<1>4. /\ Len(metadata) = NumPlans
      /\ \A k \in DOMAIN metadata : metadata[k] = [save |-> Rows[k], index |-> k - 1]
  BY <1>1, <1>3 DEF BooksInv, MetadataFollows, Live, SaveStages
<1>5. DOMAIN metadata = DOMAIN Rows
  BY <1>3, <1>4, Shapes, BookShapes
<1>6. {metadata[k].save.plan : k \in DOMAIN metadata} = Plan
  <2>1. ASSUME NEW k \in DOMAIN metadata PROVE metadata[k].save.plan = Rows[k].plan
    <3> PICK row : row = Rows[k]
      OBVIOUS
    <3>1. metadata[k] = [save |-> row, index |-> k - 1]
      BY <1>4
    <3> QED BY <3>1
  <2> QED BY <1>2, <1>5, <2>1, Zenon DEF CommittedPlans
<1> QED BY <1>1, <1>3, <1>4, <1>6 DEF Recovered

(***************************************************************************)
(* A recovered collection is rebuilt.  When every plan is recorded as a    *)
(* success and no process died in a save, a run is refused only because of *)
(* the directories of an earlier one; and a rebuild that started, also     *)
(* after a death inside a save, is never stopped by an unreadable file or  *)
(* by the manifest, which is counted last.                                 *)
(***************************************************************************)
THEOREM RebuildsAreComplete ==
  ASSUME MaxSaveDeaths <= 1, Contiguous(Schedule)
  PROVE  ToolSpec => CompleteIsRebuilt
<1> DEFINE Completes ==
             /\ rx'.pc # "raised"
             /\ StartBuild /\ Succeeded(stats) = Plan /\ deaths = << >> =>
                  output.exists \/ building.exists \/ rx'.pc = "copy"
<1>1. ReindexerInv /\ [ToolNext]_toolVars => [Completes]_allVars
  <2> SUFFICES ASSUME ReindexerInv, ToolNext PROVE Completes
    BY DEF toolVars
  <2>1. CASE tool = "reindexer"
    <3>1. ReindexerInv' /\ tool' = tool
      BY ReindexerStep DEF ToolNext
    <3>2. rx'.pc # "raised"
      BY <2>1, <3>1 DEF ReindexerInv, RebuildInv, BuildInv
    <3>3. ASSUME StartBuild, Succeeded(stats) = Plan, deaths = << >>, ~ output.exists,
                 ~ building.exists
          PROVE  rx'.pc = "copy"
      <4>1. /\ OneDeathInv /\ TypeInv /\ FreshInv /\ KeepsMetadata
        BY <2>1 DEF ReindexerInv, RebuildInv, OneDeathInv, KeepsMetadata
      <4>2. coll.pc \in Stopped /\ ~ Live
        BY <3>3 DEF StartBuild
      <4>3. Recovered
        BY <3>3, <4>1, <4>2, FreshIsRecovered
      <4>4. rx' = [pc |-> "copy", plan |-> 0]
        BY <3>3, <4>3 DEF StartBuild
      <4> QED BY <4>4
    <3> QED BY <3>2, <3>3
  <2>2. CASE tool # "reindexer"
    <3>1. UNCHANGED reindexVars
      BY <2>2 DEF ToolNext, allVars, NotBatch
    <3>2. rx' = rx /\ builds' = builds /\ rx.pc = "idle" /\ builds \in Nat
      BY <2>2, <3>1 DEF ReindexerInv, reindexVars
    <3>3. ~ StartBuild
      BY <3>2 DEF StartBuild
    <3> QED BY <3>2, <3>3
  <2> QED BY <2>1, <2>2
<1> QED BY <1>1, ReindexerInvariant, PTL DEF ToolSpec, CompleteIsRebuilt

-----------------------------------------------------------------------------
(* A scene that is laid out. *)

\* A fruit in reach, on the side of its slot.
Standing(at, order, f) ==
  /\ at[f] = <<at[f][1], at[f][2]>> /\ at[f][1] \in Int /\ at[f][2] \in Int
  /\ Scenes!InReach(at[f])
  /\ at[f][2] > 0 <=> Scenes!SlotIn(order, f) < 2

Clear(at, order, S) ==
  /\ \A f \in S : Standing(at, order, f)
  /\ \A f, g \in S : f # g => Scenes!Apart(at[f], at[g], Scenes!MinTableSeparation)

OnGrid == scene.layout \in 0 .. 15 /\ scene.order = Scenes!Permuted[1]

\* The transport layout needs no draw to be repeated.
TransportScene ==
  /\ scene.pc \in {"place", "ready"} /\ scene.preloaded = {} /\ scene.crate = Scenes!CrateXY
  /\ scene.pc = "ready" =>
       /\ \A f \in Scenes!Fruits : Scenes!InReach(scene.at[f])
       /\ \A f, g \in Scenes!Fruits : f # g => Scenes!Apart(scene.at[f], scene.at[g], 78)

\* What has been placed on the grid stays clear, fruit by fruit.
GridScene ==
  /\ OnGrid /\ scene.jitter \in Int
  /\ scene.pc \in {"place", "ready", "failed"}
  /\ DOMAIN scene.at \subseteq Scenes!Fruits
  /\ Clear(scene.at, scene.order, DOMAIN scene.at \ scene.preloaded)
  /\ scene.pc = "ready" => DOMAIN scene.at = Scenes!Fruits /\ Scenes!CrateOnTable(scene.crate)

\* A candidate keeps its side, and one that is checked is clear of the other slots.
EpisodeScene ==
  /\ OnGrid /\ scene.target \in Scenes!Fruits /\ scene.preloaded = {}
  /\ scene.pc \in {"draw", "check", "settle", "ready", "failed"}
  /\ scene.pc = "check" =>
       LET p == scene.at[scene.target]
       IN  /\ p = <<p[1], p[2]>> /\ p[1] \in Int /\ p[2] \in Int
           /\ p[2] > 0 <=> Scenes!SlotIn(scene.order, scene.target) < 2
  /\ scene.pc \in {"settle", "ready"} =>
       /\ Clear(scene.at, scene.order, Scenes!Fruits)
       /\ Scenes!CrateOnTable(scene.crate)

\* As long as no sample was given up, the report has every draw of the samples before.
PreflightScene ==
  /\ scene.pc \in {"draw", "check", "settle", "summary", "done"}
  /\ scene.attempt \in Nat /\ tally.valid <= tally.sample
  /\ scene.pc \in {"draw", "check", "settle"} =>
       /\ ~ tally.passed /\ tally.sample < NumSamples
       /\ tally.valid = tally.sample => tally.drawn = tally.reported + scene.attempt
  /\ scene.pc = "summary" =>
       /\ ~ tally.passed /\ tally.sample = NumSamples
       /\ tally.valid = tally.sample => tally.drawn = tally.reported
  /\ scene.pc = "done" => (tally.passed => tally.reported = tally.drawn)

SceneFields(s) ==
  s = [use |-> s.use, pc |-> s.pc, target |-> s.target, layout |-> s.layout,
       order |-> s.order, attempt |-> s.attempt, tries |-> s.tries, jitter |-> s.jitter,
       preloaded |-> s.preloaded, at |-> s.at, crate |-> s.crate, limits |-> s.limits]

TallyFields(t) ==
  /\ t = [sample |-> t.sample, valid |-> t.valid, reported |-> t.reported,
          drawn |-> t.drawn, passed |-> t.passed]
  /\ t.sample \in Nat /\ t.valid \in Nat /\ t.reported \in Nat /\ t.drawn \in Nat

LaidOut ==
  \/ scene.use = "transport" /\ TransportScene /\ ~ tally.passed
  \/ scene.use = "grid" /\ GridScene /\ ~ tally.passed
  \/ scene.use = "episode" /\ EpisodeScene /\ ~ tally.passed
  \/ scene.use = "preflight" /\ PreflightScene

SceneInv == tool = "scene" => SceneFields(scene) /\ TallyFields(tally) /\ LaidOut

\* The first order of the fruits has each of them once.
LEMMA FirstOrder ==
  /\ \A i \in 1 .. 4 : Scenes!Permuted[1][i] \in Scenes!Fruits
  /\ \A i, j \in 1 .. 4 : i # j => Scenes!Permuted[1][i] # Scenes!Permuted[1][j]
<1> DEFINE Orders == Scenes!SetToSeqs(Scenes!Fruits)
           first == [i \in 1 .. 4 |-> i]
           Earlier1(s) == {t \in Orders : Scenes!Before(t, s)}
<1>1. Orders = {s \in [1 .. 4 -> 1 .. 4] : \A i, j \in 1 .. 4 : i # j => s[i] # s[j]}
  <2>1. Scenes!Cardinality(1 .. 4) = 4
    <3>1. \A S : Scenes!Cardinality(S) = Cardinality(S)
      BY DEF Scenes!Cardinality, Cardinality
    <3> QED BY <3>1, IntervalCounts
  <2> QED BY <2>1 DEF Scenes!SetToSeqs, Scenes!Fruits
<1>2. first \in Orders
  BY <1>1
<1>3. Earlier1(first) = {}
  <2> SUFFICES ASSUME NEW t \in Orders, Scenes!Before(t, first) PROVE FALSE
    OBVIOUS
  <2>1. PICK i \in 1 .. 4 : t[i] < i /\ \A j \in 1 .. i - 1 : t[j] = j
    BY DEF Scenes!Before
  <2>2. t[i] \in 1 .. i - 1
    BY <1>1, <2>1
  <2>3. t[t[i]] = t[i]
    BY <2>1, <2>2
  <2> QED BY <1>1, <2>1, <2>2, <2>3
<1>4. Scenes!Cardinality(Earlier1(first)) = 1 - 1
  <2>1. \A S : Scenes!Cardinality(S) = Cardinality(S)
    BY DEF Scenes!Cardinality, Cardinality
  <2>2. Cardinality({}) = 0
    BY FS_EmptySet
  <2> HIDE DEF Earlier1
  <2>3. Scenes!Cardinality(Earlier1(first)) = Cardinality({})
    BY <1>3, <2>1, Zenon
  <2> QED BY <2>2, <2>3
<1>5. Scenes!Permuted[1] = CHOOSE s \in Orders : Scenes!Cardinality(Earlier1(s)) = 1 - 1
  BY SMTT(60) DEF Scenes!Permuted
<1> HIDE DEF Orders, first, Earlier1
<1>6. Scenes!Permuted[1] \in Orders
  BY <1>2, <1>4, <1>5
<1> QED BY <1>1, <1>6 DEF Scenes!Fruits

\* Each fruit has a slot of its own in it.
LEMMA OwnSlots ==
  ASSUME NEW order, order = Scenes!Permuted[1]
  PROVE  /\ \A f \in Scenes!Fruits : /\ Scenes!SlotIn(order, f) \in 0 .. 3
                                     /\ order[Scenes!SlotIn(order, f) + 1] = f
         /\ \A f, g \in Scenes!Fruits : f # g => Scenes!SlotIn(order, f) # Scenes!SlotIn(order, g)
<1>1. /\ \A i \in 1 .. 4 : order[i] \in 1 .. 4
      /\ \A i, j \in 1 .. 4 : i # j => order[i] # order[j]
  BY FirstOrder DEF Scenes!Fruits
<1>2. \A f \in 1 .. 4 : \E i \in 1 .. 4 : order[i] = f
  <2>1. /\ order[1] \in 1 .. 4 /\ order[2] \in 1 .. 4 /\ order[3] \in 1 .. 4 /\ order[4] \in 1 .. 4
        /\ order[1] # order[2] /\ order[1] # order[3] /\ order[1] # order[4]
        /\ order[2] # order[3] /\ order[2] # order[4] /\ order[3] # order[4]
    BY <1>1
  <2>2. \A f \in 1 .. 4 : order[1] = f \/ order[2] = f \/ order[3] = f \/ order[4] = f
    BY <2>1
  <2> QED BY <2>2
<1>3. ASSUME NEW f \in Scenes!Fruits
      PROVE  Scenes!SlotIn(order, f) \in 0 .. 3 /\ order[Scenes!SlotIn(order, f) + 1] = f
  <2> DEFINE k == CHOOSE i \in 1 .. 4 : order[i] = f
  <2>1. k \in 1 .. 4 /\ order[k] = f
    BY <1>2 DEF Scenes!Fruits
  <2> HIDE DEF k
  <2>2. Scenes!SlotIn(order, f) = k - 1
    BY DEF Scenes!SlotIn, k
  <2> QED BY <2>1, <2>2
<1> QED BY <1>3

\* The pairs of slots on a side, and where they are.
LEMMA GridData ==
  /\ \A k \in 1 .. 4 : LET a == Scenes!SlotPairs[k][1]
                           b == Scenes!SlotPairs[k][2]
                       IN  a \in 1 .. 4 /\ b \in 1 .. 4 /\ (a \in {1, 3} <=> b \in {2, 4})
  /\ \A i \in 1 .. 4 :
       /\ Scenes!GridPositions.left[i] = <<IF i \in {1, 3} THEN 460 ELSE 550,
                                           IF i \in {1, 2} THEN 305 ELSE 325>>
       /\ Scenes!GridPositions.right[i] = <<IF i \in {1, 3} THEN 460 ELSE 550,
                                            IF i \in {1, 2} THEN -305 ELSE -325>>
<1>1. \A k \in 1 .. 4 : k = 1 \/ k = 2 \/ k = 3 \/ k = 4
  OBVIOUS
<1>2. ASSUME NEW k \in 1 .. 4
      PROVE  /\ Scenes!SlotPairs[k][1] \in 1 .. 4 /\ Scenes!SlotPairs[k][2] \in 1 .. 4
             /\ Scenes!SlotPairs[k][1] \in {1, 3} <=> Scenes!SlotPairs[k][2] \in {2, 4}
  BY <1>1 DEF Scenes!SlotPairs
<1>3. ASSUME NEW i \in 1 .. 4
      PROVE  /\ Scenes!GridPositions.left[i] = <<IF i \in {1, 3} THEN 460 ELSE 550,
                                                 IF i \in {1, 2} THEN 305 ELSE 325>>
             /\ Scenes!GridPositions.right[i] = <<IF i \in {1, 3} THEN 460 ELSE 550,
                                                  IF i \in {1, 2} THEN -305 ELSE -325>>
  BY <1>1 DEF Scenes!GridPositions
<1> QED BY <1>2, <1>3

\* A place for the slot s that its arm reaches, and jitter does not carry to the other side.
OnSide(p, s) ==
  /\ p = <<p[1], p[2]>> /\ p[1] \in Int /\ p[2] \in Int
  /\ Scenes!InReach(p)
  /\ s < 2 => p[2] >= 305
  /\ s >= 2 => p[2] <= -305

\* The four places of a layout.
LEMMA LayoutPlaces ==
  ASSUME NEW layout \in 0 .. 15
  PROVE  /\ \A s \in 0 .. 3 : OnSide(Scenes!LayoutPositions(layout)[s], s)
         /\ \A s, r \in 0 .. 3 : s # r =>
              Scenes!Apart(Scenes!LayoutPositions(layout)[s],
                           Scenes!LayoutPositions(layout)[r], Scenes!MinTableSeparation)
<1> DEFINE at == Scenes!LayoutPositions(layout)
           left == Scenes!SlotPairs[(layout \div 4) + 1]
           right == Scenes!SlotPairs[(layout % 4) + 1]
<1>1. Len(Scenes!SlotPairs) = 4
  BY DEF Scenes!SlotPairs
<1>2. (layout \div 4) + 1 \in 1 .. 4 /\ (layout % 4) + 1 \in 1 .. 4
  OBVIOUS
<1>3. /\ left[1] \in 1 .. 4 /\ left[2] \in 1 .. 4 /\ (left[1] \in {1, 3} <=> left[2] \in {2, 4})
      /\ right[1] \in 1 .. 4 /\ right[2] \in 1 .. 4
      /\ (right[1] \in {1, 3} <=> right[2] \in {2, 4})
  BY <1>2, GridData
<1>4. at = [s \in 0 .. 3 |-> IF s < 2 THEN Scenes!GridPositions.left[left[s + 1]]
                             ELSE Scenes!GridPositions.right[right[s - 1]]]
  BY <1>1 DEF Scenes!LayoutPositions, Scenes!Slots
<1> HIDE DEF at, left, right
<1>5. /\ at[0] = Scenes!GridPositions.left[left[1]] /\ at[1] = Scenes!GridPositions.left[left[2]]
      /\ at[2] = Scenes!GridPositions.right[right[1]]
      /\ at[3] = Scenes!GridPositions.right[right[2]]
  BY <1>4
<1> DEFINE X(i) == IF i \in {1, 3} THEN 460 ELSE 550
           Y(i) == IF i \in {1, 2} THEN 305 ELSE 325
<1>6. /\ at[0] = <<X(left[1]), Y(left[1])>> /\ at[1] = <<X(left[2]), Y(left[2])>>
      /\ at[2] = <<X(right[1]), -Y(right[1])>> /\ at[3] = <<X(right[2]), -Y(right[2])>>
  BY <1>3, <1>5, GridData
<1>7. ASSUME NEW x \in {460, 550}, NEW y \in {305, 325}
      PROVE  /\ OnSide(<<x, y>>, 0) /\ OnSide(<<x, y>>, 1)
             /\ OnSide(<<x, -y>>, 2) /\ OnSide(<<x, -y>>, 3)
  BY DEF OnSide, Scenes!InReach, Scenes!ReachX, Scenes!ReachY, Scenes!Abs
<1>8. \A i : X(i) \in {460, 550} /\ Y(i) \in {305, 325}
  OBVIOUS
<1>9. OnSide(at[0], 0) /\ OnSide(at[1], 1) /\ OnSide(at[2], 2) /\ OnSide(at[3], 3)
  <2> HIDE DEF X, Y
  <2> QED BY <1>6, <1>7, <1>8
<1>10. X(left[1]) # X(left[2]) /\ X(right[1]) # X(right[2])
  BY <1>3
<1> HIDE DEF X, Y
<1>11. ASSUME NEW x \in {460, 550}, NEW y \in {305, 325, -305, -325},
              NEW u \in {460, 550}, NEW v \in {305, 325, -305, -325},
              x # u \/ (y > 0 /\ v < 0) \/ (y < 0 /\ v > 0)
       PROVE  Scenes!Apart(<<x, y>>, <<u, v>>, Scenes!MinTableSeparation)
  <2>1. CASE x # u
    <3>1. x - u \in {90, -90} /\ y - v \in -650 .. 650
      BY <2>1
    <3>2. (x - u) * (x - u) = 8100
      BY <3>1
    <3>3. (y - v) * (y - v) >= 0
      <4> PICK d \in Int : d = y - v
        BY <3>1
      <4>1. d * d >= 0
        OBVIOUS
      <4> QED BY <4>1
    <3> QED BY <3>1, <3>2, <3>3 DEF Scenes!Apart, Scenes!MinTableSeparation
  <2>2. CASE x = u
    <3>1. (x - u) * (x - u) = 0
      BY <2>2
    <3>2. y - v \in {610, 630, 650, -610, -630, -650}
      BY <1>11, <2>2
    <3>3. (y - v) * (y - v) >= 5625
      BY <3>2
    <3> QED BY <3>1, <3>3 DEF Scenes!Apart, Scenes!MinTableSeparation
  <2> QED BY <2>1, <2>2
<1>12. \A i : Y(i) \in {305, 325, -305, -325} /\ -Y(i) \in {305, 325, -305, -325} /\ Y(i) > 0
  BY <1>8
<1>13. /\ Scenes!Apart(at[0], at[1], Scenes!MinTableSeparation)
       /\ Scenes!Apart(at[1], at[0], Scenes!MinTableSeparation)
       /\ Scenes!Apart(at[2], at[3], Scenes!MinTableSeparation)
       /\ Scenes!Apart(at[3], at[2], Scenes!MinTableSeparation)
  BY <1>6, <1>8, <1>10, <1>11, <1>12
<1>14. ASSUME NEW i, NEW j
       PROVE  /\ Scenes!Apart(<<X(i), Y(i)>>, <<X(j), -Y(j)>>, Scenes!MinTableSeparation)
              /\ Scenes!Apart(<<X(j), -Y(j)>>, <<X(i), Y(i)>>, Scenes!MinTableSeparation)
  BY <1>8, <1>11, <1>12
<1>15. ASSUME NEW s \in 0 .. 3, NEW r \in 0 .. 3, s # r
       PROVE  Scenes!Apart(at[s], at[r], Scenes!MinTableSeparation)
  <2>1. (s = 0 \/ s = 1 \/ s = 2 \/ s = 3) /\ (r = 0 \/ r = 1 \/ r = 2 \/ r = 3)
    OBVIOUS
  <2> QED BY <1>6, <1>13, <1>14, <1>15, <2>1
<1>16. ASSUME NEW s \in 0 .. 3 PROVE OnSide(at[s], s)
  <2>1. s = 0 \/ s = 1 \/ s = 2 \/ s = 3
    OBVIOUS
  <2> QED BY <1>9, <2>1
<1> QED BY <1>15, <1>16 DEF at

\* The slots of the fruits in the first order, in any layout.
LEMMA NominalPlaces ==
  ASSUME OnGrid
  PROVE  /\ \A f \in Scenes!Fruits : /\ Scenes!SlotIn(scene.order, f) \in 0 .. 3
                                     /\ OnSide(Scenes!Nominal[f], Scenes!SlotIn(scene.order, f))
         /\ \A f, g \in Scenes!Fruits : f # g =>
              Scenes!Apart(Scenes!Nominal[f], Scenes!Nominal[g], Scenes!MinTableSeparation)
<1> PICK order : order = scene.order
  OBVIOUS
<1>1. order = Scenes!Permuted[1] /\ scene.layout \in 0 .. 15
  BY DEF OnGrid
<1>2. /\ \A f \in Scenes!Fruits : Scenes!SlotIn(order, f) \in 0 .. 3
      /\ \A f, g \in Scenes!Fruits : f # g => Scenes!SlotIn(order, f) # Scenes!SlotIn(order, g)
  BY <1>1, OwnSlots
<1>3. \A f \in Scenes!Fruits :
        Scenes!Nominal[f] = Scenes!LayoutPositions(scene.layout)[Scenes!SlotIn(order, f)]
  BY DEF Scenes!Nominal, Scenes!TablePlacements
<1>4. /\ \A s \in 0 .. 3 : OnSide(Scenes!LayoutPositions(scene.layout)[s], s)
      /\ \A s, r \in 0 .. 3 : s # r =>
           Scenes!Apart(Scenes!LayoutPositions(scene.layout)[s],
                        Scenes!LayoutPositions(scene.layout)[r], Scenes!MinTableSeparation)
  BY <1>1, LayoutPlaces
<1> QED BY <1>2, <1>3, <1>4

\* The order of two places does not matter.
LEMMA ApartBothWays ==
  ASSUME NEW p, NEW q, NEW mm \in Int, p[1] \in Int, p[2] \in Int, q[1] \in Int, q[2] \in Int,
         Scenes!Apart(p, q, mm)
  PROVE  Scenes!Apart(q, p, mm)
<1>1. \A a, b \in Int : (a - b) * (a - b) = (b - a) * (b - a)
  OBVIOUS
<1> QED BY <1>1 DEF Scenes!Apart

\* The two files pass the checks of the code that reads them.
LEMMA ConfigurationIsValid == Scenes!GridIsValid /\ Scenes!LayoutIsValid
<1>1. \A k \in 1 .. 4 : k = 1 \/ k = 2 \/ k = 3 \/ k = 4
  OBVIOUS
<1>2. ASSUME NEW i \in 1 .. 4
      PROVE  /\ Scenes!InReach(Scenes!GridPositions.left[i]) /\ Scenes!GridPositions.left[i][2] > 0
             /\ Scenes!InReach(Scenes!GridPositions.right[i])
             /\ Scenes!GridPositions.right[i][2] < 0
             /\ Scenes!Abs(Scenes!CrateSlots[i][1]) <= 45
             /\ Scenes!Abs(Scenes!CrateSlots[i][2]) <= 80
  <2>1. /\ Scenes!GridPositions.left[i][1] \in {460, 550}
        /\ Scenes!GridPositions.left[i][2] \in {305, 325}
        /\ Scenes!GridPositions.right[i][1] \in {460, 550}
        /\ Scenes!GridPositions.right[i][2] \in {-305, -325}
    BY GridData
  <2>2. Scenes!CrateSlots[i][1] \in {-38, 38} /\ Scenes!CrateSlots[i][2] \in {-70, 70}
    BY <1>1 DEF Scenes!CrateSlots
  <2> QED BY <2>1, <2>2 DEF Scenes!InReach, Scenes!ReachX, Scenes!ReachY, Scenes!Abs
<1>3. ASSUME NEW k \in 1 .. 4, NEW side \in {"left", "right"}
      PROVE  /\ Scenes!SlotPairs[k][1] # Scenes!SlotPairs[k][2]
             /\ Scenes!Apart(Scenes!GridPositions[side][Scenes!SlotPairs[k][1]],
                             Scenes!GridPositions[side][Scenes!SlotPairs[k][2]],
                             Scenes!MinTableSeparation)
  <2> PICK a, b : a = Scenes!SlotPairs[k][1] /\ b = Scenes!SlotPairs[k][2]
    OBVIOUS
  <2>1. a \in 1 .. 4 /\ b \in 1 .. 4 /\ (a \in {1, 3} <=> b \in {2, 4})
    BY GridData
  <2> PICK p, q : p = Scenes!GridPositions[side][a] /\ q = Scenes!GridPositions[side][b]
    OBVIOUS
  <2>2. /\ p[1] = IF a \in {1, 3} THEN 460 ELSE 550
        /\ q[1] = IF b \in {1, 3} THEN 460 ELSE 550
        /\ p[2] \in Int /\ q[2] \in Int
    <3>1. CASE side = "left"
      BY <2>1, <3>1, GridData
    <3>2. CASE side = "right"
      BY <2>1, <3>2, GridData
    <3> QED BY <3>1, <3>2
  <2>3. (p[1] - q[1]) * (p[1] - q[1]) = 8100
    BY <2>1, <2>2
  <2>4. (p[2] - q[2]) * (p[2] - q[2]) >= 0
    <3> PICK d \in Int : d = p[2] - q[2]
      BY <2>2
    <3>1. d * d >= 0
      OBVIOUS
    <3> QED BY <3>1
  <2>5. /\ (p[1] - q[1]) * (p[1] - q[1]) \in Int /\ (p[2] - q[2]) * (p[2] - q[2]) \in Int
    BY <2>2, <2>3
  <2>6. Scenes!Apart(p, q, Scenes!MinTableSeparation)
    BY <2>3, <2>4, <2>5 DEF Scenes!Apart, Scenes!MinTableSeparation
  <2> QED BY <2>1, <2>6
<1>4. \A pair \in Scenes!ToSet(Scenes!SlotPairs) : \E k \in 1 .. 4 : pair = Scenes!SlotPairs[k]
  BY DEF Scenes!ToSet, Scenes!SlotPairs
<1>5. ASSUME NEW i \in 1 .. 4, NEW j \in 1 .. 4, i < j
      PROVE  Scenes!Apart(Scenes!CrateSlots[i], Scenes!CrateSlots[j],
                          Scenes!MinCrateSlotSeparation)
  <2>1. <<i, j>> \in {<<1, 2>>, <<1, 3>>, <<1, 4>>, <<2, 3>>, <<2, 4>>, <<3, 4>>}
    BY <1>5
  <2> QED BY <2>1 DEF Scenes!CrateSlots, Scenes!Apart, Scenes!MinCrateSlotSeparation
<1>6. Scenes!GridIsValid
  BY <1>2, <1>3, <1>4, <1>5 DEF Scenes!GridIsValid
<1>7. Scenes!LayoutIsValid
  <2>1. \A f \in 1 .. 4 : Scenes!InReach(Scenes!ObjectXY[f])
    <3> SUFFICES ASSUME NEW f \in 1 .. 4 PROVE Scenes!InReach(Scenes!ObjectXY[f])
      OBVIOUS
    <3>1. Scenes!ObjectXY[f][1] \in {460, 550} /\ Scenes!ObjectXY[f][2] \in {-310, 310}
      BY <1>1 DEF Scenes!ObjectXY
    <3> QED BY <3>1 DEF Scenes!InReach, Scenes!ReachX, Scenes!ReachY, Scenes!Abs
  <2>2. Scenes!CrateInReach(Scenes!CrateXY) /\ Scenes!CrateOnTable(Scenes!CrateXY)
    BY DEF Scenes!CrateInReach, Scenes!CrateOnTable, Scenes!CrateXY, Scenes!ReachX, Scenes!Abs,
           Scenes!TableX, Scenes!TableY, Scenes!CrateHalf
  <2> QED BY <2>1, <2>2 DEF Scenes!LayoutIsValid, Scenes!Fruits
<1> QED BY <1>6, <1>7

\* A candidate moved a little stays on the side of its slot.
LEMMA CandidateSide ==
  ASSUME NEW nominal, NEW s \in 0 .. 3, OnSide(nominal, s),
         NEW p \in Scenes!Around(nominal, 20, 30) \cup {nominal}
  PROVE  p = <<p[1], p[2]>> /\ p[1] \in Int /\ p[2] \in Int /\ (p[2] > 0 <=> s < 2)
BY DEF OnSide, Scenes!Around

\* A place that is clipped to the reach of its side.
LEMMA ClippedStands ==
  ASSUME NEW nominal, NEW s \in 0 .. 3, OnSide(nominal, s), NEW jitter \in Int,
         NEW q \in Scenes!Around(nominal, jitter, jitter)
  PROVE  LET p == Scenes!Clipped(q, nominal)
         IN  /\ p = <<p[1], p[2]>> /\ p[1] \in Int /\ p[2] \in Int
             /\ Scenes!InReach(p) /\ (p[2] > 0 <=> s < 2)
<1>1. q[1] \in Int /\ q[2] \in Int /\ nominal[2] \in Int /\ (nominal[2] > 0 <=> s < 2)
  BY DEF OnSide, Scenes!Around
<1> DEFINE x == Scenes!Clip(q[1], 440, 560)
           y == Scenes!Clip(Scenes!Abs(q[2]), 290, 340)
<1>2. x \in 440 .. 560 /\ y \in 290 .. 340
  BY <1>1 DEF Scenes!Clip, Scenes!Abs
<1> HIDE DEF x, y
<1>3. Scenes!Clipped(q, nominal) = <<x, IF nominal[2] > 0 THEN y ELSE -y>>
  BY DEF Scenes!Clipped, Scenes!ReachX, Scenes!ReachY, x, y
<1> QED BY <1>1, <1>2, <1>3 DEF Scenes!InReach, Scenes!ReachX, Scenes!ReachY, Scenes!Abs

\* The basket stands on the table, also moved a little.
LEMMA CrateStands ==
  ASSUME NEW crate \in Scenes!Around(Scenes!CrateXY, 10, 10) \cup {Scenes!CrateXY}
  PROVE  Scenes!CrateOnTable(crate)
<1>1. crate[1] \in {510, 520, 530} /\ crate[2] \in {-10, 0, 10}
  BY DEF Scenes!Around, Scenes!CrateXY
<1> QED BY <1>1 DEF Scenes!CrateOnTable, Scenes!TableX, Scenes!TableY, Scenes!CrateHalf

\* Two places that are far apart in one direction are.
LEMMA FarInOne ==
  ASSUME NEW d \in Int, NEW e \in Int, d >= 78 \/ d <= -78 \/ e >= 78 \/ e <= -78
  PROVE  d * d + e * e >= 78 * 78
<1>1. \A n \in Int : n * n >= 0
  OBVIOUS
<1>2. ASSUME NEW n \in Int, n >= 78 PROVE n * n >= 78 * 78
  <2>1. (n - 78) * (n - 78) >= 0
    BY <1>1
  <2>2. n * n = (n - 78) * (n - 78) + 156 * n - 6084
    OBVIOUS
  <2> QED BY <1>2, <2>1, <2>2
<1>3. ASSUME NEW n \in Int, n <= -78 PROVE n * n >= 78 * 78
  <2>1. -n \in Int /\ -n >= 78
    BY <1>3
  <2>2. (-n) * (-n) >= 78 * 78
    BY <1>2, <2>1
  <2>3. (-n) * (-n) = n * n
    OBVIOUS
  <2> QED BY <2>2, <2>3
<1>4. d * d \in Int /\ e * e \in Int /\ d * d >= 0 /\ e * e >= 0
  BY <1>1
<1>5. d * d >= 78 * 78 \/ e * e >= 78 * 78
  BY <1>2, <1>3
<1> QED
  <2> PICK a \in Int, b \in Int : a = d * d /\ b = e * e
    BY <1>4
  <2>1. a >= 0 /\ b >= 0 /\ (a >= 78 * 78 \/ b >= 78 * 78)
    BY <1>4, <1>5
  <2> QED BY <2>1

\* A place of the transport layout: near or far, on the right or on the left.
InQuarter(p, h) ==
  /\ p[1] \in IF h \in {1, 2} THEN 454 .. 466 ELSE 544 .. 556
  /\ p[2] \in IF h \in {1, 3} THEN -340 .. -290 ELSE 290 .. 340

\* Fruits that differ in side or in depth are far apart.
LEMMA QuartersApart ==
  ASSUME NEW at, \A h \in 1 .. 4 : InQuarter(at[h], h)
  PROVE  \A f, g \in 1 .. 4 : f # g => Scenes!Apart(at[f], at[g], 78)
<1> SUFFICES ASSUME NEW f \in 1 .. 4, NEW g \in 1 .. 4, f # g
             PROVE  Scenes!Apart(at[f], at[g], 78)
  OBVIOUS
<1> PICK x, y, u, v : x = at[f][1] /\ y = at[f][2] /\ u = at[g][1] /\ v = at[g][2]
  OBVIOUS
<1>1. /\ x \in IF f \in {1, 2} THEN 454 .. 466 ELSE 544 .. 556
      /\ y \in IF f \in {1, 3} THEN -340 .. -290 ELSE 290 .. 340
      /\ u \in IF g \in {1, 2} THEN 454 .. 466 ELSE 544 .. 556
      /\ v \in IF g \in {1, 3} THEN -340 .. -290 ELSE 290 .. 340
  BY DEF InQuarter
<1>2. x \in Int /\ y \in Int /\ u \in Int /\ v \in Int
  BY <1>1
<1>3. x - u >= 78 \/ x - u <= -78 \/ y - v >= 78 \/ y - v <= -78
  BY <1>1, <1>2
<1>4. (x - u) * (x - u) + (y - v) * (y - v) >= 78 * 78
  <2> PICK d \in Int, e \in Int : d = x - u /\ e = y - v
    BY <1>2
  <2>1. d * d + e * e >= 78 * 78
    BY <1>3, FarInOne
  <2> QED BY <2>1
<1> QED BY <1>4 DEF Scenes!Apart

\* The transport layout leaves 78 mm whatever is drawn.
LEMMA TransportPlaces ==
  ASSUME NEW dx \in [Scenes!Fruits -> {-6, 6}],
         NEW y \in [Scenes!Fruits -> {Scenes!ReachY[1], Scenes!ReachY[2]}],
         NEW at, at = [f \in Scenes!Fruits |->
           <<Scenes!Clip(Scenes!ObjectXY[f][1] + dx[f], Scenes!ReachX[1], Scenes!ReachX[2]),
             IF Scenes!ObjectXY[f][2] >= 0 THEN y[f] ELSE -y[f]>>]
  PROVE  /\ \A f \in Scenes!Fruits : Scenes!InReach(at[f])
         /\ \A f, g \in Scenes!Fruits : f # g => Scenes!Apart(at[f], at[g], 78)
<1>1. ASSUME NEW f \in 1 .. 4
      PROVE  /\ dx[f] \in {-6, 6} /\ y[f] \in {290, 340}
             /\ Scenes!ObjectXY[f][1] = IF f \in {1, 2} THEN 460 ELSE 550
             /\ Scenes!ObjectXY[f][2] = IF f \in {1, 3} THEN -310 ELSE 310
  <2>1. f = 1 \/ f = 2 \/ f = 3 \/ f = 4
    OBVIOUS
  <2>2. Scenes!ReachY[1] = 290 /\ Scenes!ReachY[2] = 340 /\ Scenes!Fruits = 1 .. 4
    BY DEF Scenes!ReachY, Scenes!Fruits
  <2> QED BY <2>1, <2>2 DEF Scenes!ObjectXY
<1>2. ASSUME NEW f \in 1 .. 4
      PROVE  /\ at[f][1] \in IF f \in {1, 2} THEN {454, 466} ELSE {544, 556}
             /\ at[f][2] \in IF f \in {1, 3} THEN {-290, -340} ELSE {290, 340}
  <2>1. at[f] = <<Scenes!Clip(Scenes!ObjectXY[f][1] + dx[f], 440, 560),
                  IF Scenes!ObjectXY[f][2] >= 0 THEN y[f] ELSE -y[f]>>
    BY DEF Scenes!Fruits, Scenes!ReachX
  <2>2. at[f][1] = Scenes!Clip(Scenes!ObjectXY[f][1] + dx[f], 440, 560)
        /\ at[f][2] = IF Scenes!ObjectXY[f][2] >= 0 THEN y[f] ELSE -y[f]
    BY <2>1
  <2>3. Scenes!Clip(Scenes!ObjectXY[f][1] + dx[f], 440, 560) = Scenes!ObjectXY[f][1] + dx[f]
    BY <1>1 DEF Scenes!Clip
  <2> QED BY <1>1, <2>2, <2>3
<1>3. ASSUME NEW f \in 1 .. 4 PROVE Scenes!InReach(at[f])
  BY <1>2 DEF Scenes!InReach, Scenes!ReachX, Scenes!ReachY, Scenes!Abs
<1>4. \A h \in 1 .. 4 : InQuarter(at[h], h)
  BY <1>2 DEF InQuarter
<1>5. \A f, g \in 1 .. 4 : f # g => Scenes!Apart(at[f], at[g], 78)
  BY <1>4, QuartersApart, Zenon
<1> QED BY <1>3, <1>5 DEF Scenes!Fruits

\* Some fruits are left to place.
LEMMA FruitLeft ==
  ASSUME NEW S \in SUBSET Scenes!Fruits, S # Scenes!Fruits
  PROVE  Scenes!Cardinality(S) + 1 \in 1 .. 4
<1>1. Scenes!Cardinality(S) = Cardinality(S)
  BY DEF Scenes!Cardinality, Cardinality
<1>2. IsFiniteSet(1 .. 4) /\ Cardinality(1 .. 4) = 4
  BY IntervalCounts
<1>3. S \in SUBSET (1 .. 4) /\ S # 1 .. 4
  BY DEF Scenes!Fruits
<1>4. Cardinality(S) \in Nat /\ Cardinality(S) < 4
  <2>1. IsFiniteSet(S) /\ Cardinality(S) <= 4 /\ Cardinality(S) # 4
    BY ZenonT(60), <1>2, <1>3, FS_Subset
  <2>2. Cardinality(S) \in Nat
    BY <2>1, FS_CardinalityType
  <2> QED BY <2>1, <2>2
<1> QED BY <1>1, <1>4

\* A fruit that stands, clear of those on the table, is placed among them.
LEMMA OneMore ==
  ASSUME NEW at, NEW order, NEW S, Clear(at, order, S),
         NEW f, NEW p, p = <<p[1], p[2]>>, p[1] \in Int, p[2] \in Int, Scenes!InReach(p),
         p[2] > 0 <=> Scenes!SlotIn(order, f) < 2,
         \A g \in S : Scenes!Apart(p, at[g], Scenes!MinTableSeparation),
         NEW next, next[f] = p, \A g \in S : g # f => next[g] = at[g]
  PROVE  Clear(next, order, S \cup {f})
<1>1. Standing(next, order, f)
  BY DEF Standing
<1>2. ASSUME NEW g \in S, g # f PROVE Standing(next, order, g) /\ next[g] = at[g]
  <2>1. Standing(at, order, g) /\ next[g] = at[g]
    BY <1>2 DEF Clear
  <2> QED BY <2>1 DEF Standing
<1>3. ASSUME NEW g \in S, g # f
      PROVE  /\ Scenes!Apart(next[f], next[g], Scenes!MinTableSeparation)
             /\ Scenes!Apart(next[g], next[f], Scenes!MinTableSeparation)
  <2>1. Scenes!Apart(p, at[g], Scenes!MinTableSeparation)
    OBVIOUS
  <2>2. at[g][1] \in Int /\ at[g][2] \in Int /\ Scenes!MinTableSeparation \in Int
    BY DEF Clear, Standing, Scenes!MinTableSeparation
  <2>3. Scenes!Apart(at[g], p, Scenes!MinTableSeparation)
    BY <2>1, <2>2, ApartBothWays
  <2> QED BY <1>2, <1>3, <2>1, <2>3
<1>4. ASSUME NEW g \in S, NEW h \in S, g # f, h # f, g # h
      PROVE  Scenes!Apart(next[g], next[h], Scenes!MinTableSeparation)
  <2>1. Scenes!Apart(at[g], at[h], Scenes!MinTableSeparation)
    BY <1>4 DEF Clear
  <2> QED BY <1>2, <1>4, <2>1
<1>5. \A g \in S \cup {f} : Standing(next, order, g)
  BY <1>1, <1>2
<1>6. \A g, h \in S \cup {f} : g # h =>
        Scenes!Apart(next[g], next[h], Scenes!MinTableSeparation)
  BY <1>3, <1>4
<1> QED BY <1>5, <1>6 DEF Clear

\* What does not move stays clear.
LEMMA StaysClear ==
  ASSUME NEW at, NEW order, NEW S, Clear(at, order, S), NEW next, \A g \in S : next[g] = at[g]
  PROVE  Clear(next, order, S)
<1>1. ASSUME NEW g \in S PROVE Standing(next, order, g)
  <2>1. Standing(at, order, g) /\ next[g] = at[g]
    BY DEF Clear
  <2> QED BY <2>1 DEF Standing
<1>2. ASSUME NEW g \in S, NEW h \in S, g # h
      PROVE  Scenes!Apart(next[g], next[h], Scenes!MinTableSeparation)
  <2>1. Scenes!Apart(at[g], at[h], Scenes!MinTableSeparation)
    BY <1>2 DEF Clear
  <2> QED BY <2>1
<1> QED BY <1>1, <1>2 DEF Clear

\* The transport layout is laid out in one step.
LEMMA PlaceTransport ==
  ASSUME SceneFields(scene), TallyFields(tally), LaidOut, Scenes!PlaceObjects
  PROVE  SceneFields(scene)' /\ TallyFields(tally)' /\ LaidOut'

<1>1. scene.use = "transport" /\ TransportScene /\ ~ tally.passed
  BY DEF LaidOut, Scenes!PlaceObjects
<1> PICK dx \in [Scenes!Fruits -> {-6, 6}],
         y \in [Scenes!Fruits -> {Scenes!ReachY[1], Scenes!ReachY[2]}] :
           scene' = [scene EXCEPT
             !.at = [f \in Scenes!Fruits |->
                <<Scenes!Clip(Scenes!ObjectXY[f][1] + dx[f], Scenes!ReachX[1],
                              Scenes!ReachX[2]),
                  IF Scenes!ObjectXY[f][2] >= 0 THEN y[f] ELSE -y[f]>>],
             !.pc = "ready"]
  BY Zenon DEF Scenes!PlaceObjects
<1> PICK at : at = [f \in Scenes!Fruits |->
                <<Scenes!Clip(Scenes!ObjectXY[f][1] + dx[f], Scenes!ReachX[1],
                              Scenes!ReachX[2]),
                  IF Scenes!ObjectXY[f][2] >= 0 THEN y[f] ELSE -y[f]>>]
  OBVIOUS
<1>2. /\ \A f \in Scenes!Fruits : Scenes!InReach(at[f])
      /\ \A f, g \in Scenes!Fruits : f # g => Scenes!Apart(at[f], at[g], 78)
  BY TransportPlaces, Zenon
<1>3. scene' = [scene EXCEPT !.at = at, !.pc = "ready"] /\ tally' = tally
  BY Zenon DEF Scenes!PlaceObjects
<1>4. /\ SceneFields(scene') /\ scene'.at = at /\ scene'.pc = "ready" /\ scene'.use = scene.use
      /\ scene'.preloaded = scene.preloaded /\ scene'.crate = scene.crate
  BY <1>3 DEF SceneFields
<1>5. TransportScene'
  BY <1>1, <1>2, <1>4, Zenon DEF TransportScene
<1> QED BY <1>1, <1>3, <1>4, <1>5 DEF LaidOut, SceneFields, TallyFields

\* A fruit is placed on the grid, or tried again.
LEMMA GridTry ==
  ASSUME SceneFields(scene), TallyFields(tally), LaidOut, Scenes!TryFruit
  PROVE  SceneFields(scene)' /\ TallyFields(tally)' /\ LaidOut'
<1>1. /\ scene.use = "grid" /\ GridScene /\ ~ tally.passed /\ scene.pc = "place"
      /\ Scenes!Placed # Scenes!Fruits /\ tally' = tally
  BY DEF LaidOut, Scenes!TryFruit
<1> PICK fruit : fruit = Scenes!NextFruit
  OBVIOUS
<1> PICK nominal : nominal = Scenes!Nominal[fruit]
  OBVIOUS
<1>2. PICK q \in Scenes!Around(nominal, scene.jitter, scene.jitter) :
        scene' = IF fruit \in scene.preloaded
                      \/ Scenes!FreeOfPlaced(Scenes!Clipped(q, nominal), fruit)
                 THEN [scene EXCEPT
                        !.at = [f \in DOMAIN scene.at \cup {fruit} |->
                                  IF f = fruit THEN Scenes!Clipped(q, nominal)
                                  ELSE scene.at[f]],
                        !.tries = 0]
                 ELSE [scene EXCEPT !.tries = scene.tries + 1]
  BY Zenon DEF Scenes!TryFruit
<1> PICK p, at, order, S :
      /\ p = Scenes!Clipped(q, nominal) /\ at = scene.at /\ order = scene.order
      /\ S = DOMAIN scene.at \ scene.preloaded
  OBVIOUS
<1>3. /\ OnGrid /\ scene.jitter \in Int /\ DOMAIN at \subseteq Scenes!Fruits
      /\ Clear(at, order, S)
  BY <1>1 DEF GridScene
<1>4. fruit \in Scenes!Fruits
  <2>1. Scenes!Cardinality(Scenes!Placed) + 1 \in 1 .. 4
    BY <1>1, <1>3, FruitLeft DEF Scenes!Placed
  <2>2. order = Scenes!Permuted[1]
    BY <1>3 DEF OnGrid
  <2>3. fruit = order[Scenes!Cardinality(Scenes!Placed) + 1]
    BY DEF Scenes!NextFruit
  <2> QED BY <2>1, <2>2, <2>3, FirstOrder
<1>5. p = <<p[1], p[2]>> /\ p[1] \in Int /\ p[2] \in Int /\ Scenes!InReach(p)
      /\ (p[2] > 0 <=> Scenes!SlotIn(order, fruit) < 2)
  <2> PICK s, jitter : s = Scenes!SlotIn(order, fruit) /\ jitter = scene.jitter
    OBVIOUS
  <2>1. s \in 0 .. 3 /\ OnSide(nominal, s) /\ jitter \in Int
    BY <1>3, <1>4, NominalPlaces
  <2>2. q \in Scenes!Around(nominal, jitter, jitter)
    BY <1>2
  <2> QED BY <2>1, <2>2, ClippedStands
<1>6. CASE ~ (fruit \in scene.preloaded \/ Scenes!FreeOfPlaced(p, fruit))
  <2>1. scene' = [scene EXCEPT !.tries = scene.tries + 1]
    BY <1>2, <1>6
  <2>2. /\ SceneFields(scene') /\ scene'.at = scene.at /\ scene'.pc = scene.pc
        /\ scene'.use = scene.use /\ scene'.preloaded = scene.preloaded
        /\ scene'.crate = scene.crate /\ scene'.layout = scene.layout
        /\ scene'.order = scene.order /\ scene'.jitter = scene.jitter
    BY <2>1 DEF SceneFields
  <2>3. GridScene'
    BY <1>1, <2>2 DEF GridScene, OnGrid
  <2> QED BY <1>1, <2>2, <2>3 DEF LaidOut, SceneFields, TallyFields
<1>7. CASE fruit \in scene.preloaded \/ Scenes!FreeOfPlaced(p, fruit)
  <2> PICK next : next = [f \in DOMAIN at \cup {fruit} |-> IF f = fruit THEN p ELSE at[f]]
    OBVIOUS
  <2>1. scene' = [scene EXCEPT !.at = next, !.tries = 0]
    BY <1>2, <1>7
  <2>2. /\ SceneFields(scene') /\ scene'.at = next /\ scene'.pc = scene.pc
        /\ scene'.use = scene.use /\ scene'.preloaded = scene.preloaded
        /\ scene'.crate = scene.crate /\ scene'.layout = scene.layout
        /\ scene'.order = scene.order /\ scene'.jitter = scene.jitter
    BY <2>1 DEF SceneFields
  <2>3. Clear(next, order, DOMAIN next \ scene.preloaded)
    <3>1. /\ DOMAIN next = DOMAIN at \cup {fruit} /\ next[fruit] = p
          /\ \A g \in DOMAIN at : g # fruit => next[g] = at[g]
      OBVIOUS
    <3>2. S \subseteq DOMAIN at /\ S \cap scene.preloaded = {}
      OBVIOUS
    <3>3. CASE fruit \in scene.preloaded
      <4>1. DOMAIN next \ scene.preloaded = S
        BY <3>1, <3>3
      <4>2. \A g \in S : next[g] = at[g]
        BY <3>1, <3>2, <3>3
      <4>3. Clear(next, order, S)
        BY <1>3, <4>2, StaysClear
      <4> QED BY <4>1, <4>3
    <3>4. CASE fruit \notin scene.preloaded
      <4>1. DOMAIN next \ scene.preloaded = S \cup {fruit}
        BY <3>1, <3>4
      <4>2. \A g \in S : Scenes!Apart(p, at[g], Scenes!MinTableSeparation)
        BY <1>7, <3>4, Zenon DEF Scenes!FreeOfPlaced, Scenes!Placed
      <4>3. \A g \in S : g # fruit => next[g] = at[g]
        BY <3>1, <3>2
      <4>4. Clear(next, order, S \cup {fruit})
        BY <1>3, <1>5, <3>1, <4>2, <4>3, OneMore
      <4> QED BY <4>1, <4>4
    <3> QED BY <3>3, <3>4
  <2>4. DOMAIN next \subseteq Scenes!Fruits
    BY <1>3, <1>4
  <2>5. GridScene'
    BY <1>1, <2>2, <2>3, <2>4 DEF GridScene, OnGrid
  <2> QED BY <1>1, <2>2, <2>5 DEF LaidOut, SceneFields, TallyFields
<1> QED BY <1>6, <1>7

\* The basket is filled when every fruit has its place, or there is no scene.
LEMMA GridEnds ==
  ASSUME SceneFields(scene), TallyFields(tally), LaidOut,
         Scenes!GiveUpFruit \/ Scenes!FillBasket
  PROVE  SceneFields(scene)' /\ TallyFields(tally)' /\ LaidOut'
<1>1. scene.use = "grid" /\ GridScene /\ ~ tally.passed /\ tally' = tally
  BY DEF LaidOut, Scenes!GiveUpFruit, Scenes!FillBasket
<1>2. CASE Scenes!GiveUpFruit
  <2>1. /\ SceneFields(scene') /\ scene'.at = scene.at /\ scene'.pc = "failed"
        /\ scene'.use = scene.use /\ scene'.preloaded = scene.preloaded
        /\ scene'.layout = scene.layout /\ scene'.order = scene.order
        /\ scene'.jitter = scene.jitter
    BY <1>2 DEF SceneFields, Scenes!GiveUpFruit
  <2>2. GridScene'
    BY <1>1, <2>1 DEF GridScene, OnGrid
  <2> QED BY <1>1, <2>1, <2>2 DEF LaidOut, SceneFields, TallyFields
<1>3. CASE Scenes!FillBasket
  <2> DEFINE k(f) == Scenes!Cardinality({g \in scene.preloaded : g <= f})
             Filled(crate) ==
               [f \in Scenes!Fruits |->
                  IF f \in scene.preloaded
                  THEN <<crate[1] + Scenes!CrateSlots[k(f)][1],
                         crate[2] + Scenes!CrateSlots[k(f)][2]>>
                  ELSE scene.at[f]]
  <2>1. PICK crate \in Scenes!Around(Scenes!CrateXY, 10, 10) :
          scene' = [scene EXCEPT !.crate = crate, !.at = Filled(crate), !.pc = "ready"]
    BY <1>3, Zenon DEF Scenes!FillBasket
  <2> HIDE DEF k
  <2> PICK next : next = Filled(crate)
    OBVIOUS
  <2>2. /\ DOMAIN next = Scenes!Fruits
        /\ \A f \in Scenes!Fruits \ scene.preloaded : next[f] = scene.at[f]
    OBVIOUS
  <2> HIDE DEF Filled
  <2>3. scene' = [scene EXCEPT !.crate = crate, !.at = next, !.pc = "ready"]
    BY <2>1
  <2>4. /\ SceneFields(scene') /\ scene'.at = next /\ scene'.pc = "ready"
        /\ scene'.use = scene.use /\ scene'.preloaded = scene.preloaded
        /\ scene'.crate = crate /\ scene'.layout = scene.layout
        /\ scene'.order = scene.order /\ scene'.jitter = scene.jitter
    BY <2>3 DEF SceneFields
  <2>5. Clear(next, scene.order, Scenes!Fruits \ scene.preloaded)
    <3> PICK S, at, order : S = Scenes!Fruits \ scene.preloaded /\ at = scene.at
                             /\ order = scene.order
      OBVIOUS
    <3>1. DOMAIN at = Scenes!Fruits
      BY <1>3 DEF Scenes!FillBasket, Scenes!Placed
    <3>2. Clear(at, order, S)
      BY <1>1, <3>1 DEF GridScene
    <3>3. Clear(next, order, S)
      BY <2>2, <3>2, StaysClear
    <3> QED BY <3>3
  <2>6. Scenes!CrateOnTable(crate)
    BY CrateStands
  <2>7. GridScene'
    BY <1>1, <2>2, <2>4, <2>5, <2>6 DEF GridScene, OnGrid
  <2> QED BY <1>1, <2>4, <2>7 DEF LaidOut, SceneFields, TallyFields
<1> QED BY <1>2, <1>3

\* A candidate of an episode is drawn.
LEMMA EpisodeDraws ==
  ASSUME SceneFields(scene), TallyFields(tally), LaidOut, scene.use = "episode",
         Scenes!CandidateValues
  PROVE  SceneFields(scene)' /\ TallyFields(tally)' /\ LaidOut'
<1>1. EpisodeScene /\ ~ tally.passed
  BY DEF LaidOut
<1>2. tally' = [tally EXCEPT !.drawn = tally.drawn + 1]
  BY Zenon DEF Scenes!CandidateValues
<1>3. TallyFields(tally') /\ tally'.passed = tally.passed
  BY <1>2 DEF TallyFields
<1> PICK target, nominal, order :
      target = scene.target /\ nominal = Scenes!Nominal[target] /\ order = scene.order
  OBVIOUS
<1>4. PICK p \in Scenes!Around(nominal, 20, 30) \cup {nominal},
           goal \in Scenes!Around(Scenes!CrateXY, 30, 30) \cup {Scenes!CrateXY},
           limits \in BOOLEAN :
        scene' = [scene EXCEPT !.at = [f \in {scene.target} |-> p], !.crate = goal,
                               !.limits = limits, !.attempt = scene.attempt + 1,
                               !.pc = "check"]
  BY Zenon DEF Scenes!CandidateValues
<1>5. /\ SceneFields(scene') /\ scene'.at = [f \in {target} |-> p] /\ scene'.pc = "check"
      /\ scene'.use = scene.use /\ scene'.preloaded = scene.preloaded
      /\ scene'.target = scene.target /\ scene'.layout = scene.layout
      /\ scene'.order = scene.order
  BY <1>4 DEF SceneFields
<1>6. p = <<p[1], p[2]>> /\ p[1] \in Int /\ p[2] \in Int
      /\ (p[2] > 0 <=> Scenes!SlotIn(order, target) < 2)
  <2> PICK s : s = Scenes!SlotIn(order, target)
    OBVIOUS
  <2>1. s \in 0 .. 3 /\ OnSide(nominal, s)
    BY <1>1, NominalPlaces DEF EpisodeScene
  <2> QED BY <2>1, CandidateSide
<1>7. scene'.at[target] = p
  BY <1>5
<1>8. EpisodeScene'
  BY <1>1, <1>5, <1>6, <1>7 DEF EpisodeScene, OnGrid
<1> QED BY <1>1, <1>3, <1>5, <1>8 DEF LaidOut, SceneFields, TallyFields

\* A candidate that passes the checks is clear of the fruits on their slots.
LEMMA EpisodeChecks ==
  ASSUME SceneFields(scene), TallyFields(tally), LaidOut, scene.use = "episode",
         Scenes!CheckCandidate
  PROVE  SceneFields(scene)' /\ TallyFields(tally)' /\ LaidOut'
<1>1. EpisodeScene /\ ~ tally.passed /\ tally' = tally /\ scene.pc = "check"
  BY DEF LaidOut, Scenes!CheckCandidate
<1> PICK target, at, order, nominal :
      /\ target = scene.target /\ at = scene.at /\ order = scene.order
      /\ nominal = Scenes!Nominal
  OBVIOUS
<1>2. CASE ~ Scenes!Precheck
  <2>1. scene' = [scene EXCEPT !.pc = "draw"]
    BY <1>2 DEF Scenes!CheckCandidate
  <2>2. /\ SceneFields(scene') /\ scene'.pc = "draw" /\ scene'.use = scene.use
        /\ scene'.preloaded = scene.preloaded /\ scene'.target = scene.target
        /\ scene'.layout = scene.layout /\ scene'.order = scene.order
    BY <2>1 DEF SceneFields
  <2>3. EpisodeScene'
    BY <1>1, <2>2 DEF EpisodeScene, OnGrid
  <2> QED BY <1>1, <2>2, <2>3 DEF LaidOut, SceneFields, TallyFields
<1>3. CASE Scenes!Precheck
  <2> PICK next : next = [f \in Scenes!Fruits |-> IF f = target THEN at[f] ELSE nominal[f]]
    OBVIOUS
  <2>1. scene' = [scene EXCEPT !.pc = "settle", !.at = next]
    BY <1>3 DEF Scenes!CheckCandidate
  <2>2. /\ SceneFields(scene') /\ scene'.pc = "settle" /\ scene'.use = scene.use
        /\ scene'.preloaded = scene.preloaded /\ scene'.target = scene.target
        /\ scene'.layout = scene.layout /\ scene'.order = scene.order
        /\ scene'.at = next /\ scene'.crate = scene.crate
    BY <2>1 DEF SceneFields
  <2> PICK p, S : p = at[target] /\ S = Scenes!Fruits \ {target}
    OBVIOUS
  <2>3. /\ Scenes!InReach(p) /\ Scenes!CrateOnTable(scene.crate)
        /\ \A f \in S : Scenes!Apart(p, nominal[f], Scenes!MinTableSeparation)
    BY <1>3, Zenon DEF Scenes!Precheck
  <2>4. p = <<p[1], p[2]>> /\ p[1] \in Int /\ p[2] \in Int
        /\ (p[2] > 0 <=> Scenes!SlotIn(order, target) < 2) /\ target \in Scenes!Fruits
    BY <1>1 DEF EpisodeScene
  <2>5. /\ \A f \in Scenes!Fruits : /\ Scenes!SlotIn(order, f) \in 0 .. 3
                                    /\ OnSide(nominal[f], Scenes!SlotIn(order, f))
        /\ \A f, g \in Scenes!Fruits : f # g =>
             Scenes!Apart(nominal[f], nominal[g], Scenes!MinTableSeparation)
    BY <1>1, NominalPlaces DEF EpisodeScene
  <2>6. Clear(nominal, order, S)
    <3>1. ASSUME NEW f \in S PROVE Standing(nominal, order, f)
      <4> PICK s, q : s = Scenes!SlotIn(order, f) /\ q = nominal[f]
        OBVIOUS
      <4>1. s \in 0 .. 3 /\ OnSide(q, s)
        BY <2>5
      <4>2. q = <<q[1], q[2]>> /\ q[1] \in Int /\ q[2] \in Int /\ Scenes!InReach(q)
            /\ (q[2] > 0 <=> s < 2)
        BY <4>1 DEF OnSide
      <4> QED BY <4>2 DEF Standing
    <3>2. S \subseteq Scenes!Fruits
      OBVIOUS
    <3> QED BY <2>5, <3>1, <3>2, Zenon DEF Clear
  <2>7. next[target] = p /\ \A f \in S : f # target => next[f] = nominal[f]
    BY <2>4
  <2>8. Clear(next, order, S \cup {target})
    BY SMTT(60), <2>3, <2>4, <2>6, <2>7, OneMore
  <2>9. S \cup {target} = Scenes!Fruits
    BY <2>4
  <2>10. EpisodeScene'
    BY <1>1, <2>2, <2>3, <2>8, <2>9 DEF EpisodeScene, OnGrid
  <2> QED BY <1>1, <2>2, <2>10 DEF LaidOut, SceneFields, TallyFields
<1> QED BY <1>2, <1>3

\* What becomes of a candidate, or of an episode without one.
LEMMA EpisodeMoves ==
  ASSUME SceneFields(scene), TallyFields(tally), LaidOut, scene.use = "episode",
         Scenes!RejectSettled \/ Scenes!Accept \/ Scenes!Exhausted
  PROVE  SceneFields(scene)' /\ TallyFields(tally)' /\ LaidOut'
<1>1. EpisodeScene /\ ~ tally.passed
  BY DEF LaidOut
<1>2. PICK pc \in {"draw", "ready", "failed"} :
        /\ scene' = [scene EXCEPT !.pc = pc] /\ tally' = tally
        /\ pc = "ready" => scene.pc = "settle"
  BY DEF Scenes!RejectSettled, Scenes!Accept, Scenes!Exhausted
<1>3. /\ SceneFields(scene') /\ scene'.pc = pc /\ scene'.use = scene.use
      /\ scene'.preloaded = scene.preloaded /\ scene'.target = scene.target
      /\ scene'.layout = scene.layout /\ scene'.order = scene.order
      /\ scene'.at = scene.at /\ scene'.crate = scene.crate
  BY <1>2 DEF SceneFields
<1>4. EpisodeScene'
  BY <1>1, <1>2, <1>3 DEF EpisodeScene, OnGrid
<1> QED BY <1>1, <1>2, <1>3, <1>4 DEF LaidOut, SceneFields, TallyFields

\* A sample that is laid out anew.
LEMMA NextSamples ==
  ASSUME SceneFields(scene), TallyFields(tally), scene.attempt \in Nat,
         scene.use = "preflight", tally.sample < NumSamples,
         NEW next, next = Scenes!NextSample(tally)
  PROVE  /\ SceneFields(next) /\ next.use = "preflight" /\ next.attempt \in Nat
         /\ \/ next.pc = "draw" /\ next.attempt = 0 /\ tally.sample + 1 < NumSamples
            \/ next.pc = "summary" /\ tally.sample + 1 = NumSamples
<1>1. tally.sample \in Nat /\ NumSamples \in Nat
  BY SceneAssumption DEF TallyFields
<1>2. CASE tally.sample + 1 < NumSamples
  <2> PICK what : what = Scenes!SampleAt(tally.sample + 1)
    OBVIOUS
  <2>1. next = Scenes!Laid("preflight", what, "draw")
    BY <1>2 DEF Scenes!NextSample
  <2> QED BY <1>2, <2>1 DEF Scenes!Laid, SceneFields
<1>3. CASE ~ (tally.sample + 1 < NumSamples)
  <2>1. next = [scene EXCEPT !.pc = "summary"]
    BY <1>3 DEF Scenes!NextSample
  <2>2. tally.sample + 1 = NumSamples
    BY <1>1, <1>3
  <2> QED BY <2>1, <2>2 DEF SceneFields
<1> QED BY <1>2, <1>3

\* The preflight counts its draws and its samples.
LEMMA PreflightMoves ==
  ASSUME SceneFields(scene), TallyFields(tally), LaidOut, scene.use = "preflight",
         \/ Scenes!CandidateValues \/ Scenes!CheckCandidate \/ Scenes!RejectSettled
         \/ Scenes!Accept \/ Scenes!Exhausted \/ Scenes!Summary
  PROVE  SceneFields(scene)' /\ TallyFields(tally)' /\ LaidOut'
<1>1. PreflightScene
  BY DEF LaidOut
<1>2. CASE Scenes!CandidateValues
  <2>1. scene.pc = "draw" /\ tally' = [tally EXCEPT !.drawn = tally.drawn + 1]
    BY <1>2, Zenon DEF Scenes!CandidateValues
  <2>2. PICK p \in Scenes!Around(Scenes!Nominal[scene.target], 20, 30)
                       \cup {Scenes!Nominal[scene.target]},
             goal \in Scenes!Around(Scenes!CrateXY, 30, 30) \cup {Scenes!CrateXY},
             limits \in BOOLEAN :
          scene' = [scene EXCEPT !.at = [f \in {scene.target} |-> p], !.crate = goal,
                                 !.limits = limits, !.attempt = scene.attempt + 1,
                                 !.pc = "check"]
    BY <1>2, Zenon DEF Scenes!CandidateValues
  <2>3. /\ SceneFields(scene') /\ scene'.pc = "check" /\ scene'.use = scene.use
        /\ scene'.attempt = scene.attempt + 1
    BY <2>2 DEF SceneFields
  <2>4. /\ TallyFields(tally') /\ tally'.sample = tally.sample /\ tally'.valid = tally.valid
        /\ tally'.reported = tally.reported /\ tally'.drawn = tally.drawn + 1
        /\ tally'.passed = tally.passed
    BY <2>1 DEF TallyFields
  <2>5. PreflightScene'
    BY <1>1, <2>1, <2>3, <2>4 DEF PreflightScene, TallyFields
  <2> QED BY <2>3, <2>4, <2>5 DEF LaidOut, SceneFields, TallyFields
<1>3. CASE Scenes!CheckCandidate \/ Scenes!RejectSettled
  <2>1. tally' = tally /\ scene.pc \in {"check", "settle"}
    BY <1>3 DEF Scenes!CheckCandidate, Scenes!RejectSettled
  <2>2. /\ SceneFields(scene') /\ scene'.pc \in {"draw", "settle"} /\ scene'.use = scene.use
        /\ scene'.attempt = scene.attempt
    <3>1. \/ \E next : scene' = [scene EXCEPT !.pc = "settle", !.at = next]
          \/ scene' = [scene EXCEPT !.pc = "draw"]
      BY <1>3, Zenon DEF Scenes!CheckCandidate, Scenes!RejectSettled
    <3> QED BY <3>1 DEF SceneFields
  <2>3. PreflightScene'
    BY <1>1, <2>1, <2>2 DEF PreflightScene
  <2> QED BY <2>1, <2>2, <2>3 DEF LaidOut, SceneFields, TallyFields
<1>4. CASE Scenes!Accept
  <2>1. /\ scene.pc = "settle" /\ scene' = Scenes!NextSample(tally)
        /\ tally' = [tally EXCEPT !.sample = tally.sample + 1, !.valid = tally.valid + 1,
                                  !.reported = tally.reported + scene.attempt]
    BY <1>4 DEF Scenes!Accept
  <2>2. scene.attempt \in Nat /\ tally.sample < NumSamples /\ ~ tally.passed
    BY <1>1, <2>1 DEF PreflightScene
  <2>3. /\ SceneFields(scene') /\ scene'.use = "preflight" /\ scene'.attempt \in Nat
        /\ \/ scene'.pc = "draw" /\ scene'.attempt = 0 /\ tally.sample + 1 < NumSamples
           \/ scene'.pc = "summary" /\ tally.sample + 1 = NumSamples
    BY <2>1, <2>2, NextSamples
  <2>4. /\ TallyFields(tally') /\ tally'.sample = tally.sample + 1
        /\ tally'.valid = tally.valid + 1
        /\ tally'.reported = tally.reported + scene.attempt /\ tally'.drawn = tally.drawn
        /\ tally'.passed = tally.passed
    <3> PICK n \in Nat : n = scene.attempt
      BY <2>2
    <3> PICK t : t = tally
      OBVIOUS
    <3>1. /\ t = [sample |-> t.sample, valid |-> t.valid, reported |-> t.reported,
                  drawn |-> t.drawn, passed |-> t.passed]
          /\ t.sample \in Nat /\ t.valid \in Nat /\ t.reported \in Nat /\ t.drawn \in Nat
      BY DEF TallyFields
    <3>2. tally' = [sample |-> t.sample + 1, valid |-> t.valid + 1,
                    reported |-> t.reported + n, drawn |-> t.drawn, passed |-> t.passed]
      BY <2>1, <3>1
    <3>3. /\ t.sample + 1 \in Nat /\ t.valid + 1 \in Nat /\ t.reported + n \in Nat
      BY <3>1
    <3> QED BY <3>1, <3>2, <3>3 DEF TallyFields
  <2>5. PreflightScene'
    BY <1>1, <2>1, <2>2, <2>3, <2>4 DEF PreflightScene, TallyFields
  <2> QED BY <2>3, <2>4, <2>5 DEF LaidOut, SceneFields, TallyFields
<1>5. CASE Scenes!Exhausted
  <2>1. /\ scene.pc = "draw" /\ scene' = Scenes!NextSample(tally)
        /\ tally' = [tally EXCEPT !.sample = tally.sample + 1]
    BY <1>5 DEF Scenes!Exhausted
  <2>2. scene.attempt \in Nat /\ tally.sample < NumSamples /\ ~ tally.passed
    BY <1>1, <2>1 DEF PreflightScene
  <2>3. /\ SceneFields(scene') /\ scene'.use = "preflight" /\ scene'.attempt \in Nat
        /\ \/ scene'.pc = "draw" /\ scene'.attempt = 0 /\ tally.sample + 1 < NumSamples
           \/ scene'.pc = "summary" /\ tally.sample + 1 = NumSamples
    BY <2>1, <2>2, NextSamples
  <2>4. /\ TallyFields(tally') /\ tally'.sample = tally.sample + 1
        /\ tally'.valid = tally.valid /\ tally'.passed = tally.passed
    BY <2>1, <2>2 DEF TallyFields
  <2>5. PreflightScene'
    BY <1>1, <2>1, <2>2, <2>3, <2>4 DEF PreflightScene, TallyFields
  <2> QED BY <2>3, <2>4, <2>5 DEF LaidOut, SceneFields, TallyFields
<1>6. CASE Scenes!Summary
  <2>1. scene.pc = "summary" /\ scene' = [scene EXCEPT !.pc = "done"]
    BY <1>6, Zenon DEF Scenes!Summary
  <2>2. PICK coverage \in BOOLEAN :
          tally' = [tally EXCEPT !.passed = /\ tally.valid = NumSamples
                                            /\ 5 * tally.valid >= tally.reported
                                            /\ coverage]
    BY <1>6, Zenon DEF Scenes!Summary
  <2>3. /\ SceneFields(scene') /\ scene'.pc = "done" /\ scene'.use = scene.use
        /\ scene'.attempt = scene.attempt
    BY <2>1 DEF SceneFields
  <2>4. /\ TallyFields(tally') /\ tally'.sample = tally.sample /\ tally'.valid = tally.valid
        /\ tally'.reported = tally.reported /\ tally'.drawn = tally.drawn
        /\ tally'.passed => tally.valid = NumSamples
    BY <2>2 DEF TallyFields
  <2>5. PreflightScene'
    BY <1>1, <2>1, <2>3, <2>4 DEF PreflightScene
  <2> QED BY <2>3, <2>4, <2>5 DEF LaidOut, SceneFields, TallyFields
<1> QED BY <1>2, <1>3, <1>4, <1>5, <1>6

\* Every scene begins as it is asked for.
LEMMA SceneInits ==
  Scenes!SceneInit => SceneFields(scene) /\ TallyFields(tally) /\ LaidOut
<1> SUFFICES ASSUME Scenes!SceneInit
             PROVE  SceneFields(scene) /\ TallyFields(tally) /\ LaidOut
  OBVIOUS
<1>1. tally = [sample |-> 0, valid |-> 0, reported |-> 0, drawn |-> 0, passed |-> FALSE]
  BY DEF Scenes!SceneInit, Scenes!NoTally
<1>2. TallyFields(tally) /\ ~ tally.passed /\ tally.sample = 0 /\ tally.valid = 0
      /\ tally.reported = 0 /\ tally.drawn = 0
  BY <1>1 DEF TallyFields
<1> PICK nowhere : nowhere = [f \in {} |-> Scenes!Nowhere]
  OBVIOUS
<1>3. DOMAIN nowhere = {}
  OBVIOUS
<1>4. ASSUME NEW use, NEW what, NEW pc
      PROVE  Scenes!Laid(use, what, pc) =
               [use |-> use, pc |-> pc, target |-> what.target, layout |-> what.layout,
                order |-> what.order, attempt |-> 0, tries |-> 0, jitter |-> 0,
                preloaded |-> {}, at |-> nowhere, crate |-> Scenes!CrateXY, limits |-> TRUE]
  BY Zenon DEF Scenes!Laid
<1>5. Scenes!LayoutCount = 16
  <2>1. Len(Scenes!SlotPairs) = 4
    BY DEF Scenes!SlotPairs
  <2> QED BY <2>1 DEF Scenes!LayoutCount
<1>6. ASSUME NEW what \in Scenes!Asked
      PROVE  /\ what.target \in Scenes!Fruits /\ what.layout \in 0 .. 15
             /\ what.order = Scenes!Permuted[1]
  BY <1>5 DEF Scenes!Asked
<1>7. CASE scene = Scenes!Laid("transport", Scenes!SampleAt(0), "place")
  <2> PICK what : what = Scenes!SampleAt(0)
    OBVIOUS
  <2>1. scene = Scenes!Laid("transport", what, "place")
    BY <1>7
  <2>2. /\ SceneFields(scene) /\ scene.use = "transport" /\ scene.pc = "place"
        /\ scene.preloaded = {} /\ scene.crate = Scenes!CrateXY
    BY <1>4, <2>1 DEF SceneFields
  <2> QED BY <1>2, <2>2 DEF LaidOut, TransportScene
<1>8. CASE \E what \in Scenes!Asked, j \in Jitters, pre \in PreloadedSets :
             /\ what.target = 1
             /\ scene = [Scenes!Laid("grid", what, "place") EXCEPT
                          !.jitter = j, !.preloaded = pre]
  <2> PICK what \in Scenes!Asked, j \in Jitters, pre \in PreloadedSets :
             scene = [Scenes!Laid("grid", what, "place") EXCEPT
                       !.jitter = j, !.preloaded = pre]
    BY <1>8
  <2>1. /\ SceneFields(scene) /\ scene.use = "grid" /\ scene.pc = "place"
        /\ scene.preloaded = pre /\ scene.at = nowhere /\ scene.jitter = j
        /\ scene.layout = what.layout /\ scene.order = what.order
    BY <1>4 DEF SceneFields
  <2>2. DOMAIN scene.at \ scene.preloaded = {} /\ DOMAIN scene.at \subseteq Scenes!Fruits
    BY <1>3, <2>1
  <2>3. Clear(scene.at, scene.order, DOMAIN scene.at \ scene.preloaded)
    BY <2>2 DEF Clear
  <2>4. GridScene
    <3>1. scene.jitter \in Int
      BY <2>1, SceneAssumption
    <3> QED BY <1>6, <2>1, <2>2, <2>3, <3>1 DEF GridScene, OnGrid
  <2> QED BY <1>2, <2>1, <2>4 DEF LaidOut
<1>9. CASE \E what \in Scenes!Asked : scene = Scenes!Laid("episode", what, "draw")
  <2> PICK what \in Scenes!Asked : scene = Scenes!Laid("episode", what, "draw")
    BY <1>9
  <2>1. /\ SceneFields(scene) /\ scene.use = "episode" /\ scene.pc = "draw"
        /\ scene.preloaded = {} /\ scene.target = what.target
        /\ scene.layout = what.layout /\ scene.order = what.order
    BY <1>4 DEF SceneFields
  <2> QED BY <1>2, <1>6, <2>1 DEF LaidOut, EpisodeScene, OnGrid
<1>10. CASE scene = Scenes!Laid("preflight", Scenes!SampleAt(0), "draw")
  <2> PICK what : what = Scenes!SampleAt(0)
    OBVIOUS
  <2>1. scene = Scenes!Laid("preflight", what, "draw")
    BY <1>10
  <2>2. /\ SceneFields(scene) /\ scene.use = "preflight" /\ scene.pc = "draw"
        /\ scene.attempt = 0
    BY <1>4, <2>1 DEF SceneFields
  <2>3. PreflightScene
    BY <1>2, <2>2, SceneAssumption DEF PreflightScene
  <2> QED BY <1>2, <2>2, <2>3 DEF LaidOut
<1> QED BY <1>7, <1>8, <1>9, <1>10, Zenon DEF Scenes!SceneInit

\* A step of laying out a scene.
LEMMA SceneSteps ==
  ASSUME SceneFields(scene), TallyFields(tally), LaidOut, Scenes!SceneNext
  PROVE  SceneFields(scene)' /\ TallyFields(tally)' /\ LaidOut'
<1>1. CASE Scenes!PlaceObjects
  BY <1>1, PlaceTransport
<1>2. CASE Scenes!TryFruit
  BY <1>2, GridTry
<1>3. CASE Scenes!GiveUpFruit \/ Scenes!FillBasket
  BY <1>3, GridEnds
<1>4. CASE Scenes!Sampling /\ (\/ Scenes!CandidateValues \/ Scenes!CheckCandidate
                               \/ Scenes!RejectSettled \/ Scenes!Accept \/ Scenes!Exhausted)
  <2>1. CASE scene.use = "episode"
    BY <1>4, <2>1, EpisodeDraws, EpisodeChecks, EpisodeMoves
  <2>2. CASE scene.use = "preflight"
    BY <1>4, <2>2, PreflightMoves
  <2> QED BY <1>4, <2>1, <2>2 DEF Scenes!Sampling
<1>5. CASE Scenes!Summary
  <2>1. scene.pc = "summary"
    BY <1>5 DEF Scenes!Summary
  <2>2. scene.use = "preflight"
    BY <2>1 DEF LaidOut, TransportScene, GridScene, EpisodeScene
  <2> QED BY <1>5, <2>2, PreflightMoves
<1>6. CASE Scenes!SceneDone
  <2>1. scene' = scene /\ tally' = tally
    BY <1>6 DEF Scenes!SceneDone, Scenes!sceneVars
  <2> QED BY <2>1 DEF SceneFields, TallyFields, LaidOut, TransportScene, GridScene,
                      EpisodeScene, PreflightScene, OnGrid
<1>7. ASSUME \/ Scenes!CandidateValues \/ Scenes!CheckCandidate \/ Scenes!RejectSettled
             \/ Scenes!Accept \/ Scenes!Exhausted
      PROVE  Scenes!Sampling
  BY <1>7 DEF Scenes!CandidateValues, Scenes!CheckCandidate, Scenes!RejectSettled, Scenes!Accept,
         Scenes!Exhausted
<1> QED BY <1>1, <1>2, <1>3, <1>4, <1>5, <1>6, <1>7, Zenon DEF Scenes!SceneNext

\* The scene of an episode, and the tally of the preflight, at every step.
LEMMA SceneInvariant == ToolSpec => []SceneInv
<1>1. ToolInit => SceneInv
  BY SceneInits DEF ToolInit, SceneInv
<1>2. SceneInv /\ [ToolNext]_toolVars => SceneInv'
  <2> SUFFICES ASSUME SceneInv, [ToolNext]_toolVars, tool' = "scene"
               PROVE  SceneFields(scene)' /\ TallyFields(tally)' /\ LaidOut'
    BY DEF SceneInv
  <2>1. tool = "scene"
    BY DEF ToolNext, toolVars
  <2>2. SceneFields(scene) /\ TallyFields(tally) /\ LaidOut
    BY <2>1 DEF SceneInv
  <2>3. CASE Scenes!SceneNext
    BY <2>2, <2>3, SceneSteps
  <2>4. CASE scene' = scene /\ tally' = tally
    BY <2>2, <2>4 DEF SceneFields, TallyFields, LaidOut, TransportScene, GridScene,
                      EpisodeScene, PreflightScene, OnGrid
  <2> QED BY <2>1, <2>3, <2>4 DEF ToolNext, toolVars
<1> QED BY <1>1, <1>2, PTL DEF ToolSpec

(***************************************************************************)
(* A scene an episode starts from can be worked in, whichever program laid *)
(* it out and however often a draw was repeated: the basket stands on the  *)
(* table, the fruits on the table are in reach, 75 mm apart (78 in the     *)
(* transport layout, where no draw is repeated) and on the sides of their  *)
(* slots.  A preflight that passed reports every candidate it drew.  For   *)
(* any bounds on the draws and any number of samples.                      *)
(***************************************************************************)
THEOREM ScenesCanBeWorkedIn == ToolSpec => []ScenesLaidOut
<1>1. SceneInv => ScenesLaidOut
  <2> SUFFICES ASSUME SceneInv, tool = "scene" PROVE Scenes!ScenesHold
    BY DEF ScenesLaidOut
  <2>1. LaidOut
    BY DEF SceneInv
  <2>2. tally.passed => tally.reported = tally.drawn
    BY <2>1 DEF LaidOut, PreflightScene
  <2>3. ASSUME scene.pc = "ready"
        PROVE  /\ Scenes!CrateOnTable(scene.crate)
               /\ \A f \in Scenes!Fruits \ scene.preloaded :
                    /\ Scenes!InReach(scene.at[f])
                    /\ scene.use # "transport" =>
                         (scene.at[f][2] > 0 <=> Scenes!SlotIn(scene.order, f) < 2)
                    /\ \A g \in Scenes!Fruits \ ({f} \cup scene.preloaded) :
                         Scenes!Apart(scene.at[f], scene.at[g],
                                      IF scene.use = "transport" THEN 78
                                      ELSE Scenes!MinTableSeparation)
    <3> PICK S, at, order, crate :
          /\ S = Scenes!Fruits \ scene.preloaded /\ at = scene.at /\ order = scene.order
          /\ crate = scene.crate
      OBVIOUS
    <3>1. CASE scene.use = "transport"
      <4>1. /\ crate = Scenes!CrateXY
            /\ \A f \in Scenes!Fruits : Scenes!InReach(at[f])
            /\ \A f, g \in Scenes!Fruits : f # g => Scenes!Apart(at[f], at[g], 78)
        BY <2>1, <2>3, <3>1, Zenon DEF LaidOut, TransportScene
      <4>2. Scenes!CrateOnTable(crate)
        BY <4>1, CrateStands
      <4> QED BY <3>1, <4>1, <4>2
    <3>2. CASE scene.use \in {"grid", "episode"}
      <4>1. Scenes!CrateOnTable(crate) /\ Clear(at, order, S)
        BY <2>1, <2>3, <3>2 DEF LaidOut, GridScene, EpisodeScene
      <4>2. ASSUME NEW f \in S
            PROVE  /\ Scenes!InReach(at[f])
                   /\ at[f][2] > 0 <=> Scenes!SlotIn(order, f) < 2
        BY <4>1 DEF Clear, Standing
      <4>3. ASSUME NEW f \in S, NEW g \in S, f # g
            PROVE  Scenes!Apart(at[f], at[g], Scenes!MinTableSeparation)
        BY <4>1, <4>3 DEF Clear
      <4> QED BY <3>2, <4>1, <4>2, <4>3
    <3>3. CASE scene.use = "preflight"
      BY <2>1, <2>3, <3>3 DEF LaidOut, PreflightScene
    <3> QED BY <2>1, <3>1, <3>2, <3>3 DEF LaidOut
  <2> QED BY <2>2, <2>3, ConfigurationIsValid, Zenon DEF Scenes!ScenesHold
<1> QED BY <1>1, SceneInvariant, PTL

-----------------------------------------------------------------------------
(* A suite of trials. *)

Dealt == suite.pc \in {"scenes", "listed"}

\* The episodes chosen so far are candidates, each once.
SuiteChoice ==
  /\ suite.pc \in {"load", "select", "scenes", "listed", "replay", "raised"}
  /\ suite.want \in Wanted
  /\ suite.tie \in Bijection(DOMAIN SuiteRecords, DOMAIN SuiteRecords)
  /\ suite.chosen \in Seq(Suites!Candidates) /\ IsInjective(suite.chosen)
  /\ suite.pc \notin {"load", "raised"} =>
       suite.want.count \in 1 .. Cardinality(Suites!Candidates)
  /\ Dealt => Len(suite.chosen) = suite.want.count

\* There are as many sides as trials that place a fruit, the two in turn, shuffled.
SidesOf(m, sides) ==
  \E p \in Bijection(1 .. m, 1 .. m) :
    sides = [k \in 1 .. m |-> IF p[k] % 2 = 1 THEN "left" ELSE "right"]

\* The numbers of P that an arm is dealt to.
DealtTo(P, sides, arm) == {k \in P : sides[Cardinality(P \cap 1 .. k)] = arm}

\* The layouts of a round that are left have been used once less than the others.
Uses(scenes, l) == Cardinality({k \in DOMAIN scenes : scenes[k].layout = l})
Rounds(scenes, deck) ==
  /\ deck \subseteq 0 .. NumLayouts - 1
  /\ \E c \in Int : \A l \in 0 .. NumLayouts - 1 :
       Uses(scenes, l) = IF l \in deck THEN c ELSE c + 1

SceneFits(k, scene_k) ==
  /\ scene_k.arm = IF Suites!IsPlace(suite.chosen[k]) THEN Suites!SideOf(k) ELSE "both"
  /\ Suites!IsPlace(suite.chosen[k]) => scene_k.slot \in Suites!SlotsOf(scene_k.arm)

SuiteScenes ==
  /\ suite.scenes \in Seq([layout : 0 .. NumLayouts - 1, arm : {"left", "right", "both"},
                           slot : 0 .. 3])
  /\ ~ Dealt => suite.scenes = << >>
  /\ Dealt => /\ SidesOf(Cardinality(Suites!Places), suite.sides)
              /\ Len(suite.scenes) <= Len(suite.chosen)
              /\ \A k \in DOMAIN suite.scenes : SceneFits(k, suite.scenes[k])
  /\ suite.pc = "listed" => Len(suite.scenes) = suite.want.count
  /\ Rounds(suite.scenes, suite.deck)

SuiteFields(s) ==
  s = [pc |-> s.pc, want |-> s.want, tie |-> s.tie, chosen |-> s.chosen, deck |-> s.deck,
       sides |-> s.sides, scenes |-> s.scenes]

SuiteGood == SuiteFields(suite) /\ SuiteChoice /\ SuiteScenes
SuiteInv == tool = "suite" => SuiteGood

\* The operators of the library, as the suite has them.
LEMMA SuiteLibrary ==
  /\ \A S : Suites!Cardinality(S) = Cardinality(S)
  /\ \A S, T : Suites!Bijection(S, T) = Bijection(S, T)
  /\ \A f : Suites!IsInjective(f) = IsInjective(f)
<1>1. \A S : Suites!Cardinality(S) = Cardinality(S)
  BY DEF Suites!Cardinality, Cardinality
<1>2. \A f : Suites!IsInjective(f) = IsInjective(f)
  BY DEF Suites!IsInjective, IsInjective
<1>3. \A S, T : Suites!Bijection(S, T) = Bijection(S, T)
  BY <1>2, Zenon DEF Suites!Bijection, Bijection, Suites!Injection, Injection,
     Suites!Surjection, Surjection
<1> QED BY <1>1, <1>2, <1>3

\* Members of a set of numbers, counted from the first.
LEMMA Ranks ==
  ASSUME NEW n \in Nat, NEW P \in SUBSET (1 .. n)
  PROVE  /\ IsFiniteSet(P) /\ Cardinality(P) \in Nat
         /\ [k \in P |-> Cardinality(P \cap 1 .. k)] \in Bijection(P, 1 .. Cardinality(P))
<1> DEFINE rank == [k \in P |-> Cardinality(P \cap 1 .. k)]
<1>1. IsFiniteSet(1 .. n)
  BY IntervalCounts
<1>2. IsFiniteSet(P) /\ Cardinality(P) \in Nat
  BY <1>1, FS_Subset, FS_CardinalityType
<1> PICK m \in Nat : m = Cardinality(P)
  BY <1>2
<1>3. ASSUME NEW k \in P
      PROVE  /\ IsFiniteSet(P \cap 1 .. k)
             /\ Cardinality(P \cap 1 .. k) \in 1 .. m
  <2>1. P \cap 1 .. k \in SUBSET P
    OBVIOUS
  <2>2. IsFiniteSet(P \cap 1 .. k) /\ Cardinality(P \cap 1 .. k) <= m
    BY <1>2, <2>1, FS_Subset
  <2>3. Cardinality(P \cap 1 .. k) \in Nat
    BY <2>2, FS_CardinalityType
  <2>4. k \in P \cap 1 .. k
    OBVIOUS
  <2>5. Cardinality(P \cap 1 .. k) # 0
    BY <2>2, <2>4, FS_EmptySet
  <2> QED BY <2>2, <2>3, <2>5
<1>4. ASSUME NEW k \in P, NEW l \in P, k < l
      PROVE  rank[k] # rank[l]
  <2>1. P \cap 1 .. k \in SUBSET (P \cap 1 .. l)
    BY <1>4
  <2>2. l \in P \cap 1 .. l /\ l \notin P \cap 1 .. k
    BY <1>4
  <2>3. Cardinality(P \cap 1 .. k) # Cardinality(P \cap 1 .. l)
    BY <1>3, <2>1, <2>2, FS_Subset
  <2> QED BY <2>3
<1>5. rank \in Injection(P, 1 .. m)
  <2>1. rank \in [P -> 1 .. m]
    BY <1>3
  <2>2. \A k, l \in P : rank[k] = rank[l] => k = l
    <3> SUFFICES ASSUME NEW k \in P, NEW l \in P, k # l PROVE rank[k] # rank[l]
      OBVIOUS
    <3>1. k < l \/ l < k
      OBVIOUS
    <3> HIDE DEF rank
    <3> QED BY <1>4, <3>1
  <2> HIDE DEF rank
  <2> QED BY <2>1, <2>2 DEF Injection, IsInjective
<1> HIDE DEF rank
<1>6. IsFiniteSet(1 .. m) /\ Cardinality(1 .. m) = m
  BY IntervalCounts
<1>7. rank \in Surjection(P, 1 .. m)
  BY <1>5, <1>6, FS_Injection
<1>8. rank \in Bijection(P, 1 .. m)
  BY <1>5, <1>7 DEF Bijection
<1> QED BY <1>2, <1>8 DEF rank

\* Of the first numbers as many are odd as even, or one more.
LEMMA OddsAndEvens ==
  ASSUME NEW m \in Nat
  PROVE  /\ IsFiniteSet({i \in 1 .. m : i % 2 = 1}) /\ IsFiniteSet({i \in 1 .. m : i % 2 # 1})
         /\ Cardinality({i \in 1 .. m : i % 2 = 1}) = (m + 1) \div 2
         /\ Cardinality({i \in 1 .. m : i % 2 # 1}) = m \div 2
<1> DEFINE odd == {i \in 1 .. m : i % 2 = 1}
           even == {i \in 1 .. m : i % 2 # 1}
           f == [i \in 1 .. (m + 1) \div 2 |-> 2 * i - 1]
           g == [i \in 1 .. m \div 2 |-> 2 * i]
<1>1. (m + 1) \div 2 \in Nat /\ m \div 2 \in Nat
  OBVIOUS
<1>2. f \in Bijection(1 .. (m + 1) \div 2, odd)
  <2>1. \A i \in 1 .. (m + 1) \div 2 : 2 * i - 1 \in odd
    OBVIOUS
  <2>2. \A j \in odd : (j + 1) \div 2 \in 1 .. (m + 1) \div 2 /\ 2 * ((j + 1) \div 2) - 1 = j
    OBVIOUS
  <2>3. f \in Injection(1 .. (m + 1) \div 2, odd)
    BY <2>1 DEF Injection, IsInjective
  <2>4. f \in Surjection(1 .. (m + 1) \div 2, odd)
    BY <2>1, <2>2 DEF Surjection
  <2> QED BY <2>3, <2>4 DEF Bijection
<1>3. g \in Bijection(1 .. m \div 2, even)
  <2>1. \A i \in 1 .. m \div 2 : 2 * i \in even
    OBVIOUS
  <2>2. \A j \in even : j \div 2 \in 1 .. m \div 2 /\ 2 * (j \div 2) = j
    OBVIOUS
  <2>3. g \in Injection(1 .. m \div 2, even)
    BY <2>1 DEF Injection, IsInjective
  <2>4. g \in Surjection(1 .. m \div 2, even)
    BY <2>1, <2>2 DEF Surjection
  <2> QED BY <2>3, <2>4 DEF Bijection
<1> HIDE DEF odd, even, f, g
<1>4. /\ IsFiniteSet(1 .. (m + 1) \div 2) /\ Cardinality(1 .. (m + 1) \div 2) = (m + 1) \div 2
      /\ IsFiniteSet(1 .. m \div 2) /\ Cardinality(1 .. m \div 2) = m \div 2
  BY <1>1, IntervalCounts
<1>5. IsFiniteSet(odd) /\ Cardinality(odd) = (m + 1) \div 2
  BY <1>2, <1>4, FS_Bijection DEF ExistsBijection
<1>6. IsFiniteSet(even) /\ Cardinality(even) = m \div 2
  BY <1>3, <1>4, FS_Bijection DEF ExistsBijection
<1> QED BY <1>5, <1>6 DEF odd, even

\* Sides that are dealt in turn and shuffled are within one of each other.
LEMMA SidesEven ==
  ASSUME NEW n \in Nat, NEW P \in SUBSET (1 .. n), NEW sides, SidesOf(Cardinality(P), sides)
  PROVE  /\ \A k \in P : sides[Cardinality(P \cap 1 .. k)] \in {"left", "right"}
         /\ Cardinality(DealtTo(P, sides, "left")) - Cardinality(DealtTo(P, sides, "right"))
              \in {0, 1}
<1> DEFINE m == Cardinality(P)
           rank == [k \in P |-> Cardinality(P \cap 1 .. k)]
<1>1. m \in Nat /\ rank \in Bijection(P, 1 .. m)
  BY Ranks
<1> PICK p \in Bijection(1 .. m, 1 .. m) :
      sides = [k \in 1 .. m |-> IF p[k] % 2 = 1 THEN "left" ELSE "right"]
  BY DEF SidesOf
<1> HIDE DEF m
<1>2. \A k \in P : rank[k] = Cardinality(P \cap 1 .. k)
  OBVIOUS
<1> HIDE DEF rank
<1>3. /\ rank \in [P -> 1 .. m] /\ p \in [1 .. m -> 1 .. m]
      /\ \A k, l \in P : rank[k] = rank[l] => k = l
      /\ \A i, j \in 1 .. m : p[i] = p[j] => i = j
      /\ \A j \in 1 .. m : \E k \in P : rank[k] = j
      /\ \A j \in 1 .. m : \E i \in 1 .. m : p[i] = j
  BY <1>1 DEF Bijection, Injection, Surjection, IsInjective
<1> DEFINE left == {k \in P : p[rank[k]] % 2 = 1}
           right == {k \in P : p[rank[k]] % 2 # 1}
           odd == {i \in 1 .. m : i % 2 = 1}
           even == {i \in 1 .. m : i % 2 # 1}
<1>4. ASSUME NEW k \in P
      PROVE  sides[Cardinality(P \cap 1 .. k)] = IF p[rank[k]] % 2 = 1 THEN "left" ELSE "right"
  <2> PICK r \in 1 .. m : r = rank[k]
    BY <1>3
  <2>1. sides[r] = IF p[r] % 2 = 1 THEN "left" ELSE "right"
    OBVIOUS
  <2>2. r = Cardinality(P \cap 1 .. k)
    BY <1>2
  <2> QED BY <2>1, <2>2
<1>5. /\ {k \in P : sides[Cardinality(P \cap 1 .. k)] = "left"} = left
      /\ {k \in P : sides[Cardinality(P \cap 1 .. k)] = "right"} = right
  <2>1. ASSUME NEW k \in P
        PROVE  /\ sides[Cardinality(P \cap 1 .. k)] = "left" <=> p[rank[k]] % 2 = 1
               /\ sides[Cardinality(P \cap 1 .. k)] = "right" <=> p[rank[k]] % 2 # 1
    <3> PICK v, r : v = sides[Cardinality(P \cap 1 .. k)] /\ r = p[rank[k]]
      OBVIOUS
    <3>1. v = IF r % 2 = 1 THEN "left" ELSE "right"
      BY <1>4
    <3>2. v = "left" <=> r % 2 = 1
      BY <3>1
    <3>3. v = "right" <=> r % 2 # 1
      BY <3>1
    <3> QED BY <3>2, <3>3, Zenon
  <2> QED BY <2>1, Zenon
<1>6. [k \in left |-> p[rank[k]]] \in Bijection(left, odd)
  <2> DEFINE h == [k \in left |-> p[rank[k]]]
  <2>1. h \in [left -> odd]
    BY <1>3
  <2>2. ASSUME NEW j \in odd PROVE \E k \in left : h[k] = j
    <3> PICK i \in 1 .. m : p[i] = j
      BY <1>3
    <3> PICK k \in P : rank[k] = i
      BY <1>3
    <3>1. p[rank[k]] = j /\ k \in left
      OBVIOUS
    <3> QED BY <3>1
  <2>3. \A k, l \in left : h[k] = h[l] => k = l
    BY <1>3
  <2> HIDE DEF h
  <2> QED BY <2>1, <2>2, <2>3 DEF Bijection, Injection, Surjection, IsInjective, h
<1>7. [k \in right |-> p[rank[k]]] \in Bijection(right, even)
  <2> DEFINE h == [k \in right |-> p[rank[k]]]
  <2>1. h \in [right -> even]
    BY <1>3
  <2>2. ASSUME NEW j \in even PROVE \E k \in right : h[k] = j
    <3> PICK i \in 1 .. m : p[i] = j
      BY <1>3
    <3> PICK k \in P : rank[k] = i
      BY <1>3
    <3>1. p[rank[k]] = j /\ k \in right
      OBVIOUS
    <3> QED BY <3>1
  <2>3. \A k, l \in right : h[k] = h[l] => k = l
    BY <1>3
  <2> HIDE DEF h
  <2> QED BY <2>1, <2>2, <2>3 DEF Bijection, Injection, Surjection, IsInjective, h
<1>8. IsFiniteSet(left) /\ IsFiniteSet(right)
  <2>1. left \in SUBSET P /\ right \in SUBSET P
    OBVIOUS
  <2>2. IsFiniteSet(P)
    BY Ranks
  <2> HIDE DEF left, right
  <2> QED BY <2>1, <2>2, FS_Subset
<1> HIDE DEF left, right, odd, even
<1>9. Cardinality(left) = Cardinality(odd) /\ Cardinality(right) = Cardinality(even)
  BY <1>6, <1>7, <1>8, FS_Bijection DEF ExistsBijection
<1>10. Cardinality(odd) = (m + 1) \div 2 /\ Cardinality(even) = m \div 2
  BY <1>1, OddsAndEvens DEF odd, even
<1>11. \A k \in P : sides[Cardinality(P \cap 1 .. k)] \in {"left", "right"}
  BY <1>4
<1>12. Cardinality(left) - Cardinality(right) \in {0, 1}
  BY <1>1, <1>9, <1>10
<1> QED BY <1>5, <1>11, <1>12, Zenon DEF DealtTo

\* A part of a number is at most the number.
LEMMA PartBounds ==
  ASSUME NEW s \in Nat, NEW c \in Nat
  PROVE  s \div (1 + c) \in 0 .. s
<1> DEFINE d == 1 + c
           q == s \div d
<1>1. d \in Nat /\ d > 0 /\ q \in Int /\ d * q <= s /\ s < d * q + d
  OBVIOUS
<1> HIDE DEF q, d
<1>2. q >= 0
  <2> SUFFICES ASSUME q <= -1 PROVE FALSE
    BY <1>1
  <2>1. d * q <= d * (-1)
    BY <1>1
  <2> QED BY <1>1, <2>1
<1>3. q <= s
  <2>1. (d - 1) * q >= 0
    BY <1>1, <1>2
  <2>2. d * q = (d - 1) * q + q
    BY <1>1
  <2> QED BY <1>1, <2>1, <2>2
<1>4. q \in 0 .. s
  BY <1>1, <1>2, <1>3
<1> QED BY <1>4 DEF q, d

LEMMA SixParts ==
  ASSUME NEW s \in Nat, NEW p1 \in 0 .. s, NEW p2 \in 0 .. s, NEW p3 \in 0 .. s,
         NEW p4 \in 0 .. s, NEW p5 \in 0 .. s, NEW p6 \in 0 .. s
  PROVE  p1 + p2 + p3 + p4 + p5 + p6 \in 0 .. 6 * s
OBVIOUS

\* The score of an episode is a number, and at most that of a new one.
LEMMA ScoreBounds ==
  ASSUME NEW S, suite.chosen \in Seq(S), NEW e
  PROVE  Suites!Score(e) \in 0 .. 6 * ScoreScale
<1>1. ScoreScale \in Nat
  BY SuiteAssumption
<1> PICK chosen : chosen = suite.chosen
  OBVIOUS
<1>2. ASSUME NEW i
      PROVE  Suites!Chosen(e, i) \in Nat
  <2> PICK K : K = {k \in DOMAIN suite.chosen :
                     Suites!Features(suite.chosen[k])[i] = Suites!Features(e)[i]}
    OBVIOUS
  <2>1. DOMAIN chosen = 1 .. Len(chosen) /\ Len(chosen) \in Nat
    OBVIOUS
  <2>2. IsFiniteSet(DOMAIN chosen)
    BY <2>1, IntervalCounts
  <2>3. K \in SUBSET DOMAIN chosen
    BY Zenon
  <2>4. Cardinality(K) \in Nat
    BY <2>2, <2>3, FS_Subset, FS_CardinalityType
  <2>5. Suites!Chosen(e, i) = Cardinality(K)
    BY SuiteLibrary, Zenon DEF Suites!Chosen
  <2> QED BY <2>4, <2>5
<1>3. ASSUME NEW i
      PROVE  ScoreScale \div (1 + Suites!Chosen(e, i)) \in 0 .. ScoreScale
  BY <1>1, <1>2, PartBounds
<1> PICK p1, p2, p3, p4, p5, p6 :
      /\ p1 = ScoreScale \div (1 + Suites!Chosen(e, 1))
      /\ p2 = ScoreScale \div (1 + Suites!Chosen(e, 2))
      /\ p3 = ScoreScale \div (1 + Suites!Chosen(e, 3))
      /\ p4 = ScoreScale \div (1 + Suites!Chosen(e, 4))
      /\ p5 = ScoreScale \div (1 + Suites!Chosen(e, 5))
      /\ p6 = ScoreScale \div (1 + Suites!Chosen(e, 6))
  OBVIOUS
<1>4. /\ p1 \in 0 .. ScoreScale /\ p2 \in 0 .. ScoreScale /\ p3 \in 0 .. ScoreScale
      /\ p4 \in 0 .. ScoreScale /\ p5 \in 0 .. ScoreScale /\ p6 \in 0 .. ScoreScale
  BY <1>3, Zenon
<1>5. Suites!Score(e) = p1 + p2 + p3 + p4 + p5 + p6
  BY Zenon DEF Suites!Score
<1>6. p1 + p2 + p3 + p4 + p5 + p6 \in 0 .. 6 * ScoreScale
  BY <1>1, <1>4, SixParts, Zenon
<1> QED BY <1>5, <1>6, Zenon

\* Of some episodes one is better than all others.
LEMMA BestEpisode ==
  ASSUME NEW C, suite.chosen \in Seq(C),
         suite.tie \in Bijection(DOMAIN SuiteRecords, DOMAIN SuiteRecords),
         NEW S \in SUBSET DOMAIN SuiteRecords, S # {}
  PROVE  \E e \in S : \A f \in S \ {e} : Suites!Better(e, f)
<1> DEFINE score == [e \in S |-> Suites!Score(e)]
           bound == 6 * ScoreScale
           N == Len(SuiteRecords)
<1>1. bound \in Nat /\ N \in Nat /\ DOMAIN SuiteRecords = 1 .. N
  BY SuiteAssumption
<1>2. \A e \in S : score[e] \in 0 .. bound /\ score[e] = Suites!Score(e)
  BY ScoreBounds
<1> HIDE DEF score, bound, N
<1> PICK tie : tie = suite.tie
  OBVIOUS
<1>3. /\ \A e \in S : tie[e] \in 1 .. N
      /\ \A e, f \in S : tie[e] = tie[f] => e = f
  BY <1>1 DEF Bijection, Injection, IsInjective
<1> DEFINE T == {bound - score[e] : e \in S}
<1>4. T \in SUBSET Nat /\ T # {}
  BY <1>1, <1>2
<1>5. PICK t \in T : \A k \in T : t <= k
  <2> HIDE DEF T
  <2> QED BY <1>4, LeastNatural
<1>6. PICK a \in S : t = bound - score[a]
  OBVIOUS
<1>7. ASSUME NEW f \in S
      PROVE  score[f] <= score[a]
  <2> PICK x, y : x = score[f] /\ y = score[a]
    OBVIOUS
  <2>1. bound - x \in T
    OBVIOUS
  <2>2. bound - y <= bound - x
    BY <1>5, <1>6, <2>1
  <2>3. x \in Int /\ y \in Int /\ bound \in Int
    BY <1>1, <1>2
  <2> QED BY <2>2, <2>3
<1> DEFINE U == {N - tie[e] : e \in {f \in S : score[f] = score[a]}}
<1>8. U \in SUBSET Nat /\ U # {}
  BY <1>1, <1>3
<1>9. PICK u \in U : \A k \in U : u <= k
  <2> HIDE DEF U
  <2> QED BY <1>8, LeastNatural
<1>10. PICK e \in S : score[e] = score[a] /\ u = N - tie[e]
  OBVIOUS
<1>11. ASSUME NEW f \in S \ {e}
       PROVE  score[e] > score[f] \/ (score[e] = score[f] /\ tie[e] > tie[f])
  <2>1. score[f] <= score[e] /\ score[f] \in Int /\ score[e] \in Int
    BY <1>2, <1>7, <1>10
  <2>2. CASE score[f] = score[e]
    <3>1. N - tie[e] <= N - tie[f]
      BY <1>9, <1>10, <2>2
    <3>2. tie[e] \in Int /\ tie[f] \in Int /\ tie[e] # tie[f] /\ N \in Int
      BY <1>1, <1>3
    <3> QED BY <2>2, <3>1, <3>2
  <2> QED BY <2>1, <2>2
<1>12. \A f \in S \ {e} : Suites!Better(e, f)
  BY <1>2, <1>11 DEF Suites!Better
<1> QED BY <1>12

\* Some candidates remain, and the next is one of them.
LEMMA NextChosen ==
  ASSUME SuiteChoice, suite.pc = "select", Len(suite.chosen) < suite.want.count,
         NEW e, e = CHOOSE x \in Suites!Remaining :
                      \A f \in Suites!Remaining \ {x} : Suites!Better(x, f)
  PROVE  e \in Suites!Candidates /\ \A k \in DOMAIN suite.chosen : suite.chosen[k] # e
<1> PICK chosen, S, n : /\ chosen = suite.chosen /\ S = Suites!Candidates /\ n = Len(chosen)
  OBVIOUS
<1>1. /\ chosen \in Seq(S) /\ suite.want.count \in 1 .. Cardinality(S)
      /\ suite.tie \in Bijection(DOMAIN SuiteRecords, DOMAIN SuiteRecords)
  BY DEF SuiteChoice
<1>2. n \in Nat /\ DOMAIN chosen = 1 .. n /\ chosen \in [1 .. n -> S]
  BY <1>1
<1> PICK R : R = {chosen[k] : k \in 1 .. n}
  OBVIOUS
<1>3. Suites!Remaining = S \ R
  <2>1. Suites!ToSet(suite.chosen) = R
    BY <1>2 DEF Suites!ToSet
  <2> QED BY <2>1 DEF Suites!Remaining
<1>4. IsFiniteSet(S)
  <2>1. S \in SUBSET DOMAIN SuiteRecords
    BY DEF Suites!Candidates
  <2>2. IsFiniteSet(DOMAIN SuiteRecords)
    BY SuiteAssumption, IntervalCounts
  <2> QED BY <2>1, <2>2, FS_Subset
<1>5. S \ R # {}
  <2> SUFFICES ASSUME S \in SUBSET R PROVE FALSE
    OBVIOUS
  <2>1. chosen \in Surjection(1 .. n, R)
    BY <1>2 DEF Surjection
  <2>2. IsFiniteSet(1 .. n) /\ Cardinality(1 .. n) = n
    BY <1>2, IntervalCounts
  <2>3. IsFiniteSet(R) /\ Cardinality(R) <= n
    BY <2>1, <2>2, FS_Surjection
  <2>4. Cardinality(S) <= Cardinality(R)
    BY <2>3, FS_Subset
  <2>5. Cardinality(R) \in Nat /\ Cardinality(S) \in Nat
    BY <1>4, <2>3, FS_CardinalityType
  <2> QED BY <1>1, <1>2, <2>3, <2>4, <2>5
<1>6. S \ R \in SUBSET DOMAIN SuiteRecords
  BY DEF Suites!Candidates
<1>7. \E x \in S \ R : \A f \in (S \ R) \ {x} : Suites!Better(x, f)
  <2> PICK D : D = S \ R
    OBVIOUS
  <2>1. suite.chosen \in Seq(S)
    BY <1>1
  <2>2. D \in SUBSET DOMAIN SuiteRecords /\ D # {}
    BY <1>5, <1>6
  <2>3. \E x \in D : \A f \in D \ {x} : Suites!Better(x, f)
    BY <1>1, <2>1, <2>2, BestEpisode
  <2> QED BY <2>3
<1>8. e \in S \ R
  BY <1>3, <1>7, Zenon
<1> QED BY <1>2, <1>8

\* A layout of the round, or of the next one, is used once more.
RoundStep(scenes, deck, n, full, l, next, rest) ==
  /\ n \in Nat /\ DOMAIN scenes = 1 .. n /\ Rounds(scenes, deck)
  /\ (deck = {} /\ full = 0 .. NumLayouts - 1) \/ (deck # {} /\ full = deck)
  /\ l \in full /\ rest = full \ {l}
  /\ DOMAIN next = 1 .. n + 1 /\ next[n + 1].layout = l
  /\ \A k \in 1 .. n : next[k] = scenes[k]

LEMMA RoundGoesOn ==
  ASSUME NEW scenes, NEW deck, NEW n, NEW full, NEW l, NEW next, NEW rest,
         RoundStep(scenes, deck, n, full, l, next, rest)
  PROVE  Rounds(next, rest)
<1> USE DEF RoundStep
<1> DEFINE layouts == 0 .. NumLayouts - 1
<1>1. deck \subseteq layouts /\ full \subseteq layouts
  BY DEF Rounds
<1>2. PICK c \in Int : \A x \in layouts : Uses(scenes, x) = IF x \in deck THEN c ELSE c + 1
  BY DEF Rounds
<1>3. ASSUME NEW x \in layouts
      PROVE  Uses(next, x) = IF x = l THEN Uses(scenes, x) + 1 ELSE Uses(scenes, x)
  <2> DEFINE K == {k \in 1 .. n : scenes[k].layout = x}
  <2>1. Uses(scenes, x) = Cardinality(K)
    BY DEF Uses
  <2>2. n + 1 \notin K /\ IsFiniteSet(K)
    <3>1. IsFiniteSet(1 .. n) /\ K \in SUBSET (1 .. n)
      BY IntervalCounts
    <3>2. n + 1 \notin K
      OBVIOUS
    <3> HIDE DEF K
    <3>3. IsFiniteSet(K)
      BY <3>1, FS_Subset
    <3> QED BY <3>2, <3>3
  <2>3. {k \in DOMAIN next : next[k].layout = x} = IF x = l THEN K \cup {n + 1} ELSE K
    OBVIOUS
  <2>4. Uses(next, x) = Cardinality(IF x = l THEN K \cup {n + 1} ELSE K)
    BY <2>3, Zenon DEF Uses
  <2> HIDE DEF K
  <2> QED BY <2>1, <2>2, <2>4, FS_AddElement
<1>4. PICK d \in Int : \A x \in layouts : Uses(scenes, x) = IF x \in full THEN d ELSE d + 1
  <2>1. CASE deck = {}
    <3> PICK d \in Int : d = c + 1
      OBVIOUS
    <3>1. full = layouts
      BY <2>1
    <3>2. \A x \in layouts : Uses(scenes, x) = IF x \in full THEN d ELSE d + 1
      BY <1>2, <2>1, <3>1
    <3> QED BY <3>2
  <2>2. CASE deck # {}
    BY <1>2, <2>2
  <2> QED BY <2>1, <2>2
<1>5. \A x \in layouts : Uses(next, x) = IF x \in full \ {l} THEN d ELSE d + 1
  BY <1>3, <1>4
<1> QED BY <1>1, <1>5 DEF Rounds

\* The parts of a suite's state after a step.
LEMMA SuiteKept ==
  /\ suite'.want = suite.want => Suites!Candidates' = Suites!Candidates
  /\ suite'.chosen = suite.chosen => Suites!Places' = Suites!Places
  /\ suite'.chosen = suite.chosen /\ suite'.sides = suite.sides
       => \A k : Suites!SideOf(k)' = Suites!SideOf(k)
<1>1. suite'.want = suite.want => Suites!Candidates' = Suites!Candidates
  BY DEF Suites!Candidates
<1>2. suite'.chosen = suite.chosen => Suites!Places' = Suites!Places
  BY DEF Suites!Places, Suites!IsPlace
<1>3. suite'.chosen = suite.chosen /\ suite'.sides = suite.sides
        => \A k : Suites!SideOf(k)' = Suites!SideOf(k)
  BY <1>2, Zenon DEF Suites!SideOf
<1> QED BY <1>1, <1>2, <1>3

LEMMA LoadEpisodesSuite ==
  ASSUME SuiteGood, Suites!LoadEpisodes
  PROVE  SuiteGood'
<1>1. /\ suite.pc = "load" /\ SuiteFields(suite) /\ SuiteChoice /\ SuiteScenes
      /\ suite' = [suite EXCEPT !.pc =
           IF suite.want.count \in 1 .. Suites!Cardinality(Suites!Candidates)
             THEN "select" ELSE "raised"]
  BY DEF Suites!LoadEpisodes, SuiteGood
<1> PICK C, n : C = Suites!Candidates /\ n = Cardinality(C)
  OBVIOUS
<1>2. Suites!Cardinality(Suites!Candidates) = n
  BY SuiteLibrary
<1>3. /\ suite'.pc = IF suite.want.count \in 1 .. n THEN "select" ELSE "raised"
      /\ suite'.want = suite.want /\ suite'.tie = suite.tie /\ suite'.chosen = suite.chosen
      /\ suite'.deck = suite.deck /\ suite'.sides = suite.sides /\ suite'.scenes = suite.scenes
      /\ SuiteFields(suite')
  BY <1>1, <1>2 DEF SuiteFields
<1>4. Suites!Candidates' = C
  BY <1>3, SuiteKept
<1>5. suite'.pc \in {"select", "raised"} /\ ~ Dealt' /\ ~ Dealt
  BY <1>1, <1>3 DEF Dealt
<1>6. SuiteChoice'
  BY <1>1, <1>3, <1>4, <1>5 DEF SuiteChoice
<1>7. SuiteScenes'
  <2>1. suite'.scenes = << >> /\ Rounds(suite.scenes, suite.deck)'
    <3>1. suite.scenes = << >> /\ Rounds(suite.scenes, suite.deck)
      BY <1>1, <1>5, Zenon DEF SuiteScenes
    <3>2. suite'.scenes = suite.scenes /\ suite'.deck = suite.deck
      BY <1>3
    <3> QED BY <3>1, <3>2 DEF Rounds, Uses
  <2> QED BY <1>1, <1>3, <1>5, <2>1 DEF SuiteScenes
<1> QED BY <1>3, <1>6, <1>7 DEF SuiteGood

LEMMA SelectDiverseSuite ==
  ASSUME SuiteGood, Suites!SelectDiverse
  PROVE  SuiteGood'
<1> PICK e : e = CHOOSE x \in Suites!Remaining :
                   \A f \in Suites!Remaining \ {x} : Suites!Better(x, f)
  OBVIOUS
<1>1. /\ suite.pc = "select" /\ SuiteFields(suite) /\ SuiteChoice /\ SuiteScenes
      /\ Len(suite.chosen) < suite.want.count
      /\ suite' = [suite EXCEPT !.chosen = Append(suite.chosen, e)]
  BY DEF Suites!SelectDiverse, SuiteGood
<1>2. /\ suite'.chosen = Append(suite.chosen, e)
      /\ suite'.want = suite.want /\ suite'.tie = suite.tie /\ suite'.pc = suite.pc
      /\ suite'.deck = suite.deck /\ suite'.sides = suite.sides /\ suite'.scenes = suite.scenes
      /\ SuiteFields(suite')
  BY <1>1 DEF SuiteFields
<1>3. e \in Suites!Candidates /\ \A k \in DOMAIN suite.chosen : suite.chosen[k] # e
  BY <1>1, NextChosen
<1> PICK C, s, t : C = Suites!Candidates /\ s = suite.chosen /\ t = suite'.chosen
  OBVIOUS
<1>4. Suites!Candidates' = C
  BY <1>2, SuiteKept
<1>5. ~ Dealt' /\ ~ Dealt
  BY <1>1, <1>2 DEF Dealt
<1>6. t \in Seq(C) /\ IsInjective(t)
  <2>1. s \in Seq(C) /\ IsInjective(s) /\ t = Append(s, e) /\ e \in C
    BY <1>1, <1>2, <1>3 DEF SuiteChoice
  <2>2. \A k \in DOMAIN s : s[k] # e
    BY <1>3
  <2>3. t \in Seq(C)
    BY <2>1
  <2>4. /\ Len(s) \in Nat /\ DOMAIN s = 1 .. Len(s) /\ DOMAIN t = 1 .. Len(s) + 1
        /\ t[Len(s) + 1] = e /\ \A k \in 1 .. Len(s) : t[k] = s[k]
    BY <2>1
  <2>5. \A k, l \in DOMAIN t : t[k] = t[l] => k = l
    <3> SUFFICES ASSUME NEW k \in DOMAIN t, NEW l \in DOMAIN t, t[k] = t[l] PROVE k = l
      OBVIOUS
    <3>1. (k \in DOMAIN s \/ k = Len(s) + 1) /\ (l \in DOMAIN s \/ l = Len(s) + 1)
      BY <2>4
    <3> QED BY <2>1, <2>2, <2>4, <3>1 DEF IsInjective
  <2> QED BY <2>3, <2>5 DEF IsInjective
<1>7. SuiteChoice'
  BY <1>1, <1>2, <1>4, <1>5, <1>6 DEF SuiteChoice
<1>8. SuiteScenes'
  <2>1. suite'.scenes = << >> /\ Rounds(suite.scenes, suite.deck)'
    <3>1. suite.scenes = << >> /\ Rounds(suite.scenes, suite.deck)
      BY <1>1, <1>5, Zenon DEF SuiteScenes
    <3>2. suite'.scenes = suite.scenes /\ suite'.deck = suite.deck
      BY <1>2
    <3> QED BY <3>1, <3>2 DEF Rounds, Uses
  <2> QED BY <1>1, <1>2, <1>5, <2>1 DEF SuiteScenes
<1> QED BY <1>2, <1>7, <1>8 DEF SuiteGood

LEMMA DealSidesSuite ==
  ASSUME SuiteGood, Suites!DealSides
  PROVE  SuiteGood'
<1>a. \E m : /\ m = Suites!Cardinality(Suites!Places)
             /\ \/ \E p \in Suites!Bijection(1 .. m, 1 .. m) :
                     suite' = [suite EXCEPT !.pc = "scenes",
                                 !.sides = [k \in 1 .. m |-> Suites!Alternating(m)[p[k]]]]
                \/ suite' = [suite EXCEPT !.pc = "replay"]
  BY Zenon DEF Suites!DealSides
<1>b. PICK n : /\ n = Suites!Cardinality(Suites!Places)
               /\ \/ \E p \in Suites!Bijection(1 .. n, 1 .. n) :
                       suite' = [suite EXCEPT !.pc = "scenes",
                                   !.sides = [k \in 1 .. n |-> Suites!Alternating(n)[p[k]]]]
                  \/ suite' = [suite EXCEPT !.pc = "replay"]
  BY <1>a
<1>0. n = Cardinality(Suites!Places)
  BY <1>b, SuiteLibrary
<1>1. /\ suite.pc = "select" /\ SuiteFields(suite) /\ SuiteChoice /\ SuiteScenes
      /\ Len(suite.chosen) = suite.want.count
      /\ \/ \E p \in Suites!Bijection(1 .. n, 1 .. n) :
              suite' = [suite EXCEPT !.pc = "scenes",
                          !.sides = [k \in 1 .. n |-> Suites!Alternating(n)[p[k]]]]
         \/ suite' = [suite EXCEPT !.pc = "replay"]
  <2>3. suite.pc = "select" /\ Len(suite.chosen) = suite.want.count
    BY Zenon DEF Suites!DealSides
  <2>4. SuiteFields(suite) /\ SuiteChoice /\ SuiteScenes
    BY Zenon DEF SuiteGood
  <2> QED BY <1>b, <2>3, <2>4, Zenon
<1>2. /\ suite'.chosen = suite.chosen /\ suite'.want = suite.want /\ suite'.tie = suite.tie
      /\ suite'.deck = suite.deck /\ suite'.scenes = suite.scenes
      /\ SuiteFields(suite')
      /\ \/ suite'.pc = "replay"
         \/ /\ suite'.pc = "scenes"
            /\ \E p \in Suites!Bijection(1 .. n, 1 .. n) :
                 suite'.sides = [k \in 1 .. n |-> Suites!Alternating(n)[p[k]]]
  <2>1. CASE suite' = [suite EXCEPT !.pc = "replay"]
    BY <1>1, <2>1 DEF SuiteFields
  <2>2. CASE \E p \in Suites!Bijection(1 .. n, 1 .. n) :
               suite' = [suite EXCEPT !.pc = "scenes",
                          !.sides = [k \in 1 .. n |-> Suites!Alternating(n)[p[k]]]]
    <3> PICK p \in Suites!Bijection(1 .. n, 1 .. n) :
               suite' = [suite EXCEPT !.pc = "scenes",
                          !.sides = [k \in 1 .. n |-> Suites!Alternating(n)[p[k]]]]
      BY <2>2
    <3> PICK v : v = [k \in 1 .. n |-> Suites!Alternating(n)[p[k]]]
      OBVIOUS
    <3>1. suite' = [suite EXCEPT !.pc = "scenes", !.sides = v]
      OBVIOUS
    <3>2. suite'.pc = "scenes" /\ suite'.sides = v
      BY <1>1, <3>1 DEF SuiteFields
    <3>3. /\ suite'.chosen = suite.chosen /\ suite'.want = suite.want /\ suite'.tie = suite.tie
          /\ suite'.deck = suite.deck /\ suite'.scenes = suite.scenes
          /\ SuiteFields(suite')
      BY <1>1, <3>1 DEF SuiteFields
    <3> QED BY <3>2, <3>3
  <2> QED BY <1>1, <2>1, <2>2
<1>3. Suites!Candidates' = Suites!Candidates /\ Suites!Places' = Suites!Places
  BY <1>2, SuiteKept
<1>4. suite.scenes = << >> /\ suite'.scenes = << >> /\ Rounds(suite.scenes, suite.deck)'
  <2>1. ~ Dealt
    BY <1>1 DEF Dealt
  <2>2. suite.scenes = << >> /\ Rounds(suite.scenes, suite.deck)
    BY <1>1, <2>1, Zenon DEF SuiteScenes
  <2>3. Rounds(suite.scenes, suite.deck)'
    <3>1. suite'.scenes = suite.scenes /\ suite'.deck = suite.deck
      BY <1>2
    <3> QED BY <2>2, <3>1 DEF Rounds, Uses
  <2> QED BY <1>2, <2>2, <2>3
<1>5. SuiteChoice'
  BY <1>1, <1>2, <1>3 DEF SuiteChoice, Dealt
<1>6. suite'.pc = "scenes" => SidesOf(Cardinality(Suites!Places), suite.sides)'
  <2> SUFFICES ASSUME suite'.pc = "scenes" PROVE SidesOf(n, suite.sides)'
    BY <1>0, <1>3
  <2> PICK p \in Suites!Bijection(1 .. n, 1 .. n) :
             suite'.sides = [k \in 1 .. n |-> Suites!Alternating(n)[p[k]]]
    BY <1>2
  <2>0. p \in Bijection(1 .. n, 1 .. n)
    BY SuiteLibrary, Zenon
  <2>1. \A k \in 1 .. n : p[k] \in 1 .. n
    BY <2>0 DEF Bijection, Injection
  <2>2. \A k \in 1 .. n : Suites!Alternating(n)[p[k]] = IF p[k] % 2 = 1 THEN "left" ELSE "right"
    BY <2>1 DEF Suites!Alternating
  <2>3. suite'.sides = [k \in 1 .. n |-> IF p[k] % 2 = 1 THEN "left" ELSE "right"]
    BY <2>2
  <2> QED BY <2>0, <2>3 DEF SidesOf
<1>7. SuiteScenes'
  <2>1. Len(suite'.chosen) \in Nat
    <3>1. suite.chosen \in Seq(Suites!Candidates)
      BY <1>1, Zenon DEF SuiteChoice
    <3>2. suite'.chosen \in Seq(Suites!Candidates)
      BY <1>2, <3>1
    <3> QED BY <3>2
  <2>2. suite'.pc # "listed" /\ (Dealt' => suite'.pc = "scenes")
    BY <1>2 DEF Dealt
  <2>3. suite'.scenes \in Seq([layout : 0 .. NumLayouts - 1, arm : {"left", "right", "both"},
                           slot : 0 .. 3])
    BY <1>1, <1>2 DEF SuiteScenes
  <2>4. Len(suite'.scenes) <= Len(suite'.chosen) /\ DOMAIN suite'.scenes = {}
    BY <1>4, <2>1
  <2>5. \A k \in DOMAIN suite'.scenes : SceneFits(k, suite.scenes[k])'
    BY <2>4
  <2> QED BY <1>4, <1>6, <2>2, <2>3, <2>4, <2>5 DEF SuiteScenes
<1> QED BY <1>2, <1>5, <1>7 DEF SuiteGood

LEMMA RandomizeSceneSuite ==
  ASSUME SuiteGood, Suites!RandomizeScene
  PROVE  SuiteGood'
<1> PICK n : n = Len(suite.scenes)
  OBVIOUS
<1> PICK full : full = IF suite.deck = {} THEN 0 .. NumLayouts - 1 ELSE suite.deck
  OBVIOUS
<1> PICK side : side = IF Suites!IsPlace(suite.chosen[n + 1]) THEN Suites!SideOf(n + 1) ELSE "both"
  OBVIOUS
<1>1. /\ suite.pc = "scenes" /\ SuiteFields(suite) /\ SuiteChoice /\ SuiteScenes
      /\ n < suite.want.count
  BY Zenon DEF Suites!RandomizeScene, SuiteGood
<1>2. \E l \in full, slot \in IF side = "both" THEN 0 .. 3 ELSE Suites!SlotsOf(side) :
        suite' = [suite EXCEPT !.deck = full \ {l},
                    !.scenes = Append(@, [layout |-> l, arm |-> side, slot |-> slot])]
  BY Zenon DEF Suites!RandomizeScene
<1> PICK l \in full, slot \in IF side = "both" THEN 0 .. 3 ELSE Suites!SlotsOf(side) :
        suite' = [suite EXCEPT !.deck = full \ {l},
                    !.scenes = Append(@, [layout |-> l, arm |-> side, slot |-> slot])]
  BY <1>2
<1> PICK row : row = [layout |-> l, arm |-> side, slot |-> slot]
  OBVIOUS
<1> PICK rest : rest = full \ {l}
  OBVIOUS
<1>3. suite' = [suite EXCEPT !.deck = rest, !.scenes = Append(suite.scenes, row)]
  OBVIOUS
<1>4. suite'.deck = rest /\ suite'.scenes = Append(suite.scenes, row)
  BY <1>1, <1>3 DEF SuiteFields
<1>5. /\ suite'.chosen = suite.chosen /\ suite'.want = suite.want /\ suite'.tie = suite.tie
      /\ suite'.pc = suite.pc /\ suite'.sides = suite.sides
      /\ SuiteFields(suite')
  BY <1>1, <1>3 DEF SuiteFields
<1>6. /\ Suites!Candidates' = Suites!Candidates /\ Suites!Places' = Suites!Places
      /\ \A k : Suites!SideOf(k)' = Suites!SideOf(k)
  BY <1>5, SuiteKept
<1>7. Dealt /\ Dealt'
  BY <1>1, <1>5 DEF Dealt
<1>8. SuiteChoice'
  BY <1>1, <1>5, <1>6, <1>7 DEF SuiteChoice
<1> DEFINE Scene == [layout : 0 .. NumLayouts - 1, arm : {"left", "right", "both"}, slot : 0 .. 3]
<1>9. /\ suite.scenes \in Seq(Scene) /\ Rounds(suite.scenes, suite.deck)
      /\ SidesOf(Cardinality(Suites!Places), suite.sides)
      /\ \A k \in DOMAIN suite.scenes : SceneFits(k, suite.scenes[k])
      /\ Len(suite.chosen) = suite.want.count /\ suite.want.count \in Int
      /\ suite.chosen \in Seq(Suites!Candidates)
  BY <1>1, <1>7 DEF SuiteScenes, SuiteChoice
<1> PICK scenes, next : scenes = suite.scenes /\ next = suite'.scenes
  OBVIOUS
<1>10. ASSUME Suites!IsPlace(suite.chosen[n + 1])
       PROVE  side \in {"left", "right"}
  <2> PICK m : m = Len(suite.chosen)
    OBVIOUS
  <2>1. m \in Nat /\ DOMAIN suite.chosen = 1 .. m /\ n \in Nat /\ n < m
    BY <1>1, <1>9
  <2>2. Suites!Places \in SUBSET (1 .. m)
    BY <2>1 DEF Suites!Places
  <2>3. n + 1 \in Suites!Places
    BY <1>10, <2>1 DEF Suites!Places
  <2>4. suite.sides[Cardinality(Suites!Places \cap 1 .. (n + 1))] \in {"left", "right"}
    BY <1>9, <2>1, <2>2, <2>3, SidesEven
  <2>5. side = suite.sides[Cardinality(Suites!Places \cap 1 .. (n + 1))]
    BY <1>10, SuiteLibrary, Zenon DEF Suites!SideOf
  <2> QED BY <2>4, <2>5
<1>11. side \in {"left", "right", "both"}
  BY <1>10
<1>12. row \in Scene
  <2>1. l \in 0 .. NumLayouts - 1
    BY <1>9 DEF Rounds
  <2>2. slot \in 0 .. 3
    BY <1>11 DEF Suites!SlotsOf
  <2> QED BY <1>11, <2>1, <2>2
<1>13. /\ n \in Nat /\ DOMAIN scenes = 1 .. n /\ DOMAIN next = 1 .. n + 1
       /\ next[n + 1] = row /\ \A k \in 1 .. n : next[k] = scenes[k]
       /\ next \in Seq(Scene) /\ Len(next) = n + 1
  <2> HIDE DEF Scene
  <2> QED BY <1>4, <1>9, <1>12
<1>14. Rounds(next, rest)
  <2>1. Rounds(scenes, suite.deck) /\ next[n + 1].layout = l
    BY <1>9, <1>13
  <2> PICK deck : deck = suite.deck
    OBVIOUS
  <2>2. /\ Rounds(scenes, deck) /\ l \in full /\ n \in Nat
        /\ (deck = {} /\ full = 0 .. NumLayouts - 1) \/ (deck # {} /\ full = deck)
    BY <1>13, <2>1
  <2>3. Rounds(next, rest)
    <3>1. RoundStep(scenes, deck, n, full, l, next, rest)
      BY <1>13, <2>1, <2>2 DEF RoundStep
    <3> QED BY <3>1, RoundGoesOn
  <2> QED BY <2>3
<1>15. ASSUME NEW k \in DOMAIN next
       PROVE  SceneFits(k, suite.scenes[k])'
  <2>1. Suites!IsPlace(suite.chosen[k])' <=> Suites!IsPlace(suite.chosen[k])
    BY <1>5 DEF Suites!IsPlace
  <2>2. CASE k \in 1 .. n
    <3>1. SceneFits(k, scenes[k]) /\ next[k] = scenes[k]
      BY <1>9, <1>13, <2>2
    <3> QED BY <1>6, <2>1, <3>1, Zenon DEF SceneFits, Suites!SlotsOf
  <2>3. CASE k = n + 1
    <3>1. next[k].arm = side /\ next[k].slot = slot
      BY <1>13, <2>3
    <3>2. Suites!IsPlace(suite.chosen[k]) => slot \in Suites!SlotsOf(side)
      BY <1>10, <2>3
    <3>3. side = IF Suites!IsPlace(suite.chosen[k]) THEN Suites!SideOf(k) ELSE "both"
      BY <2>3
    <3> QED BY <1>6, <2>1, <3>1, <3>2, <3>3, Zenon DEF SceneFits, Suites!SlotsOf
  <2> QED BY <1>13, <2>2, <2>3
<1>16. SuiteScenes'
  <2>1. SidesOf(Cardinality(Suites!Places), suite.sides)'
    BY <1>5, <1>6, <1>9 DEF SidesOf
  <2>2. Len(next) <= Len(suite'.chosen)
    BY <1>1, <1>5, <1>9, <1>13
  <2>3. suite'.pc # "listed"
    BY <1>1, <1>5
  <2>4. Rounds(suite.scenes, suite.deck)'
    BY <1>4, <1>14 DEF Rounds, Uses
  <2>5. next \in Seq(Scene)
    BY <1>13
  <2> QED BY <1>7, <1>15, <2>1, <2>2, <2>3, <2>4, <2>5 DEF SuiteScenes
<1> QED BY <1>5, <1>8, <1>16 DEF SuiteGood

LEMMA EndOfSuiteSuite ==
  ASSUME SuiteGood, Suites!EndOfSuite
  PROVE  SuiteGood'
<1>1. /\ suite.pc = "scenes" /\ SuiteFields(suite) /\ SuiteChoice /\ SuiteScenes
      /\ Len(suite.scenes) = suite.want.count
      /\ suite' = [suite EXCEPT !.pc = "listed"]
  BY DEF Suites!EndOfSuite, SuiteGood
<1>2. /\ suite'.pc = "listed" /\ suite'.scenes = suite.scenes /\ suite'.deck = suite.deck
      /\ suite'.chosen = suite.chosen /\ suite'.want = suite.want /\ suite'.tie = suite.tie
      /\ suite'.sides = suite.sides
      /\ SuiteFields(suite')
  BY <1>1 DEF SuiteFields
<1>3. /\ Suites!Candidates' = Suites!Candidates /\ Suites!Places' = Suites!Places
      /\ \A k : Suites!SideOf(k)' = Suites!SideOf(k)
  BY <1>2, SuiteKept
<1>4. Dealt /\ Dealt'
  BY <1>1, <1>2 DEF Dealt
<1>5. SuiteChoice'
  BY <1>1, <1>2, <1>3, <1>4 DEF SuiteChoice
<1>6. SuiteScenes'
  <2>1. SidesOf(Cardinality(Suites!Places), suite.sides)'
    BY <1>1, <1>2, <1>3, <1>4 DEF SuiteScenes, SidesOf
  <2>2. Rounds(suite.scenes, suite.deck)'
    BY <1>1, <1>2 DEF SuiteScenes, Rounds, Uses
  <2>3. ASSUME NEW k \in DOMAIN suite'.scenes
        PROVE  SceneFits(k, suite.scenes[k])'
    <3>1. SceneFits(k, suite.scenes[k])
      BY <1>1, <1>2, <1>4 DEF SuiteScenes
    <3>2. Suites!IsPlace(suite.chosen[k])' <=> Suites!IsPlace(suite.chosen[k])
      BY <1>2 DEF Suites!IsPlace
    <3> QED BY <1>2, <1>3, <3>1, <3>2, Zenon DEF SceneFits, Suites!SlotsOf
  <2> QED BY <1>1, <1>2, <1>4, <2>1, <2>2, <2>3 DEF SuiteScenes
<1> QED BY <1>2, <1>5, <1>6 DEF SuiteGood

LEMMA SuiteInits ==
  ASSUME Suites!SuiteInit
  PROVE  SuiteGood
<1>1. PICK want \in Wanted, tie \in Bijection(DOMAIN SuiteRecords, DOMAIN SuiteRecords) :
        suite = [pc |-> "load", want |-> want, tie |-> tie, chosen |-> << >>,
                 deck |-> {}, sides |-> << >>, scenes |-> << >>]
  BY SuiteLibrary, Zenon DEF Suites!SuiteInit
<1>2. SuiteFields(suite)
  BY <1>1 DEF SuiteFields
<1>3. ~ Dealt
  BY <1>1 DEF Dealt
<1>4. SuiteChoice
  <2>1. << >> \in Seq(Suites!Candidates) /\ IsInjective(<< >>)
    BY DEF IsInjective
  <2> QED BY <1>1, <1>3, <2>1 DEF SuiteChoice
<1>5. Rounds(suite.scenes, suite.deck)
  <2>1. suite.scenes = << >> /\ suite.deck = {} /\ DOMAIN << >> = {}
    BY <1>1
  <2>2. \A l : Uses(<< >>, l) = Cardinality({})
    BY <2>1, Zenon DEF Uses
  <2>3. Cardinality({}) = 0
    BY FS_EmptySet
  <2>4. \A l : Uses(<< >>, l) = (0 - 1) + 1
    BY <2>2, <2>3
  <2>5. 0 - 1 \in Int
    OBVIOUS
  <2>6. \E c \in Int : \A l \in 0 .. NumLayouts - 1 :
          Uses(suite.scenes, l) = IF l \in suite.deck THEN c ELSE c + 1
    BY <2>1, <2>4, <2>5
  <2> QED BY <2>1, <2>6 DEF Rounds
<1>6. SuiteScenes
  BY <1>1, <1>3, <1>5 DEF SuiteScenes
<1> QED BY <1>2, <1>4, <1>6 DEF SuiteGood

LEMMA SuiteSteps ==
  ASSUME SuiteGood, Suites!SuiteNext \/ UNCHANGED suite
  PROVE  SuiteGood'
<1>1. CASE UNCHANGED suite
  <2>1. suite' = suite
    BY <1>1
  <2>2. /\ Suites!Candidates' = Suites!Candidates /\ Suites!Places' = Suites!Places
        /\ \A k : Suites!SideOf(k)' = Suites!SideOf(k)
    BY <2>1, SuiteKept
  <2>3. SuiteFields(suite)' /\ (Dealt' <=> Dealt)
    BY <2>1 DEF SuiteGood, SuiteFields, Dealt
  <2>4. SuiteChoice'
    BY <2>1, <2>2, <2>3 DEF SuiteGood, SuiteChoice
  <2>5. SidesOf(Cardinality(Suites!Places), suite.sides)'
          <=> SidesOf(Cardinality(Suites!Places), suite.sides)
    BY <2>1, <2>2 DEF SidesOf
  <2>6. Rounds(suite.scenes, suite.deck)' <=> Rounds(suite.scenes, suite.deck)
    BY <2>1 DEF Rounds, Uses
  <2>7. \A k : SceneFits(k, suite.scenes[k])' <=> SceneFits(k, suite.scenes[k])
    BY <2>1, <2>2, Zenon DEF SceneFits, Suites!IsPlace, Suites!SlotsOf
  <2>8. SuiteScenes'
    BY <2>1, <2>3, <2>5, <2>6, <2>7 DEF SuiteGood, SuiteScenes
  <2> QED BY <2>3, <2>4, <2>8 DEF SuiteGood
<1>2. CASE Suites!SuiteNext
  BY <1>1, <1>2, LoadEpisodesSuite, SelectDiverseSuite, DealSidesSuite, RandomizeSceneSuite,
     EndOfSuiteSuite DEF Suites!SuiteNext, Suites!SuiteDone
<1> QED BY <1>1, <1>2

LEMMA GoodSuites ==
  ASSUME SuiteGood
  PROVE  Suites!SuiteBalanced
<1> PICK scenes, chosen : scenes = suite.scenes /\ chosen = suite.chosen
  OBVIOUS
<1> PICK n : n = Len(scenes)
  OBVIOUS
<1> DEFINE Scene == [layout : 0 .. NumLayouts - 1, arm : {"left", "right", "both"}, slot : 0 .. 3]
<1>1. /\ scenes \in Seq(Scene) /\ Rounds(scenes, suite.deck)
      /\ chosen \in Seq(Suites!Candidates) /\ IsInjective(chosen)
  BY DEF SuiteGood, SuiteChoice, SuiteScenes
<1>2. n \in Nat /\ DOMAIN scenes = 1 .. n
  <2> HIDE DEF Scene
  <2> QED BY <1>1
<1>3. \A k \in DOMAIN scenes : SceneFits(k, scenes[k])
  <2>1. CASE Dealt
    BY <2>1 DEF SuiteGood, SuiteScenes
  <2>2. CASE ~ Dealt
    BY <2>2 DEF SuiteGood, SuiteScenes
  <2> QED BY <2>1, <2>2
<1>4. \A k \in DOMAIN suite.scenes :
        Suites!IsPlace(suite.chosen[k])
          => suite.scenes[k].slot \in Suites!SlotsOf(suite.scenes[k].arm)
  BY <1>3, Zenon DEF SceneFits
<1>5. \A l, m \in 0 .. NumLayouts - 1 : Uses(scenes, l) - Uses(scenes, m) <= 1
  BY <1>1 DEF Rounds
<1>6. ASSUME suite.pc = "listed"
      PROVE  Cardinality({k \in DOMAIN scenes : scenes[k].arm = "left"})
               - Cardinality({k \in DOMAIN scenes : scenes[k].arm = "right"}) \in {0, 1}
  <2> PICK P, sides : P = Suites!Places /\ sides = suite.sides
    OBVIOUS
  <2>1. SidesOf(Cardinality(P), sides) /\ Len(chosen) = n
    BY <1>6 DEF SuiteGood, SuiteChoice, SuiteScenes, Dealt
  <2>2. DOMAIN chosen = 1 .. n
    BY <1>1, <2>1
  <2>3. P = {k \in 1 .. n : Suites!IsPlace(chosen[k])}
    BY <2>2 DEF Suites!Places
  <2>4. \A k : Suites!SideOf(k) = sides[Cardinality(P \cap 1 .. k)]
    BY SuiteLibrary, Zenon DEF Suites!SideOf
  <2>5. \A k \in 1 .. n : scenes[k].arm = IF k \in P THEN sides[Cardinality(P \cap 1 .. k)] ELSE "both"
    <3> SUFFICES ASSUME NEW k \in 1 .. n
                 PROVE  scenes[k].arm = IF k \in P THEN sides[Cardinality(P \cap 1 .. k)] ELSE "both"
      OBVIOUS
    <3>1. scenes[k].arm = IF Suites!IsPlace(chosen[k]) THEN Suites!SideOf(k) ELSE "both"
      BY <1>2, <1>3 DEF SceneFits
    <3>2. Suites!IsPlace(chosen[k]) <=> k \in P
      BY <2>3
    <3> QED BY <2>4, <3>1, <3>2
  <2>6. ASSUME NEW arm \in {"left", "right"}
        PROVE  {k \in DOMAIN scenes : scenes[k].arm = arm}
                 = DealtTo(P, sides, arm)
    BY <1>2, <2>3, <2>5 DEF DealtTo
  <2>7. P \in SUBSET (1 .. n)
    BY <2>3
  <2>8. Cardinality(DealtTo(P, sides, "left")) - Cardinality(DealtTo(P, sides, "right")) \in {0, 1}
    <3>1. n \in Nat /\ SidesOf(Cardinality(P), sides)
      BY <1>2, <2>1
    <3> QED BY <2>7, <3>1, SidesEven, Zenon
  <2> QED BY <2>6, <2>8, Zenon
<1>7. \A l : Suites!Cardinality({k \in DOMAIN suite.scenes : suite.scenes[k].layout = l})
               = Uses(scenes, l)
  BY SuiteLibrary, Zenon DEF Uses
<1>8. \A a : Suites!Cardinality({k \in DOMAIN suite.scenes : suite.scenes[k].arm = a})
               = Cardinality({k \in DOMAIN scenes : scenes[k].arm = a})
  BY SuiteLibrary, Zenon
<1>9. Suites!IsInjective(suite.chosen)
  BY <1>1, SuiteLibrary
<1>10. \A l, m \in 0 .. NumLayouts - 1 :
         Suites!Cardinality({k \in DOMAIN suite.scenes : suite.scenes[k].layout = l})
           - Suites!Cardinality({k \in DOMAIN suite.scenes : suite.scenes[k].layout = m}) <= 1
  BY <1>5, <1>7, Zenon
<1>11. suite.pc = "listed" =>
         Suites!Cardinality({k \in DOMAIN suite.scenes : suite.scenes[k].arm = "left"})
           - Suites!Cardinality({k \in DOMAIN suite.scenes : suite.scenes[k].arm = "right"})
             \in {-1, 0, 1}
  <2> SUFFICES ASSUME suite.pc = "listed"
               PROVE  Cardinality({k \in DOMAIN scenes : scenes[k].arm = "left"})
                        - Cardinality({k \in DOMAIN scenes : scenes[k].arm = "right"})
                          \in {-1, 0, 1}
    BY <1>8, Zenon
  <2> PICK d : d = Cardinality({k \in DOMAIN scenes : scenes[k].arm = "left"})
                    - Cardinality({k \in DOMAIN scenes : scenes[k].arm = "right"})
    OBVIOUS
  <2>1. d \in {0, 1}
    BY <1>6
  <2>2. d \in {-1, 0, 1}
    BY <2>1
  <2> QED BY <2>2
<1> QED BY <1>4, <1>9, <1>10, <1>11, Zenon DEF Suites!SuiteBalanced

(***************************************************************************)
(* A suite of trials repeats no episode, puts every target where the arm   *)
(* asked for can reach it and uses the arms and the layouts evenly,        *)
(* whatever episodes there are, however many are asked for and whatever    *)
(* the generator draws.                                                    *)
(***************************************************************************)
THEOREM SuitesAreBalanced == ToolSpec => []SuitesHold
<1>1. ToolInit => SuiteInv
  BY SuiteInits DEF ToolInit, SuiteInv
<1>2. SuiteInv /\ [ToolNext]_toolVars => SuiteInv'
  <2> SUFFICES ASSUME SuiteInv, [ToolNext]_toolVars, tool' = "suite" PROVE SuiteGood'
    BY DEF SuiteInv
  <2>1. tool = "suite"
    BY DEF ToolNext, toolVars
  <2>2. Suites!SuiteNext \/ UNCHANGED suite
    BY <2>1 DEF ToolNext, toolVars
  <2> QED BY <2>1, <2>2, SuiteSteps DEF SuiteInv
<1>3. SuiteInv => SuitesHold
  BY GoodSuites DEF SuiteInv, SuitesHold
<1> QED BY <1>1, <1>2, <1>3, PTL DEF ToolSpec

(***************************************************************************)
(* Scenes can be worked in, those a rollout lays out for its episode and   *)
(* those an experiment lists for its trials.                               *)
(***************************************************************************)
THEOREM AllScenesHold == ToolSpec => []ScenesHold
BY ScenesCanBeWorkedIn, SuitesAreBalanced, PTL DEF ScenesHold
=============================================================================
