----------------------------- MODULE LedgerProofs -----------------------------
(***************************************************************************)
(* What the files of a collection say of each other, as long as no task    *)
(* process dies inside a save: each plan is collected once, metadata and   *)
(* manifest agree with the dataset, a resume is refused only over one      *)
(* episode that a crash left unrecorded, the split ranges are true, and    *)
(* the collection implements its ledger.  All of it rests on BooksInv.     *)
(***************************************************************************)
EXTENDS RecordedSuccessProofs, FiniteSetTheorems, FunctionTheorems

-----------------------------------------------------------------------------
(* Shapes and counts. *)

\* The shapes of the books.
LEMMA BookShapes ==
  ASSUME TypeInv
  PROVE  /\ coll \in [pc : Stopped \cup Running, plan : Plan, budget : 1 .. MaxAttempt,
                      defer : BOOLEAN]
         /\ stats \in Records /\ mem \in Records
         /\ metadata \in Seq([save : Save, index : Nat])
         /\ Len(metadata) \in Nat /\ DOMAIN metadata = 1 .. Len(metadata)
         /\ manifest \in Seq([plan : Plan, index : Nat \cup {NoIndex}])
         /\ Len(manifest) \in Nat /\ DOMAIN manifest = 1 .. Len(manifest)
         /\ crashes \in Nat /\ kind \in Kind
         /\ info.st \in {"absent", "torn", "whole"}
BY LenProperties DEF TypeInv, TypeOK, DatasetTypeOK, ChildTypeOK, CollTypeOK

\* The interval 1 .. n has n elements.
LEMMA IntervalCounts ==
  ASSUME NEW n \in Nat
  PROVE  IsFiniteSet(1 .. n) /\ Cardinality(1 .. n) = n
<1>1. /\ IsFiniteSet(1 .. n)
      /\ Cardinality(1 .. n) = IF 1 > n THEN 0 ELSE n - 1 + 1
  BY FS_Interval
<1> QED BY <1>1

\* Where a row lies: every row names a plan.
LEMMA RowPlans ==
  ASSUME TypeInv
  PROVE  \A k \in DOMAIN Rows : Rows[k] \in Save /\ Rows[k].plan \in Plan
<1>1. \A k \in DOMAIN Rows : Rows[k] \in Save
  BY Shapes, ElementOfSeq
<1> QED BY <1>1 DEF Save

CommittedPlans == {Rows[k].plan : k \in DOMAIN Rows}

\* With each plan in one row, the rows are as many as the plans in them.
LEMMA RowsCountPlans ==
  ASSUME TypeInv, NoPlanTwice
  PROVE  IsFiniteSet(CommittedPlans) /\ Cardinality(CommittedPlans) = Len(Rows)
<1> DEFINE f == [k \in DOMAIN Rows |-> Rows[k].plan]
<1>1. IsFiniteSet(DOMAIN Rows) /\ Cardinality(DOMAIN Rows) = Len(Rows)
  <2>1. DOMAIN Rows = 1 .. Len(Rows) /\ Len(Rows) \in Nat
    BY Shapes
  <2>2. IsFiniteSet(1 .. Len(Rows)) /\ Cardinality(1 .. Len(Rows)) = Len(Rows)
    BY <2>1, IntervalCounts
  <2> QED BY <2>1, <2>2
<1>2. f \in [DOMAIN Rows -> CommittedPlans]
  BY DEF CommittedPlans
<1>3. f \in Surjection(DOMAIN Rows, CommittedPlans)
  BY <1>2, Fun_IsSurj DEF CommittedPlans
<1>4. f \in Injection(DOMAIN Rows, CommittedPlans)
  BY <1>2, Fun_IsInj DEF NoPlanTwice
<1> QED BY <1>1, <1>3, <1>4, FS_Surjection

\* A recorded success is a plan of the dataset.
LEMMA RecordedAreCommitted ==
  ASSUME TypeInv, SaveInv
  PROVE  Succeeded(stats) \subseteq CommittedPlans
<1> SUFFICES ASSUME NEW p \in Plan, stats[p].success
             PROVE  \E k \in DOMAIN Rows : Rows[k].plan = p
  BY DEF Succeeded, CommittedPlans
<1>1. IsRow(p, stats[p])
  BY DEF SaveInv, RecordsTrue
<1>2. stats[p].index + 1 \in DOMAIN Rows /\ Rows[stats[p].index + 1].plan = p
  BY <1>1, Shapes DEF IsRow, Row
<1> QED BY <1>2

-----------------------------------------------------------------------------
(* The task process. *)

\* While a task process lives, its collector waits or has crashed.
LEMMA LiveBooks ==
  ASSUME BooksInv, Live, UNCHANGED <<coll, stats, mem, crashes>>
  PROVE  Attended' /\ MemoryAhead' /\ VerdictTrue' /\ RangesFollow'
<1>1. coll.pc \in {"wait", "crashed"} /\ (coll.pc = "crashed" => crashes > 0)
  BY DEF BooksInv, Attended
<1>2. Attended'
  BY <1>1 DEF Attended
<1>3. MemoryAhead'
  BY <1>1 DEF BooksInv, MemoryAhead
<1>4. VerdictTrue' /\ RangesFollow'
  BY <1>1 DEF VerdictTrue, RangesFollow, Finalized
<1> QED BY <1>2, <1>3, <1>4

\* A step of the task process that writes none of the books it shares.
LEMMA QuietChildBooks ==
  ASSUME TypeInv, BooksInv, Live,
         UNCHANGED <<coll, stats, mem, crashes, manifest, episodes, kind, info>>,
         child'.save = child.save, IsListed' <=> IsListed,
         child.stage # "episodes", child'.stage # "episodes"
  PROVE  /\ NoPlanTwice' /\ RowsAccounted' /\ InfoFollows' /\ ManifestFollows'
         /\ Attended' /\ MemoryAhead' /\ VerdictTrue' /\ RangesFollow'
<1>1. NoPlanTwice'
  BY DEF BooksInv, NoPlanTwice, Rows
<1>2. RowsAccounted'
  BY DEF BooksInv, RowsAccounted, MayBeOpen, Rows
<1>3. InfoFollows'
  BY DEF BooksInv, InfoFollows, Rows
<1>4. ManifestFollows'
  <2>1. coll.pc # "stats"
    BY DEF BooksInv, Attended
  <2> QED BY <2>1 DEF BooksInv, ManifestFollows, Rows, Row, Listing, Succeeded
<1> QED BY <1>1, <1>2, <1>3, <1>4, LiveBooks

\* Checks, rollout and the files of the episode touch no book.
LEMMA EarlyStageBooks ==
  ASSUME TypeInv, BooksInv, UNCHANGED <<kind, collectorVars>>,
         \/ CheckSchema \/ OpenWriter \/ RolloutFails \/ RolloutSucceeds
         \/ SaveParquet \/ SaveVideo
  PROVE  BooksInv'
<1>1. /\ child.stage \in EarlyStages \cup {"parquet", "video"}
      /\ child'.stage \in EarlyStages \cup {"parquet", "video", "info"}
         \/ (child'.stage = "exited" /\ ~ child'.ok)
      /\ child'.save = child.save
  BY Shapes DEF CheckSchema, OpenWriter, RolloutFails, RolloutSucceeds, SaveParquet, SaveVideo,
                AtStage, ExitAt, EarlyStages
<1>2. UNCHANGED <<coll, stats, mem, crashes, manifest, episodes, kind, info, schema, metadata>>
  BY DEF CheckSchema, OpenWriter, RolloutFails, RolloutSucceeds, SaveParquet, SaveVideo,
         LoadExistingState, WriteParquet, WriteVideo, datasetVars, collectorVars
<1>3. Live /\ ~ IsListed /\ ~ IsListed'
  BY <1>1 DEF Live, SaveStages, EarlyStages, IsListed, Listed
<1>4. SchemaFollows'
  BY <1>1, <1>2 DEF BooksInv, SchemaFollows, KeepsMetadata, EarlyStages
<1>5. MetadataFollows'
  BY <1>1, <1>2 DEF BooksInv, MetadataFollows, KeepsMetadata, EarlyStages, Rows
<1> QED BY <1>1, <1>2, <1>3, <1>4, <1>5, QuietChildBooks DEF BooksInv, EarlyStages

\* info.json counts the episode that the writer has in memory.
LEMMA InfoBooks ==
  ASSUME TypeInv, SaveInv, BooksInv, UNCHANGED <<kind, collectorVars>>, SaveInfo
  PROVE  BooksInv'
<1>1. /\ child.stage = "info" /\ child'.stage = "episodes" /\ child'.save = child.save
      /\ UNCHANGED <<coll, stats, mem, crashes, manifest, episodes, kind, schema, metadata>>
      /\ info'.st = "whole" /\ info'.total = Len(writer.rows)
  BY Shapes DEF SaveInfo, AtStage, WriteInfo, collectorVars
<1>2. Live /\ ~ IsListed /\ ~ IsListed'
  BY <1>1 DEF Live, SaveStages, IsListed, Listed
<1>3. Len(writer.rows) = Len(Rows) + 1
  <2>1. writer.rows = Append(Rows, child.save)
    BY <1>1 DEF SaveInv, RowsProgress
  <2> QED BY <2>1, Shapes, AppendProperties
<1>4. NoPlanTwice' /\ RowsAccounted'
  BY <1>1, <1>2 DEF BooksInv, NoPlanTwice, RowsAccounted, MayBeOpen, Rows
<1>5. InfoFollows'
  BY <1>1, <1>3 DEF InfoFollows, Rows
<1>6. SchemaFollows' /\ MetadataFollows'
  BY <1>1 DEF BooksInv, SchemaFollows, MetadataFollows, KeepsMetadata, Rows
<1>7. ManifestFollows'
  BY <1>1, <1>2 DEF BooksInv, Attended, ManifestFollows, Rows, Row, Listing, Succeeded
<1> QED BY <1>1, <1>2, <1>4, <1>5, <1>6, <1>7, LiveBooks DEF BooksInv

\* The episode is listed: its plan is in no other row, and not yet recorded.
LEMMA EpisodesBooks ==
  ASSUME TypeInv, SaveInv, BooksInv, UNCHANGED <<kind, collectorVars>>, SaveEpisodes
  PROVE  /\ BooksInv' /\ Rows' = Append(Rows, child.save)
         /\ child.save.plan \in Plan \ CommittedPlans
         /\ CommittedPlans \subseteq Succeeded(stats)
         /\ coll.pc \in {"wait", "crashed"}
<1>1. /\ child.stage = "episodes" /\ child'.stage = "tasks" /\ child'.save = child.save
      /\ UNCHANGED <<coll, stats, mem, crashes, manifest, kind, info, schema, metadata>>
      /\ episodes'.rows = writer.rows
  BY Shapes DEF SaveEpisodes, AtStage, WriteEpisodes, collectorVars
<1>2. Live /\ ~ IsListed /\ IsListed'
  BY <1>1 DEF Live, SaveStages, IsListed, Listed
<1>3. /\ coll.pc \in {"wait", "crashed"} /\ (coll.pc = "crashed" => crashes > 0)
      /\ mem = stats
  BY <1>2 DEF BooksInv, Attended, MemoryAhead
<1>4. Rows' = Append(Rows, child.save)
  BY <1>1 DEF SaveInv, RowsProgress, Rows
<1>5. /\ Len(Rows) \in Nat /\ Len(Rows') = Len(Rows) + 1
      /\ DOMAIN Rows = 1 .. Len(Rows) /\ DOMAIN Rows' = 1 .. Len(Rows) + 1
      /\ Rows'[Len(Rows) + 1] = child.save
      /\ \A k \in 1 .. Len(Rows) : Rows'[k] = Rows[k]
  <2>1. Rows' \in Seq(Save)
    BY <1>4, Shapes, AppendProperties
  <2> QED BY <1>4, <2>1, Shapes, AppendProperties, LenProperties
<1>6. \A k \in DOMAIN Rows : stats[Rows[k].plan].success
  BY <1>2, <1>3 DEF BooksInv, RowsAccounted, MayBeOpen
<1>7. ~ stats[child.save.plan].success /\ child.save.plan \in Plan
  BY <1>2, Shapes DEF SaveInv, SaverUnrecorded
<1>8. NoPlanTwice'
  <2>1. \A k \in DOMAIN Rows : Rows[k].plan # child.save.plan
    BY <1>6, <1>7
  <2> QED BY <1>5, <2>1 DEF BooksInv, NoPlanTwice
<1>9. RowsAccounted'
  BY <1>1, <1>2, <1>3, <1>5, <1>6 DEF RowsAccounted, MayBeOpen, Stopped
<1>10. InfoFollows'
  <2>1. Rows # << >> \/ info.st # "absent"
    BY <1>1 DEF BooksInv, InfoFollows
  <2> QED BY <1>1, <1>5, <2>1 DEF BooksInv, InfoFollows
<1>11. SchemaFollows'
  BY <1>1 DEF BooksInv, SchemaFollows
<1>12. MetadataFollows'
  BY <1>1, <1>5, BookShapes DEF BooksInv, MetadataFollows, KeepsMetadata
<1>13. ManifestFollows'
  <2>1. \A i \in 0 .. Len(Rows) - 1 : i \in 0 .. Len(Rows') - 1 /\ Rows'[i + 1] = Rows[i + 1]
    BY <1>5
  <2> QED BY <1>1, <1>2, <1>3, <2>1
          DEF BooksInv, ManifestFollows, Row, Listing, Succeeded
<1>14. /\ child.save.plan \in Plan \ CommittedPlans
       /\ CommittedPlans \subseteq Succeeded(stats)
  BY <1>6, <1>7, RowPlans DEF CommittedPlans, Succeeded
<1> QED BY <1>1, <1>2, <1>3, <1>4, <1>8, <1>9, <1>10, <1>11, <1>12, <1>13, <1>14, LiveBooks
        DEF BooksInv

\* The last stages of a save: vocabulary, schema, metadata row, exit.
LEMMA LateStageBooks ==
  ASSUME TypeInv, SaveInv, BooksInv, UNCHANGED <<kind, collectorVars>>,
         SaveTasks \/ SaveSchema \/ SaveMetadataRow \/ ExitSuccess
  PROVE  BooksInv'
<1>1. /\ child.stage \in Listed /\ child'.save = child.save
      /\ child'.stage \in Listed \/ (child'.stage = "exited" /\ child'.ok)
      /\ UNCHANGED <<coll, stats, mem, crashes, manifest, episodes, kind, info>>
  BY Shapes DEF SaveTasks, SaveSchema, SaveMetadataRow, ExitSuccess, AtStage, ExitAt, Listed,
                WriteTasks, datasetVars, collectorVars
<1>2. Live /\ IsListed /\ IsListed' /\ child.stage # "episodes" /\ child'.stage # "episodes"
  BY <1>1 DEF Live, SaveStages, IsListed, Listed
<1>3. SchemaFollows' /\ MetadataFollows'
  <2>1. CASE SaveTasks
    <3>1. /\ child.stage = "tasks" /\ child'.stage = IF KeepsMetadata THEN "schema" ELSE "exit"
          /\ UNCHANGED <<schema, metadata>>
      BY <2>1, Shapes DEF SaveTasks, AtStage
    <3> QED BY <1>1, <3>1 DEF BooksInv, SchemaFollows, MetadataFollows, KeepsMetadata, Rows
  <2>2. CASE SaveSchema
    <3>1. /\ child.stage = "schema" /\ child'.stage = "row" /\ schema' = "whole"
          /\ UNCHANGED metadata
      BY <2>2, Shapes DEF SaveSchema, AtStage
    <3> QED BY <1>1, <3>1 DEF BooksInv, SchemaFollows, MetadataFollows, KeepsMetadata, Rows
  <2>3. CASE SaveMetadataRow
    <3> DEFINE row == [save |-> child.save, index |-> writer.index]
    <3>1. /\ child.stage = "row" /\ child'.stage = "exit" /\ UNCHANGED schema
          /\ metadata' = Append(metadata, row)
      BY <2>3, Shapes DEF SaveMetadataRow, AtStage
    <3>2. writer.index = Len(Rows) - 1 /\ Rows[Len(Rows)] = child.save
      BY <1>2 DEF SaveInv, RowsProgress
    <3>3. row \in [save : Save, index : Nat]
      BY Shapes
    <3>4. /\ Len(metadata') = Len(metadata) + 1
          /\ metadata'[Len(metadata) + 1] = row
          /\ \A k \in 1 .. Len(metadata) : metadata'[k] = metadata[k]
          /\ DOMAIN metadata' = 1 .. Len(metadata) + 1
          /\ Len(metadata) \in Nat /\ DOMAIN metadata = 1 .. Len(metadata)
      <4>1. metadata' \in Seq([save : Save, index : Nat])
        BY <3>1, <3>3, BookShapes, AppendProperties
      <4> QED BY <3>1, <3>3, <4>1, BookShapes, AppendProperties, LenProperties
    <3>5. MetadataFollows'
      <4> SUFFICES ASSUME KeepsMetadata
                   PROVE  /\ Len(metadata') = Len(Rows)
                          /\ \A k \in DOMAIN metadata' :
                               metadata'[k] = [save |-> Rows[k], index |-> k - 1]
        BY <1>1, <3>1 DEF MetadataFollows, KeepsMetadata, Rows
      <4>1. /\ Len(metadata) = Len(Rows) - 1
            /\ \A k \in DOMAIN metadata : metadata[k] = [save |-> Rows[k], index |-> k - 1]
        BY <3>1 DEF BooksInv, MetadataFollows
      <4>2. Len(Rows) \in Nat
        BY Shapes
      <4> QED BY <3>2, <3>4, <4>1, <4>2
    <3>6. SchemaFollows'
      BY <1>1, <3>1 DEF BooksInv, SchemaFollows, KeepsMetadata
    <3> QED BY <3>5, <3>6
  <2>4. CASE ExitSuccess
    <3>1. /\ child.stage = "exit" /\ child'.stage = "exited" /\ UNCHANGED <<schema, metadata>>
      BY <2>4, Shapes DEF ExitSuccess, ExitAt
    <3> QED BY <1>1, <3>1 DEF BooksInv, SchemaFollows, MetadataFollows, KeepsMetadata, Rows
  <2> QED BY <2>1, <2>2, <2>3, <2>4
<1> QED BY <1>1, <1>2, <1>3, QuietChildBooks DEF BooksInv

\* Outside a save a death leaves the books alone; the collector may go with it.
LEMMA DeathBooks ==
  ASSUME TypeInv, SaveInv, BooksInv, Die, child.stage \in EarlyStages,
         UNCHANGED <<stats, manifest, kind>>,
         \/ UNCHANGED collectorVars
         \/ CrashTogether
  PROVE  BooksInv'
<1>1. /\ child.stage \in EarlyStages /\ child'.stage = "exited" /\ ~ child'.ok
      /\ child'.save = child.save /\ UNCHANGED episodes
  BY Shapes DEF Die, TornFiles, NothingTorn, datasetVars, EarlyStages
<1>2. UNCHANGED <<info, schema, metadata>>
  BY <1>1 DEF Die, TornFiles, NothingTorn, datasetVars, EarlyStages
<1>3. Live /\ ~ Live' /\ ~ IsListed /\ ~ IsListed'
  BY <1>1 DEF Live, SaveStages, EarlyStages, IsListed, Listed
<1>4. /\ coll.pc \in {"wait", "crashed"} /\ mem = stats /\ mem' = stats
      /\ \/ UNCHANGED <<coll, crashes>>
         \/ coll'.pc = "crashed" /\ crashes' > 0
  <2>1. coll.pc \in {"wait", "crashed"} /\ mem = stats
    BY <1>3 DEF BooksInv, Attended, MemoryAhead
  <2> QED BY <2>1, BookShapes DEF CrashTogether, Crash, GoTo, collectorVars
<1>5. Attended' /\ MemoryAhead'
  BY <1>3, <1>4 DEF BooksInv, Attended, MemoryAhead
<1>6. NoPlanTwice' /\ RowsAccounted'
  BY <1>1, <1>3, <1>4 DEF BooksInv, NoPlanTwice, RowsAccounted, MayBeOpen, Rows
<1>7. InfoFollows' /\ SchemaFollows' /\ MetadataFollows'
  BY <1>1, <1>2 DEF BooksInv, InfoFollows, SchemaFollows, MetadataFollows, KeepsMetadata,
                    EarlyStages, Rows
<1>8. ManifestFollows'
  BY <1>1, <1>3, <1>4 DEF BooksInv, ManifestFollows, Rows, Row, Listing, Succeeded
<1>9. VerdictTrue' /\ RangesFollow'
  BY <1>4 DEF VerdictTrue, RangesFollow, Finalized
<1> QED BY <1>5, <1>6, <1>7, <1>8, <1>9 DEF BooksInv

-----------------------------------------------------------------------------
(* The collector. *)

\* Without an unrecorded row the rows are as many as the successes.
LEMMA ClosedCount ==
  ASSUME TypeInv, SaveInv, NoPlanTwice
  PROVE  Len(Rows) = Cardinality(Succeeded(stats))
           <=> \A k \in DOMAIN Rows : stats[Rows[k].plan].success
<1>1. /\ IsFiniteSet(CommittedPlans) /\ Cardinality(CommittedPlans) = Len(Rows)
      /\ Succeeded(stats) \in SUBSET CommittedPlans
  BY RowsCountPlans, RecordedAreCommitted
<1>2. Len(Rows) = Cardinality(Succeeded(stats)) <=> Succeeded(stats) = CommittedPlans
  BY <1>1, FS_Subset
<1>3. (\A k \in DOMAIN Rows : stats[Rows[k].plan].success)
        <=> CommittedPlans \subseteq Succeeded(stats)
  BY RowPlans DEF CommittedPlans, Succeeded
<1> QED BY <1>1, <1>2, <1>3

\* One unrecorded row, the last, makes the dataset one episode ahead.
LEMMA OpenCount ==
  ASSUME TypeInv, SaveInv, NoPlanTwice, NEW k \in DOMAIN Rows,
         ~ stats[Rows[k].plan].success,
         \A j \in DOMAIN Rows : j # k => stats[Rows[j].plan].success
  PROVE  Len(Rows) = Cardinality(Succeeded(stats)) + 1
<1> DEFINE x == Rows[k].plan
<1>1. /\ IsFiniteSet(CommittedPlans) /\ Cardinality(CommittedPlans) = Len(Rows)
      /\ Succeeded(stats) \subseteq CommittedPlans
  BY RowsCountPlans, RecordedAreCommitted
<1>2. Succeeded(stats) = CommittedPlans \ {x}
  BY <1>1, RowPlans DEF CommittedPlans, Succeeded
<1>3. x \in CommittedPlans
  BY DEF CommittedPlans
<1>4. Cardinality(CommittedPlans \ {x}) = Cardinality(CommittedPlans) - 1
  BY <1>1, <1>3, FS_RemoveElement
<1> QED BY <1>1, <1>2, <1>4, Shapes

\* What the steps of a collector without a live child leave alone.
LEMMA BookkeepingUnchanged ==
  ASSUME DatasetUnchanged
  PROVE  /\ UNCHANGED <<info, episodes, schema, metadata, child, kind>>
         /\ UNCHANGED <<Rows, IsListed, Live>>
BY DEF DatasetUnchanged, datasetVars, childVars, Rows, IsListed, Live

\* The run goes on only if every row is recorded; it is refused for one row.
LEMMA StartBooks ==
  ASSUME TypeInv, SaveInv, BooksInv, Operator
  PROVE  BooksInv'
<1> PICK budget \in Budgets, defer \in BOOLEAN : Start(budget, defer)
  BY DEF Operator
<1>1. /\ coll.pc \in Stopped /\ ~ Live
      /\ coll'.pc = IF ResumeRefused THEN "refused" ELSE "loop"
      /\ mem' = stats
      /\ UNCHANGED <<stats, manifest, splits, crashes>>
  BY BookShapes DEF Start
<1>2. /\ UNCHANGED <<info, episodes, schema, metadata, child, kind>>
      /\ UNCHANGED <<Rows, IsListed, Live>>
  BY BookkeepingUnchanged DEF Start
<1>3. mem = stats
  BY <1>1 DEF BooksInv, MemoryAhead, Stopped
<1>4. child.stage \notin {"tasks", "schema", "episodes"}
  BY <1>1 DEF Live, SaveStages
<1>5. Attended' /\ MemoryAhead'
  BY <1>1, <1>2 DEF Attended, MemoryAhead
<1>6. NoPlanTwice' /\ InfoFollows' /\ SchemaFollows' /\ MetadataFollows'
  BY <1>2 DEF BooksInv, NoPlanTwice, InfoFollows, SchemaFollows, MetadataFollows, KeepsMetadata
<1>7. CASE ResumeRefused
  <2>1. PICK k \in DOMAIN Rows : ~ stats[Rows[k].plan].success
    <3>1. ~ SchemaRefused \/ kind # "atomic"
      BY <1>4 DEF BooksInv, SchemaFollows, SchemaRefused, KeepsMetadata
    <3>2. info.st = "whole" /\ Len(Rows) # Cardinality(Succeeded(stats))
      BY <1>4, <1>7, <3>1 DEF ResumeRefused, BooksInv, InfoFollows
    <3> QED BY <3>2, ClosedCount DEF BooksInv
  <2>2. \A j \in DOMAIN Rows : stats[Rows[j].plan].success \/ (j = Len(Rows) /\ MayBeOpen)
    BY <1>3 DEF BooksInv, RowsAccounted
  <2>3. /\ crashes > 0 /\ IsListed /\ k = Len(Rows)
        /\ \A j \in DOMAIN Rows : j # k => stats[Rows[j].plan].success
    BY <1>1, <2>1, <2>2 DEF MayBeOpen, Stopped
  <2>4. Len(Rows) = Cardinality(Succeeded(stats)) + 1
    BY <2>1, <2>3, OpenCount DEF BooksInv
  <2>5. coll'.pc = "refused"
    BY <1>1, <1>7
  <2>6. RowsAccounted'
    BY <1>1, <1>2, <2>2, <2>3, <2>5 DEF RowsAccounted, MayBeOpen, Stopped
  <2>7. ManifestFollows'
    BY <1>1, <1>2, <2>5 DEF BooksInv, ManifestFollows, Row, Listing, Succeeded, Stopped
  <2>8. VerdictTrue' /\ RangesFollow'
    BY <1>1, <1>2, <2>3, <2>4, <2>5 DEF VerdictTrue, RangesFollow, Finalized, Succeeded
  <2> QED BY <1>5, <1>6, <2>6, <2>7, <2>8 DEF BooksInv
<1>8. CASE ~ ResumeRefused
  <2>1. coll'.pc = "loop"
    BY <1>1, <1>8
  <2>2. \A k \in DOMAIN Rows : stats[Rows[k].plan].success
    <3>1. CASE info.st = "absent"
      <4>1. Rows = << >>
        BY <3>1 DEF BooksInv, InfoFollows
      <4> QED BY <4>1
    <3>2. CASE info.st = "whole"
      <4>1. Len(Rows) = Cardinality(Succeeded(stats))
        BY <1>4, <1>8, <3>2 DEF BooksInv, InfoFollows, ResumeRefused
      <4> QED BY <4>1, ClosedCount DEF BooksInv
    <3> QED BY <3>1, <3>2, BookShapes DEF BooksInv, InfoFollows
  <2>3. RowsAccounted'
    BY <1>1, <1>2, <2>2 DEF RowsAccounted
  <2>4. ManifestFollows'
    <3>1. \A k \in DOMAIN manifest : stats[manifest[k].plan].success
      <4> SUFFICES ASSUME NEW k \in DOMAIN manifest
                   PROVE  stats[manifest[k].plan].success
        OBVIOUS
      <4>1. /\ manifest[k].index \in 0 .. Len(Rows) - 1
            /\ Row(manifest[k].index).plan = manifest[k].plan
        BY DEF BooksInv, ManifestFollows
      <4>2. manifest[k].index + 1 \in DOMAIN Rows
        BY <4>1, Shapes
      <4> QED BY <2>2, <4>1, <4>2 DEF Row
    <3> QED BY <1>1, <1>2, <2>1, <3>1
            DEF BooksInv, ManifestFollows, Row, Listing, Succeeded
  <2>5. VerdictTrue' /\ RangesFollow'
    BY <2>1 DEF VerdictTrue, RangesFollow, Finalized
  <2> QED BY <1>5, <1>6, <2>3, <2>4, <2>5 DEF BooksInv
<1> QED BY <1>7, <1>8
\* Bookkeeping leaves the dataset and its metadata alone, but for the ranges.
LEMMA SameDataset ==
  ASSUME BooksInv, UNCHANGED <<episodes, schema, metadata, child, kind>>,
         info'.st = info.st, info.st = "whole" => info'.total = info.total
  PROVE  /\ NoPlanTwice' /\ InfoFollows' /\ SchemaFollows' /\ MetadataFollows'
         /\ UNCHANGED <<Rows, IsListed, Live>>
<1>1. UNCHANGED <<Rows, IsListed, Live>>
  BY DEF Rows, IsListed, Live
<1>2. NoPlanTwice' /\ SchemaFollows' /\ MetadataFollows'
  BY <1>1 DEF BooksInv, NoPlanTwice, SchemaFollows, MetadataFollows, KeepsMetadata
<1>3. InfoFollows'
  BY <1>1 DEF BooksInv, InfoFollows
<1> QED BY <1>1, <1>2, <1>3

\* Between two attempts no task process lives and every row is recorded.
LEMMA LoopBooks ==
  ASSUME BooksInv, coll.pc \in {"loop", "finalize", "splits"}
  PROVE  /\ ~ Live /\ mem = stats
         /\ \A k \in DOMAIN Rows : stats[Rows[k].plan].success
         /\ \A k \in DOMAIN manifest : stats[manifest[k].plan].success
<1>1. ~ Live /\ mem = stats
  BY DEF BooksInv, Attended, MemoryAhead
<1>2. ~ MayBeOpen
  BY DEF MayBeOpen, Stopped
<1>3. \A k \in DOMAIN Rows : stats[Rows[k].plan].success
  BY <1>1, <1>2 DEF BooksInv, RowsAccounted
<1>4. \A k \in DOMAIN manifest : stats[manifest[k].plan].success
  BY DEF BooksInv, ManifestFollows, Stopped
<1> QED BY <1>1, <1>3, <1>4

\* A collector that goes on, without a live child, where all is recorded.
LEMMA RecordedBooks ==
  ASSUME BooksInv, coll.pc \in {"loop", "finalize", "splits"}, coll'.pc # "stats",
         UNCHANGED <<Rows, stats, mem, manifest>>
  PROVE  RowsAccounted' /\ ManifestFollows'
<1>1. RowsAccounted'
  BY LoopBooks DEF RowsAccounted
<1>2. ManifestFollows'
  BY LoopBooks DEF BooksInv, ManifestFollows, Row, Listing, Succeeded
<1> QED BY <1>1, <1>2

\* The next attempt starts while nothing is open.
LEMMA SpawnBooks ==
  ASSUME TypeInv, BooksInv, Spawn
  PROVE  BooksInv'
<1>1. /\ coll.pc = "loop" /\ coll'.pc = "wait"
      /\ child'.stage = "guard"
      /\ UNCHANGED <<info, episodes, schema, metadata, kind, stats, mem, manifest, crashes>>
  BY BookShapes DEF Spawn, datasetVars
<1>2. /\ ~ Live /\ mem = stats /\ UNCHANGED Rows
      /\ \A k \in DOMAIN Rows : stats[Rows[k].plan].success
  BY <1>1, LoopBooks DEF Rows
<1>3. child.stage \notin {"episodes", "tasks", "schema", "row"}
  BY <1>2 DEF Live, SaveStages
<1>4. NoPlanTwice' /\ InfoFollows' /\ SchemaFollows' /\ MetadataFollows'
  BY <1>1, <1>2, <1>3
     DEF BooksInv, NoPlanTwice, InfoFollows, SchemaFollows, MetadataFollows, KeepsMetadata
<1>5. RowsAccounted' /\ ManifestFollows'
  BY <1>1, <1>2, RecordedBooks
<1>6. Attended' /\ MemoryAhead' /\ VerdictTrue' /\ RangesFollow'
  BY <1>1, <1>2 DEF Attended, MemoryAhead, VerdictTrue, RangesFollow, Finalized
<1> QED BY <1>4, <1>5, <1>6 DEF BooksInv

\* The outcome is taken into memory; a success is that of the last row.
LEMMA ReapBooks ==
  ASSUME TypeInv, AheadInv, SaveInv, BooksInv, Reap
  PROVE  BooksInv'
<1>1. /\ coll.pc = "wait" /\ child.stage = "exited"
      /\ coll'.pc = IF child.ok THEN "manifest" ELSE "stats"
      /\ coll'.plan = coll.plan
      /\ UNCHANGED <<stats, manifest, crashes>>
  BY BookShapes DEF Reap, GoTo
<1>2. /\ UNCHANGED <<info, episodes, schema, metadata, child, kind>>
      /\ UNCHANGED <<Rows, IsListed, Live>>
  BY BookkeepingUnchanged DEF Reap
<1>3. /\ child.save.plan = coll.plan /\ coll.plan \in Plan
      /\ mem = stats /\ ~ stats[coll.plan].success
  BY <1>1, BookShapes DEF AheadInv, NextAttempt, BooksInv, MemoryAhead
<1>4. /\ \A p \in Plan \ {coll.plan} : mem'[p] = stats[p]
      /\ mem'[coll.plan].success = child.ok
  BY <1>3, BookShapes DEF Reap, Records
<1>5. Attended' /\ MemoryAhead'
  BY <1>1, <1>2, <1>3, <1>4 DEF Attended, MemoryAhead, Live, EarlyStages, SaveStages
<1>6. RowsAccounted'
  <2> SUFFICES ASSUME NEW k \in DOMAIN Rows PROVE mem'[Rows[k].plan].success
    BY <1>2 DEF RowsAccounted
  <2>1. Rows[k].plan \in Plan
    BY RowPlans
  <2>2. CASE stats[Rows[k].plan].success
    BY <1>3, <1>4, <2>1, <2>2
  <2>3. CASE ~ stats[Rows[k].plan].success
    <3>1. k = Len(Rows) /\ IsListed
      BY <1>3, <2>3 DEF BooksInv, RowsAccounted, MayBeOpen
    <3>2. Rows[k] = child.save /\ child.ok
      BY <1>1, <3>1 DEF SaveInv, RowsProgress, IsListed, Listed
    <3> QED BY <1>3, <1>4, <3>2
  <2> QED BY <2>2, <2>3
<1>7. ManifestFollows'
  <2>1. \A k \in DOMAIN manifest : stats[manifest[k].plan].success
    BY <1>1 DEF BooksInv, ManifestFollows, Stopped
  <2>2. ~ (coll'.pc = "stats" /\ child.ok)
    BY <1>1
  <2> QED BY <1>1, <1>2, <2>1, <2>2 DEF BooksInv, ManifestFollows, Row, Listing, Succeeded
<1>8. NoPlanTwice' /\ InfoFollows' /\ SchemaFollows' /\ MetadataFollows'
  BY <1>2, SameDataset
<1>9. VerdictTrue' /\ RangesFollow'
  BY <1>1 DEF VerdictTrue, RangesFollow, Finalized
<1> QED BY <1>5, <1>6, <1>7, <1>8, <1>9 DEF BooksInv

\* The manifest gets its line while the statistics do not know the plan yet.
LEMMA AppendManifestBooks ==
  ASSUME TypeInv, SaveInv, BooksInv, AppendManifest
  PROVE  BooksInv'
<1> DEFINE line == Listing(coll.plan, mem)
<1>1. /\ coll.pc = "manifest" /\ coll'.pc = "stats" /\ coll'.plan = coll.plan
      /\ manifest' = Append(manifest, line)
      /\ UNCHANGED <<stats, mem, crashes>>
  BY BookShapes DEF AppendManifest, GoTo, Listing
<1>2. /\ UNCHANGED <<info, episodes, schema, metadata, child, kind>>
      /\ UNCHANGED <<Rows, IsListed, Live>>
  BY BookkeepingUnchanged DEF AppendManifest
<1>3. /\ coll.plan \in Plan /\ child.save.plan = coll.plan
      /\ ~ stats[coll.plan].success /\ IsListed
      /\ IsRow(coll.plan, mem[coll.plan])
  <2>1. /\ child.stage = "exited" /\ child.ok /\ child.save.plan = coll.plan
        /\ ~ stats[coll.plan].success /\ mem[coll.plan].success /\ coll.plan \in Plan
    BY <1>1, BookShapes DEF BooksInv, MemoryAhead
  <2> QED BY <2>1 DEF SaveInv, RecordsTrue, IsListed
<1>4. /\ line.plan = coll.plan /\ line.index \in 0 .. Len(Rows) - 1
      /\ Row(line.index).plan = coll.plan
  BY <1>3 DEF IsRow, Listing
<1>5. /\ DOMAIN manifest = 1 .. Len(manifest) /\ Len(manifest) \in Nat
      /\ DOMAIN manifest' = 1 .. Len(manifest) + 1
      /\ manifest'[Len(manifest) + 1] = line
      /\ \A k \in DOMAIN manifest : manifest'[k] = manifest[k]
  <2>1. line \in [plan : Plan, index : Nat \cup {NoIndex}]
    BY <1>3, BookShapes DEF Records, Listing
  <2>2. manifest' \in Seq([plan : Plan, index : Nat \cup {NoIndex}])
    BY <1>1, <2>1, BookShapes, AppendProperties
  <2> QED BY <1>1, <2>1, <2>2, BookShapes, AppendProperties, LenProperties
<1>6. \A k \in DOMAIN manifest : stats[manifest[k].plan].success
  BY <1>1 DEF BooksInv, ManifestFollows, Stopped
<1>7. ManifestFollows'
  <2>1. \A j, k \in DOMAIN manifest' : manifest'[j].plan = manifest'[k].plan => j = k
    <3>1. \A k \in DOMAIN manifest : manifest[k].plan # line.plan
      BY <1>3, <1>4, <1>6
    <3> QED BY <1>5, <3>1 DEF BooksInv, ManifestFollows
  <2>2. \A k \in DOMAIN manifest' :
          /\ manifest'[k].index \in 0 .. Len(Rows) - 1
          /\ Row(manifest'[k].index).plan = manifest'[k].plan
          /\ stats[manifest'[k].plan].success \/ manifest'[k].plan = child.save.plan
    <3> SUFFICES ASSUME NEW k \in DOMAIN manifest'
                 PROVE  /\ manifest'[k].index \in 0 .. Len(Rows) - 1
                        /\ Row(manifest'[k].index).plan = manifest'[k].plan
                        /\ \/ stats[manifest'[k].plan].success
                           \/ manifest'[k].plan = child.save.plan
      OBVIOUS
    <3>1. CASE k \in DOMAIN manifest
      BY <1>5, <1>6, <3>1 DEF BooksInv, ManifestFollows
    <3>2. CASE k = Len(manifest) + 1
      BY <1>3, <1>4, <1>5, <3>2
    <3> QED BY <1>5, <3>1, <3>2
  <2>3. \A p \in Succeeded(stats) : \E k \in DOMAIN manifest' : manifest'[k] = Listing(p, stats)
    <3> SUFFICES ASSUME NEW p \in Succeeded(stats)
                 PROVE  \E k \in DOMAIN manifest' : manifest'[k] = Listing(p, stats)
      OBVIOUS
    <3>1. PICK k \in DOMAIN manifest : manifest[k] = Listing(p, stats)
      BY DEF BooksInv, ManifestFollows
    <3>2. k \in DOMAIN manifest'
      BY <1>5
    <3> QED BY <1>5, <3>1, <3>2
  <2>4. \E k \in DOMAIN manifest' : manifest'[k] = line
    <3>1. Len(manifest) + 1 \in DOMAIN manifest'
      BY <1>5
    <3> QED BY <1>5, <3>1
  <2> QED BY <1>1, <1>2, <1>3, <2>1, <2>2, <2>3, <2>4
          DEF ManifestFollows, Listing, Succeeded, Row
<1>8. RowsAccounted'
  <2>1. ~ MayBeOpen
    BY <1>1 DEF MayBeOpen, Stopped
  <2> QED BY <1>1, <1>2, <2>1 DEF BooksInv, RowsAccounted
<1>9. Attended' /\ MemoryAhead'
  BY <1>1, <1>2 DEF BooksInv, Attended, MemoryAhead
<1>10. NoPlanTwice' /\ InfoFollows' /\ SchemaFollows' /\ MetadataFollows'
  BY <1>2, SameDataset
<1>11. VerdictTrue' /\ RangesFollow'
  BY <1>1 DEF VerdictTrue, RangesFollow, Finalized
<1> QED BY <1>7, <1>8, <1>9, <1>10, <1>11 DEF BooksInv

\* The statistics catch up with memory: one plan more, or none.
LEMMA WriteStatsBooks ==
  ASSUME TypeInv, BooksInv, WriteStats
  PROVE  BooksInv'
<1>1. /\ coll.pc = "stats" /\ coll'.pc = "loop" /\ stats' = mem
      /\ UNCHANGED <<mem, manifest, crashes>>
  BY BookShapes DEF WriteStats, GoTo
<1>2. /\ UNCHANGED <<info, episodes, schema, metadata, child, kind>>
      /\ UNCHANGED <<Rows, IsListed, Live>>
  BY BookkeepingUnchanged DEF WriteStats
<1>3. /\ coll.plan \in Plan /\ child.stage = "exited" /\ child.save.plan = coll.plan
      /\ ~ stats[coll.plan].success /\ mem[coll.plan].success = child.ok
      /\ \A p \in Plan \ {coll.plan} : mem[p] = stats[p]
  BY <1>1, BookShapes DEF BooksInv, MemoryAhead
<1>4. ManifestFollows'
  <2>1. \A k \in DOMAIN manifest : mem[manifest[k].plan].success
    <3> SUFFICES ASSUME NEW k \in DOMAIN manifest PROVE mem[manifest[k].plan].success
      OBVIOUS
    <3>1. manifest[k].plan \in Plan
      <4>1. manifest[k] \in [plan : Plan, index : Nat \cup {NoIndex}]
        BY BookShapes, ElementOfSeq
      <4> QED BY <4>1
    <3>2. \/ stats[manifest[k].plan].success
          \/ child.ok /\ manifest[k].plan = coll.plan
      BY <1>3 DEF BooksInv, ManifestFollows, IsListed, Listed
    <3> QED BY <1>3, <3>1, <3>2
  <2>2. \A p \in Succeeded(mem) : \E k \in DOMAIN manifest : manifest[k] = Listing(p, mem)
    <3> SUFFICES ASSUME NEW p \in Plan, mem[p].success
                 PROVE  \E k \in DOMAIN manifest : manifest[k] = Listing(p, mem)
      BY DEF Succeeded
    <3>1. CASE p = coll.plan
      BY <1>1, <1>3, <3>1 DEF BooksInv, ManifestFollows
    <3>2. CASE p # coll.plan
      BY <1>3, <3>2 DEF BooksInv, ManifestFollows, Listing, Succeeded
    <3> QED BY <3>1, <3>2
  <2> QED BY <1>1, <1>2, <2>1, <2>2 DEF BooksInv, ManifestFollows, Row, Listing, Succeeded
<1>5. RowsAccounted'
  <2>1. ~ MayBeOpen
    BY <1>1 DEF MayBeOpen, Stopped
  <2> QED BY <1>1, <1>2, <2>1 DEF BooksInv, RowsAccounted
<1>6. Attended' /\ MemoryAhead'
  BY <1>1, <1>2 DEF BooksInv, Attended, MemoryAhead
<1>7. NoPlanTwice' /\ InfoFollows' /\ SchemaFollows' /\ MetadataFollows'
  BY <1>2, SameDataset
<1>8. VerdictTrue' /\ RangesFollow'
  BY <1>1 DEF VerdictTrue, RangesFollow, Finalized
<1> QED BY <1>4, <1>5, <1>6, <1>7, <1>8 DEF BooksInv

\* A collector is done with its loop when all plans are, or gives up.
LEMMA EndLoopBooks ==
  ASSUME TypeInv, BooksInv, EndLoop
  PROVE  BooksInv'
<1>1. /\ coll.pc = "loop" /\ coll'.defer = coll.defer
      /\ coll'.pc = IF Succeeded(mem) # Plan THEN "exhausted"
                    ELSE IF kind = "transport" \/ coll.defer THEN "complete"
                    ELSE "finalize"
      /\ UNCHANGED <<stats, mem, manifest, crashes>>
  BY BookShapes DEF EndLoop, GoTo
<1>2. /\ UNCHANGED <<info, episodes, schema, metadata, child, kind>>
      /\ UNCHANGED <<Rows, IsListed, Live>>
  BY BookkeepingUnchanged DEF EndLoop
<1>3. ~ Live /\ mem = stats
  BY <1>1, LoopBooks
<1>4. RowsAccounted' /\ ManifestFollows'
  BY <1>1, <1>2, RecordedBooks
<1>5. Attended' /\ MemoryAhead'
  BY <1>1, <1>2, <1>3 DEF Attended, MemoryAhead
<1>6. NoPlanTwice' /\ InfoFollows' /\ SchemaFollows' /\ MetadataFollows'
  BY <1>2, SameDataset
<1>7. VerdictTrue' /\ RangesFollow'
  BY <1>1, <1>2, <1>3 DEF VerdictTrue, RangesFollow, Finalized, Succeeded
<1> QED BY <1>4, <1>5, <1>6, <1>7 DEF BooksInv

\* The ranges that go into info.json are those of the metadata rows.
LEMMA FinalizeInfoBooks ==
  ASSUME TypeInv, BooksInv, FinalizeInfo
  PROVE  BooksInv'
<1>1. /\ coll.pc = "finalize" /\ coll'.defer = coll.defer
      /\ UNCHANGED <<episodes, schema, metadata, child, kind>>
      /\ UNCHANGED <<stats, mem, manifest, crashes>>
  BY BookShapes DEF FinalizeInfo, GoTo, childVars
<1>2. \/ coll'.pc = "raised" /\ UNCHANGED info
      \/ /\ coll'.pc = "splits" /\ Contiguous(CountedSplits)
         /\ info'.st = info.st /\ info'.total = info.total /\ info'.ranges = FinalRanges
  <2>1. CASE ~ Contiguous(CountedSplits) \/ info.st # "whole"
    BY <2>1, BookShapes DEF FinalizeInfo, GoTo
  <2>2. CASE ~ (~ Contiguous(CountedSplits) \/ info.st # "whole")
    <3>1. info = [st |-> "whole", total |-> info.total, ranges |-> info.ranges]
      BY <2>2 DEF TypeInv, TypeOK, DatasetTypeOK
    <3>2. /\ coll'.pc = "splits" /\ Contiguous(CountedSplits)
          /\ info' = [info EXCEPT !.ranges = FinalRanges]
      BY <2>2, BookShapes DEF FinalizeInfo, GoTo
    <3> DEFINE t == info.total
               r == info.ranges
               f == FinalRanges
    <3>3. info = [st |-> "whole", total |-> t, ranges |-> r]
      BY <3>1
    <3>4. info' = [info EXCEPT !.ranges = f]
      BY <3>2
    <3>5. info'.st = info.st /\ info'.total = info.total /\ info'.ranges = f
      <4> HIDE DEF t, r, f
      <4> QED BY <3>3, <3>4
    <3> QED BY <3>2, <3>5
  <2> QED BY <2>1, <2>2
<1>3. /\ NoPlanTwice' /\ InfoFollows' /\ SchemaFollows' /\ MetadataFollows'
      /\ UNCHANGED <<Rows, IsListed, Live>>
  BY <1>1, <1>2, SameDataset
<1>4. RowsAccounted' /\ ManifestFollows'
  BY <1>1, <1>2, <1>3, RecordedBooks
<1>5. Attended' /\ MemoryAhead' /\ VerdictTrue'
  BY <1>1, <1>2, <1>3, LoopBooks DEF Attended, MemoryAhead, VerdictTrue, BooksInv, Succeeded
<1>6. RangesFollow'
  BY <1>1, <1>2 DEF RangesFollow, Finalized, FinalRanges, CountedSplits, RangedSplits
<1> QED BY <1>3, <1>4, <1>5, <1>6 DEF BooksInv

\* The splits file repeats them.
LEMMA FinalizeSplitsBooks ==
  ASSUME TypeInv, BooksInv, FinalizeSplits
  PROVE  BooksInv'
<1>1. /\ coll.pc = "splits" /\ coll'.pc = "complete" /\ splits' = FinalRanges
      /\ UNCHANGED <<stats, mem, manifest, crashes>>
  BY BookShapes DEF FinalizeSplits, GoTo
<1>2. /\ UNCHANGED <<info, episodes, schema, metadata, child, kind>>
      /\ UNCHANGED <<Rows, IsListed, Live>>
  BY BookkeepingUnchanged DEF FinalizeSplits
<1>3. RowsAccounted' /\ ManifestFollows'
  BY <1>1, <1>2, RecordedBooks
<1>4. Attended' /\ MemoryAhead' /\ VerdictTrue'
  BY <1>1, <1>2, LoopBooks DEF Attended, MemoryAhead, VerdictTrue, BooksInv, Succeeded
<1>5. NoPlanTwice' /\ InfoFollows' /\ SchemaFollows' /\ MetadataFollows'
  BY <1>2, SameDataset
<1>6. RangesFollow'
  BY <1>1, <1>2
     DEF BooksInv, RangesFollow, Finalized, FinalRanges, CountedSplits, RangedSplits
<1> QED BY <1>3, <1>4, <1>5, <1>6 DEF BooksInv

\* A collector that dies forgets the outcome it had not written.
LEMMA CrashAloneBooks ==
  ASSUME TypeInv, SaveInv, BooksInv, CrashAlone
  PROVE  BooksInv'
<1>1. /\ coll.pc \in Running /\ coll'.pc = "crashed" /\ crashes' > 0 /\ mem' = stats
      /\ UNCHANGED <<stats, manifest>>
  BY BookShapes DEF CrashAlone, Crash, GoTo
<1>2. /\ UNCHANGED <<info, episodes, schema, metadata, child, kind>>
      /\ UNCHANGED <<Rows, IsListed, Live>>
  BY DEF CrashAlone, Crash, datasetVars, childVars, Rows, IsListed, Live
<1>3. RowsAccounted'
  <2> SUFFICES ASSUME NEW k \in DOMAIN Rows, ~ stats[Rows[k].plan].success
               PROVE  k = Len(Rows) /\ IsListed
    BY <1>1, <1>2 DEF RowsAccounted, MayBeOpen, Stopped
  <2>1. CASE mem[Rows[k].plan].success
    <3>1. /\ coll.pc \in {"manifest", "stats"} /\ Rows[k].plan = coll.plan
          /\ child.stage = "exited" /\ child.ok /\ child.save.plan = coll.plan
      BY <2>1, RowPlans DEF BooksInv, MemoryAhead
    <3>2. Rows[Len(Rows)] = child.save /\ IsListed
      BY <3>1 DEF SaveInv, RowsProgress, IsListed
    <3>3. Len(Rows) \in DOMAIN Rows
      BY Shapes
    <3> QED BY <3>1, <3>2, <3>3 DEF BooksInv, NoPlanTwice
  <2>2. CASE ~ mem[Rows[k].plan].success
    BY <2>2 DEF BooksInv, RowsAccounted, MayBeOpen
  <2> QED BY <2>1, <2>2
<1>4. ManifestFollows'
  <2>1. \A k \in DOMAIN manifest :
          \/ stats[manifest[k].plan].success
          \/ IsListed /\ manifest[k].plan = child.save.plan
    BY DEF BooksInv, ManifestFollows
  <2> QED BY <1>1, <1>2, <2>1 DEF BooksInv, ManifestFollows, Row, Listing, Succeeded, Stopped
<1>5. Attended' /\ MemoryAhead'
  BY <1>1, <1>2 DEF Attended, MemoryAhead
<1>6. NoPlanTwice' /\ InfoFollows' /\ SchemaFollows' /\ MetadataFollows'
  BY <1>2, SameDataset
<1>7. VerdictTrue' /\ RangesFollow'
  BY <1>1 DEF VerdictTrue, RangesFollow, Finalized
<1> QED BY <1>3, <1>4, <1>5, <1>6, <1>7 DEF BooksInv

-----------------------------------------------------------------------------
(* The invariant. *)

\* Empty books agree.
LEMMA BooksInit == Init => BooksInv
<1> SUFFICES ASSUME Init PROVE BooksInv
  OBVIOUS
<1>1. /\ child.stage = "none" /\ Rows = << >> /\ Len(Rows) = 0
      /\ coll.pc = "idle" /\ mem = stats /\ info.st = "absent" /\ schema = "absent"
      /\ ~ episodes.exists /\ metadata = << >> /\ manifest = << >>
      /\ \A p \in Plan : ~ stats[p].success
  BY EmptySeq DEF Init, ChildInit, DatasetInit, NoChild, NoRows, Absent, Rows
<1>2. /\ NoPlanTwice /\ Attended /\ MemoryAhead /\ RowsAccounted /\ InfoFollows
      /\ SchemaFollows /\ VerdictTrue /\ RangesFollow
  BY <1>1 DEF NoPlanTwice, Attended, MemoryAhead, RowsAccounted, InfoFollows, SchemaFollows,
              VerdictTrue, RangesFollow, Finalized, Live, EarlyStages, SaveStages
<1>3. MetadataFollows
  BY <1>1 DEF MetadataFollows
<1>4. ManifestFollows
  BY <1>1 DEF ManifestFollows, Succeeded
<1> QED BY <1>2, <1>3, <1>4 DEF BooksInv

\* Every step of the system keeps the books, if no save is interrupted.
LEMMA BooksStep ==
  ASSUME TypeInv, AheadInv, SaveInv, BooksInv, [Next]_vars, Die => child.stage \in EarlyStages
  PROVE  BooksInv'
<1>1. CASE Operator \/ Spawn \/ Reap \/ AppendManifest \/ WriteStats \/ EndLoop
           \/ FinalizeInfo \/ FinalizeSplits \/ CrashAlone
  BY <1>1, StartBooks, SpawnBooks, ReapBooks, AppendManifestBooks, WriteStatsBooks,
     EndLoopBooks, FinalizeInfoBooks, FinalizeSplitsBooks, CrashAloneBooks
<1>2. CASE ChildStep
  BY <1>2, EarlyStageBooks, InfoBooks, EpisodesBooks, LateStageBooks
     DEF ChildStep, ChildEarly, ChildSave
<1>3. CASE Timeout \/ CrashTogether \/ OrphanDies
  <2>1. Die /\ UNCHANGED <<stats, manifest, kind>> /\ (UNCHANGED collectorVars \/ CrashTogether)
    BY <1>3 DEF Timeout, CrashTogether, OrphanDies, Crash, collectorVars
  <2> QED BY <2>1, DeathBooks
<1>4. CASE UNCHANGED vars
  <2>1. /\ UNCHANGED <<episodes, schema, metadata, child, kind, info>>
        /\ UNCHANGED <<coll, stats, mem, manifest, crashes, splits>>
    BY <1>4 DEF vars, datasetVars, childVars, collectorVars
  <2>2. /\ NoPlanTwice' /\ InfoFollows' /\ SchemaFollows' /\ MetadataFollows'
        /\ UNCHANGED <<Rows, IsListed, Live>>
    BY <2>1, SameDataset
  <2>3. Attended' /\ MemoryAhead' /\ RowsAccounted'
    BY <2>1, <2>2 DEF BooksInv, Attended, MemoryAhead, RowsAccounted, MayBeOpen
  <2>4. ManifestFollows'
    BY <2>1, <2>2 DEF BooksInv, ManifestFollows, Row, Listing, Succeeded
  <2>5. VerdictTrue' /\ RangesFollow'
    BY <2>1, <2>2 DEF BooksInv, VerdictTrue, RangesFollow, Finalized, Succeeded, FinalRanges,
                      CountedSplits, RangedSplits
  <2> QED BY <2>2, <2>3, <2>4, <2>5 DEF BooksInv
<1> QED BY <1>1, <1>2, <1>3, <1>4 DEF Next, CollectorStep, Done

\* The invariants of this module and of the modules it rests on.
LedgerInv == TypeInv /\ AheadInv /\ SaveInv /\ BooksInv

\* They hold throughout a collection in which no save is interrupted.
LEMMA LedgerInvariant ==
  ASSUME MaxSaveDeaths = 0
  PROVE  Spec => []LedgerInv
<1>1. Init => LedgerInv
  BY TypeInit, AheadInit, SaveInit, BooksInit DEF LedgerInv
<1>2. LedgerInv /\ [Next]_vars => LedgerInv'
  <2> SUFFICES ASSUME LedgerInv, [Next]_vars PROVE LedgerInv'
    OBVIOUS
  <2>1. TypeInv' /\ AheadInv'
    <3>1. CASE UNCHANGED vars
      BY <3>1 DEF TypeInv, TypeOK, vars, datasetVars, childVars, collectorVars, DatasetTypeOK,
                  ChildTypeOK, CollTypeOK, PromptKnown, AheadInv, NextAttempt, Forward, LedgerInv
    <3> QED BY <3>1, CollectorStepType, AheadStep DEF LedgerInv
  <2>2. SaveInv' /\ BooksInv'
    <3>1. Die => child.stage \in EarlyStages
      BY DieSaves DEF LedgerInv
    <3>2. Die => child.stage # "episodes"
      BY <3>1 DEF EarlyStages
    <3> QED BY <3>1, <3>2, SaveStep, BooksStep DEF LedgerInv
  <2> QED BY <2>1, <2>2 DEF LedgerInv
<1> QED BY <1>1, <1>2, PTL DEF Spec

(***************************************************************************)
(* As long as no task process dies inside a save, no plan is in the        *)
(* dataset twice: a crash after the episode was listed and before its      *)
(* success was recorded makes the next start refuse, and no second episode *)
(* of the plan is ever collected.                                          *)
(***************************************************************************)
THEOREM NoPlanIsCollectedTwice ==
  ASSUME MaxSaveDeaths = 0
  PROVE  Spec => []NoPlanTwice
<1>1. LedgerInv => NoPlanTwice
  BY DEF LedgerInv, BooksInv
<1> QED BY <1>1, LedgerInvariant, PTL

(***************************************************************************)
(* The metadata row of an episode is at the position of the episode, also  *)
(* when its collector died before the task process wrote it.               *)
(***************************************************************************)
THEOREM MetadataIsInStep ==
  ASSUME MaxSaveDeaths = 0
  PROVE  Spec => []MetadataFollowsEpisodes
<1>1. LedgerInv => MetadataFollowsEpisodes
  BY DEF LedgerInv, BooksInv, MetadataFollows, MetadataFollowsEpisodes
<1> QED BY <1>1, LedgerInvariant, PTL

(***************************************************************************)
(* The manifest lists a plan once, at its episode, and misses no recorded  *)
(* success, wherever between its line and the statistics a crash falls.    *)
(***************************************************************************)
THEOREM ManifestIsTrue ==
  ASSUME MaxSaveDeaths = 0
  PROVE  Spec => []ManifestAgrees
<1>1. LedgerInv => ManifestAgrees
  BY DEF LedgerInv, BooksInv, ManifestFollows, ManifestAgrees, Listing
<1> QED BY <1>1, LedgerInvariant, PTL

(***************************************************************************)
(* A resume is refused only after a crash, and then over one episode, the  *)
(* last of the dataset and complete, that the statistics do not count.     *)
(***************************************************************************)
THEOREM RefusalsAreExplained ==
  ASSUME MaxSaveDeaths = 0
  PROVE  Spec => []RefusalHasACause
<1>1. LedgerInv => RefusalHasACause
  <2> SUFFICES ASSUME LedgerInv, coll.pc = "refused"
               PROVE  /\ crashes > 0
                      /\ Len(Rows) = Cardinality(Succeeded(stats)) + 1
                      /\ HoldsData(Len(Rows) - 1, Rows[Len(Rows)])
    BY DEF RefusalHasACause
  <2>1. crashes > 0 /\ Len(Rows) = Cardinality(Succeeded(stats)) + 1
    BY DEF LedgerInv, BooksInv, VerdictTrue
  <2>2. Len(Rows) \in Nat \ {0}
    <3>1. IsFiniteSet(Succeeded(stats)) /\ Cardinality(Succeeded(stats)) \in Nat
      BY RowsCountPlans, RecordedAreCommitted, FS_Subset, FS_CardinalityType
         DEF LedgerInv, BooksInv
    <3> QED BY <2>1, <3>1
  <2>3. HoldsData(Len(Rows) - 1, Rows[Len(Rows)])
    <3>1. HoldsData(Len(Rows) - 1, Row(Len(Rows) - 1))
      BY <2>2 DEF LedgerInv, SaveInv, RowsHeld
    <3>2. Row(Len(Rows) - 1) = Rows[Len(Rows)]
      BY <2>2 DEF Row
    <3> QED BY <3>1, <3>2
  <2> QED BY <2>1, <2>3
<1> QED BY <1>1, LedgerInvariant, PTL

-----------------------------------------------------------------------------
(* The split ranges. *)

\* A set of natural numbers that is not empty has a least element.
LEMMA LeastNatural ==
  ASSUME NEW T \in SUBSET Nat, T # {}
  PROVE  \E m \in T : \A k \in T : m <= k
<1> DEFINE R == {ss \in Nat \X Nat : ss[1] < ss[2]}
<1>1. IsWellFoundedOn(R, Nat)
  BY NatLessThanWellFounded DEF OpToRel
<1> HIDE DEF R
<1>2. PICK x \in T : \A y \in T : ~ (<<y, x>> \in R)
  BY <1>1, WFMin
<1>3. \A y \in T : x <= y
  <2> SUFFICES ASSUME NEW y \in T, y < x PROVE FALSE
    BY SMT
  <2>1. <<y, x>> \in R
    BY DEF R
  <2> QED BY <1>2, <2>1
<1> QED BY <1>3

\* Occurrences of sets of splits add up, and grow with the set.
LEMMA OccurrencesCount ==
  ASSUME NEW n \in Nat, NEW seq, DOMAIN seq = 1 .. n, NEW S, NEW T
  PROVE  /\ Occurrences(seq, S) \in Nat
         /\ S \subseteq T => Occurrences(seq, S) <= Occurrences(seq, T)
         /\ S \cap T = {} =>
              Occurrences(seq, S \cup T) = Occurrences(seq, S) + Occurrences(seq, T)
<1> DEFINE At(U) == {k \in DOMAIN seq : seq[k] \in U}
<1>1. \A U : IsFiniteSet(At(U)) /\ Cardinality(At(U)) \in Nat
  <2> TAKE U
  <2>1. IsFiniteSet(1 .. n)
    BY IntervalCounts
  <2>2. At(U) \in SUBSET (1 .. n)
    OBVIOUS
  <2>3. IsFiniteSet(At(U))
    BY <2>1, <2>2, FS_Subset
  <2> QED BY <2>3, FS_CardinalityType
<1>2. S \subseteq T => Cardinality(At(S)) <= Cardinality(At(T))
  <2> SUFFICES ASSUME S \subseteq T PROVE Cardinality(At(S)) <= Cardinality(At(T))
    OBVIOUS
  <2>1. At(S) \in SUBSET At(T)
    OBVIOUS
  <2> HIDE DEF At
  <2> QED BY <1>1, <2>1, FS_Subset
<1>3. S \cap T = {} => Cardinality(At(S \cup T)) = Cardinality(At(S)) + Cardinality(At(T))
  <2> SUFFICES ASSUME S \cap T = {}
               PROVE  Cardinality(At(S \cup T)) = Cardinality(At(S)) + Cardinality(At(T))
    OBVIOUS
  <2>1. At(S \cup T) = At(S) \cup At(T) /\ At(S) \cap At(T) = {}
    OBVIOUS
  <2> HIDE DEF At
  <2>2. Cardinality(At(S) \cup At(T))
          = Cardinality(At(S)) + Cardinality(At(T)) - Cardinality(At(S) \cap At(T))
    BY <1>1, FS_Union
  <2>3. Cardinality({}) = 0
    BY FS_EmptySet
  <2>4. Cardinality(At(S)) \in Nat /\ Cardinality(At(T)) \in Nat
    BY <1>1
  <2>5. Cardinality(At(S \cup T)) = Cardinality(At(S) \cup At(T))
    BY <2>1
  <2>6. Cardinality(At(S) \cap At(T)) = 0
    BY <2>1, <2>3
  <2> QED BY <2>2, <2>4, <2>5, <2>6
<1> QED BY <1>1, <1>2, <1>3 DEF Occurrences

\* Of two splits one is earlier, and what is earlier than it is earlier still.
LEMMA SplitsAreOrdered ==
  ASSUME NEW sp \in Split, NEW other \in Split, sp # other
  PROVE  \/ sp \in Earlier(other) /\ Earlier(sp) \subseteq Earlier(other)
         \/ other \in Earlier(sp) /\ Earlier(other) \subseteq Earlier(sp)
<1> DEFINE Places(x) == {k \in DOMAIN SplitOrder : SplitOrder[k] = x}
<1>1. DOMAIN SplitOrder = 1 .. Len(SplitOrder) /\ Len(SplitOrder) \in Nat
  BY CollectorAssumption, LenProperties
<1>2. \A x \in Split : \E a \in Places(x) : \A k \in Places(x) : a <= k
  <2> TAKE x \in Split
  <2>1. Places(x) \in SUBSET Nat /\ Places(x) # {}
    BY <1>1 DEF Split
  <2> HIDE DEF Places
  <2> QED BY <2>1, LeastNatural
<1>3. ASSUME NEW x, NEW y, NEW a \in Places(x), NEW b \in Places(y), a < b,
             \A k \in Places(x) : a <= k, \A k \in Places(y) : b <= k
      PROVE  x \in Earlier(y) /\ Earlier(x) \subseteq Earlier(y)
  <2>1. \A i \in 1 .. a : SplitOrder[i] # y
    BY <1>1, <1>3
  <2>2. x \in Earlier(y)
    BY <1>1, <1>3, <2>1 DEF Earlier
  <2>3. ASSUME NEW k \in DOMAIN SplitOrder, \A i \in 1 .. k : SplitOrder[i] # x
        PROVE  \A i \in 1 .. k : SplitOrder[i] # y
    <3>1. k < a
      BY <1>1, <1>3, <2>3
    <3> QED BY <1>1, <1>3, <2>1, <3>1
  <2> QED BY <2>2, <2>3 DEF Earlier
<1>4. PICK a \in Places(sp) : \A k \in Places(sp) : a <= k
  BY <1>2
<1>5. PICK b \in Places(other) : \A k \in Places(other) : b <= k
  BY <1>2
<1>6. a \in Nat /\ b \in Nat /\ a # b
  BY <1>1
<1> HIDE DEF Places
<1>7. CASE a < b
  BY <1>3, <1>4, <1>5, <1>7
<1>8. CASE b < a
  BY <1>3, <1>4, <1>5, <1>8
<1> QED BY <1>6, <1>7, <1>8

\* What a range is made of.
LEMMA RangeBounds ==
  ASSUME NEW seq, NEW sp
  PROVE  /\ RangeIn(seq, sp)[1] = Occurrences(seq, Earlier(sp))
         /\ RangeIn(seq, sp)[2]
              = Occurrences(seq, Earlier(sp)) + Occurrences(seq, {sp})
BY DEF RangeIn

\* A range ends before the range of any later split starts.
LEMMA RangesAreDisjoint ==
  ASSUME NEW n \in Nat, NEW seq, DOMAIN seq = 1 .. n,
         NEW sp \in Split, NEW other \in Split, sp # other
  PROVE  /\ RangeIn(seq, sp)[1] \in Nat /\ RangeIn(seq, sp)[2] \in Nat
         /\ \/ RangeIn(seq, sp)[2] <= RangeIn(seq, other)[1]
            \/ RangeIn(seq, other)[2] <= RangeIn(seq, sp)[1]
<1> DEFINE occ(S) == Occurrences(seq, S)
<1>1. \A S, T : /\ occ(S) \in Nat
                /\ S \subseteq T => occ(S) <= occ(T)
                /\ S \cap T = {} => occ(S \cup T) = occ(S) + occ(T)
  BY OccurrencesCount
<1>2. \A x : /\ RangeIn(seq, x)[1] = occ(Earlier(x))
            /\ RangeIn(seq, x)[2] = occ(Earlier(x)) + occ({x})
  BY RangeBounds
<1> HIDE DEF occ
<1>3. ASSUME NEW x, NEW y, x \in Split, x \in Earlier(y), Earlier(x) \subseteq Earlier(y)
      PROVE  RangeIn(seq, x)[2] <= RangeIn(seq, y)[1]
  <2>1. Earlier(x) \cap {x} = {}
    <3>1. DOMAIN SplitOrder = 1 .. Len(SplitOrder) /\ Len(SplitOrder) \in Nat
      BY CollectorAssumption, LenProperties
    <3> QED BY <3>1 DEF Earlier
  <2>2. Earlier(x) \cup {x} \subseteq Earlier(y)
    BY <1>3
  <2>3. occ(Earlier(x) \cup {x}) = occ(Earlier(x)) + occ({x})
    BY <1>1, <2>1
  <2>4. occ(Earlier(x) \cup {x}) <= occ(Earlier(y))
    BY <1>1, <2>2
  <2>5. /\ RangeIn(seq, x)[2] = occ(Earlier(x)) + occ({x})
        /\ RangeIn(seq, y)[1] = occ(Earlier(y))
    BY <1>2
  <2> QED BY <2>3, <2>4, <2>5
<1>4. RangeIn(seq, sp)[1] \in Nat /\ RangeIn(seq, sp)[2] \in Nat
  <2>1. occ(Earlier(sp)) \in Nat /\ occ({sp}) \in Nat
    BY <1>1
  <2>2. /\ RangeIn(seq, sp)[1] = occ(Earlier(sp))
        /\ RangeIn(seq, sp)[2] = occ(Earlier(sp)) + occ({sp})
    BY <1>2
  <2> QED BY <2>1, <2>2
<1> QED BY <1>3, <1>4, SplitsAreOrdered

\* A place of a contiguous sequence is in the range of its own split, and in no other.
LEMMA RangesLocate ==
  ASSUME NEW n \in Nat, NEW seq, DOMAIN seq = 1 .. n, \A k \in 1 .. n : seq[k] \in Split,
         Contiguous(seq), NEW i \in 0 .. n - 1, NEW sp \in Split
  PROVE  (RangeIn(seq, sp)[1] <= i /\ i < RangeIn(seq, sp)[2]) <=> seq[i + 1] = sp
<1> DEFINE own == seq[i + 1]
<1>1. i + 1 \in DOMAIN seq /\ own \in Split
  OBVIOUS
<1>2. RangeIn(seq, own)[1] < i + 1 /\ i + 1 <= RangeIn(seq, own)[2]
  BY <1>1 DEF Contiguous
<1>3. CASE sp # own
  <2>1. /\ RangeIn(seq, sp)[1] \in Nat /\ RangeIn(seq, sp)[2] \in Nat
        /\ \/ RangeIn(seq, sp)[2] <= RangeIn(seq, own)[1]
           \/ RangeIn(seq, own)[2] <= RangeIn(seq, sp)[1]
    BY <1>1, <1>3, RangesAreDisjoint
  <2>2. RangeIn(seq, own)[1] \in Nat /\ RangeIn(seq, own)[2] \in Nat
    BY <1>1, <1>3, RangesAreDisjoint
  <2> QED BY <1>2, <1>3, <2>1, <2>2
<1>4. CASE sp = own
  <2>1. RangeIn(seq, own)[1] \in Nat /\ RangeIn(seq, own)[2] \in Nat
    <3>1. /\ Occurrences(seq, Earlier(own)) \in Nat
          /\ Occurrences(seq, {own}) \in Nat
      BY OccurrencesCount
    <3>2. /\ RangeIn(seq, own)[1] = Occurrences(seq, Earlier(own))
          /\ RangeIn(seq, own)[2]
               = Occurrences(seq, Earlier(own)) + Occurrences(seq, {own})
      BY RangeBounds
    <3> HIDE DEF own
    <3> QED BY <3>1, <3>2
  <2> QED BY <1>2, <1>4, <2>1
<1> QED BY <1>3, <1>4

\* Ranges counted from metadata that is in step with the rows hold every episode in the
\* range of its own split and in no other.
LEMMA RangesSeparate ==
  ASSUME TypeInv, NEW S \in SUBSET Split,
         Len(metadata) = Len(Rows),
         \A k \in DOMAIN metadata : metadata[k].save = Rows[k],
         Contiguous(RowSplits(metadata)),
         info.ranges = RangesIn(RowSplits(metadata), S)
  PROVE  SplitsTrue
<1> DEFINE seq == RowSplits(metadata)
<1>1. Contiguous(seq) /\ info.ranges = [sp \in S |-> RangeIn(seq, sp)]
  BY DEF RangesIn
<1>2. /\ DOMAIN metadata = 1 .. Len(Rows) /\ Len(Rows) \in Nat
      /\ \A k \in 1 .. Len(Rows) : metadata[k].save = Rows[k]
  BY BookShapes
<1>3. /\ DOMAIN seq = 1 .. Len(Rows)
      /\ \A k \in 1 .. Len(Rows) : seq[k] = SplitOf[Rows[k].plan] /\ seq[k] \in Split
  <2>1. \A k \in 1 .. Len(Rows) : Rows[k].plan \in Plan
    BY RowPlans, Shapes
  <2> QED BY <1>2, <2>1, CollectorAssumption DEF RowSplits
<1> HIDE DEF seq
<1> SUFFICES ASSUME NEW i \in 0 .. Len(Rows) - 1, NEW sp \in S
             PROVE  (RangeIn(seq, sp)[1] <= i /\ i < RangeIn(seq, sp)[2])
                      <=> SplitOf[Row(i).plan] = sp
  BY <1>1 DEF SplitsTrue
<1>4. i + 1 \in 1 .. Len(Rows) /\ seq[i + 1] = SplitOf[Row(i).plan]
  BY <1>2, <1>3 DEF Row
<1> QED BY <1>1, <1>2, <1>3, <1>4, RangesLocate

(***************************************************************************)
(* Once the randomized collector is complete, every episode lies in the    *)
(* range of its own split and in no other, and the splits file says the    *)
(* same as info.json: the ranges are counted from metadata rows, which are *)
(* in step with the episodes.                                              *)
(***************************************************************************)
THEOREM RandomizedSplitsAreTrue ==
  ASSUME MaxSaveDeaths = 0
  PROVE  Spec => []RandomizedSplitsTrue
<1>1. LedgerInv => RandomizedSplitsTrue
  <2> SUFFICES ASSUME LedgerInv, kind = "randomized", Finalized
               PROVE  SplitsTrue /\ splits = info.ranges
    BY DEF RandomizedSplitsTrue
  <2> DEFINE seq == RowSplits(metadata)
             counted == {seq[k] : k \in DOMAIN seq}
  <2>1. /\ Contiguous(seq) /\ splits = info.ranges
        /\ info.ranges = RangesIn(seq, counted)
    BY DEF LedgerInv, BooksInv, RangesFollow, FinalRanges, CountedSplits, RangedSplits
  <2>2. Len(metadata) = Len(Rows)
    <3>1. ~ Live
      BY DEF LedgerInv, BooksInv, Attended, Finalized
    <3> QED BY <3>1 DEF LedgerInv, BooksInv, MetadataFollows, KeepsMetadata, Live, SaveStages
  <2>3. \A k \in DOMAIN metadata : metadata[k] = [save |-> Rows[k], index |-> k - 1]
    BY DEF LedgerInv, BooksInv, MetadataFollows, KeepsMetadata
  <2>4. \A k \in DOMAIN metadata : metadata[k].save = Rows[k]
    BY <2>3
  <2>5. counted \in SUBSET Split
    <3>1. \A k \in DOMAIN metadata : Rows[k].plan \in Plan
      BY <2>2, RowPlans, Shapes, BookShapes DEF LedgerInv
    <3> QED BY <2>4, <3>1, CollectorAssumption DEF RowSplits
  <2> HIDE DEF seq
  <2> QED BY <2>1, <2>2, <2>4, <2>5, RangesSeparate DEF LedgerInv, seq
<1> QED BY <1>1, LedgerInvariant, PTL

-----------------------------------------------------------------------------
(* The ledger. *)

Log == [k \in DOMAIN Rows |-> Rows[k].plan]
Complete == coll.pc = "complete"

\* The commits of the ledger are the plans in the rows.
LEMMA CommitsAreRows ==
  /\ Ledger!Committed = CommittedPlans
  /\ Ledger!Plan = Plan
BY DEF Ledger!Committed, CommittedPlans, Ledger!Plan, Plan

\* A row more is a commit more.
LEMMA LogGrows ==
  ASSUME TypeInv, NEW s \in Save, Rows' = Append(Rows, s)
  PROVE  Log' = Append(Log, s.plan)
<1>1. /\ DOMAIN Rows = 1 .. Len(Rows) /\ Len(Rows) \in Nat
      /\ DOMAIN Rows' = 1 .. Len(Rows) + 1
      /\ Rows'[Len(Rows) + 1] = s
      /\ \A k \in 1 .. Len(Rows) : Rows'[k] = Rows[k]
  BY Shapes, AppendProperties, LenProperties
<1>2. Log \in Seq(Plan) /\ Len(Log) = Len(Rows)
  <2>1. Log \in [1 .. Len(Rows) -> Plan]
    BY <1>1, RowPlans DEF Log
  <2>2. Log \in Seq(Plan)
    BY <1>1, <2>1, SeqDef
  <2> QED BY <1>1, <2>1, <2>2, LenProperties
<1>3. s.plan \in Plan
  BY DEF Save
<1>4. /\ Append(Log, s.plan) \in Seq(Plan)
      /\ Len(Append(Log, s.plan)) = Len(Rows) + 1
      /\ \A k \in 1 .. Len(Rows) : Append(Log, s.plan)[k] = Log[k]
      /\ Append(Log, s.plan)[Len(Rows) + 1] = s.plan
  BY <1>2, <1>3, AppendProperties
<1>5. Log' \in Seq(Plan) /\ Len(Log') = Len(Rows) + 1
  <2>1. Log' \in [1 .. Len(Rows) + 1 -> Plan]
    BY <1>1, <1>3, RowPlans DEF Log
  <2>2. Log' \in Seq(Plan)
    BY <1>1, <2>1, SeqDef
  <2> QED BY <1>1, <2>1, <2>2, LenProperties
<1>6. \A k \in 1 .. Len(Rows) + 1 : Log'[k] = Append(Log, s.plan)[k]
  BY <1>1, <1>4 DEF Log
<1> QED BY <1>4, <1>5, <1>6, SeqEqual

LedgerStep == [Ledger!Next]_<<Log, Succeeded(stats), Complete>>

\* The task process commits when it lists its episode, and only then.
LEMMA ChildLedger ==
  ASSUME TypeInv, SaveInv, BooksInv, MaxSaveDeaths = 0, ChildStep
  PROVE  LedgerStep
<1>1. UNCHANGED <<coll, stats, kind, collectorVars>>
  BY DEF ChildStep, collectorVars
<1>2. UNCHANGED <<Succeeded(stats), Complete>>
  BY <1>1 DEF Succeeded, Complete
<1>3. CASE SaveEpisodes
  <2>1. /\ Rows' = Append(Rows, child.save) /\ coll.pc \in {"wait", "crashed"}
        /\ child.save.plan \in Plan \ CommittedPlans
        /\ CommittedPlans \subseteq Succeeded(stats)
    BY <1>1, <1>3, EpisodesBooks
  <2>2. Log' = Append(Log, child.save.plan)
    BY <2>1, Shapes, LogGrows
  <2>3. Succeeded(stats) = CommittedPlans /\ ~ Complete
    BY <2>1, RecordedAreCommitted DEF Complete
  <2>4. PICK p \in Plan : p = child.save.plan
    BY <2>1
  <2>5. Ledger!Commit(p)
    BY <1>2, <2>1, <2>2, <2>3, <2>4, CommitsAreRows DEF Ledger!Commit, Log, Complete
  <2> QED BY <2>5, CommitsAreRows DEF LedgerStep, Ledger!Next
<1>4. CASE ~ SaveEpisodes
  <2>1. UNCHANGED episodes
    BY <1>4 DEF ChildStep, ChildEarly, ChildSave, CheckSchema, OpenWriter, RolloutFails,
       RolloutSucceeds, SaveParquet, SaveVideo, SaveInfo, SaveTasks, SaveSchema,
       SaveMetadataRow, ExitSuccess, LoadExistingState, WriteParquet, WriteVideo, WriteInfo,
       WriteTasks, datasetVars
  <2>2. UNCHANGED Log
    BY <2>1 DEF Log, Rows
  <2> QED BY <1>2, <2>2 DEF LedgerStep
<1> QED BY <1>3, <1>4

\* The collector acknowledges when it writes the statistics.
LEMMA StatsLedger ==
  ASSUME TypeInv, SaveInv, BooksInv, WriteStats
  PROVE  LedgerStep
<1>1. /\ coll.pc = "stats" /\ coll'.pc = "loop" /\ stats' = mem /\ UNCHANGED Rows
  BY BookShapes, BookkeepingUnchanged DEF WriteStats, GoTo
<1>2. /\ coll.plan \in Plan /\ ~ stats[coll.plan].success
      /\ \A p \in Plan \ {coll.plan} : mem[p] = stats[p]
  BY <1>1, BookShapes DEF BooksInv, MemoryAhead
<1>3. UNCHANGED <<Log, Complete>>
  BY <1>1 DEF Log, Complete
<1>4. CASE mem[coll.plan].success
  <2>1. Succeeded(stats)' = Succeeded(stats) \cup {coll.plan}
    BY <1>1, <1>2, <1>4 DEF Succeeded
  <2>2. coll.plan \in CommittedPlans \ Succeeded(stats)
    <3>1. IsRow(coll.plan, mem[coll.plan])
      BY <1>2, <1>4 DEF SaveInv, RecordsTrue
    <3>2. /\ mem[coll.plan].index + 1 \in DOMAIN Rows
          /\ Rows[mem[coll.plan].index + 1].plan = coll.plan
      BY <3>1, Shapes DEF IsRow, Row
    <3> QED BY <1>2, <3>2 DEF CommittedPlans, Succeeded
  <2>3. Ledger!Ack(coll.plan)
    BY <1>3, <2>1, <2>2, CommitsAreRows DEF Ledger!Ack, Log, Complete
  <2> QED BY <1>2, <2>3, CommitsAreRows DEF LedgerStep, Ledger!Next
<1>5. CASE ~ mem[coll.plan].success
  <2>1. UNCHANGED Succeeded(stats)
    BY <1>1, <1>2, <1>5 DEF Succeeded
  <2> QED BY <1>3, <2>1 DEF LedgerStep
<1> QED BY <1>4, <1>5

\* It declares the collection complete when all plans are acknowledged.
LEMMA FinishLedger ==
  ASSUME TypeInv, BooksInv, EndLoop \/ FinalizeSplits
  PROVE  LedgerStep
<1>1. UNCHANGED <<Rows, stats>>
  BY BookkeepingUnchanged DEF EndLoop, FinalizeSplits
<1>2. UNCHANGED <<Log, Succeeded(stats)>>
  BY <1>1 DEF Log, Succeeded
<1>3. coll'.pc = "complete" => Succeeded(stats) = Plan
  <2>1. CASE EndLoop
    <3>1. mem = stats
      BY <2>1, LoopBooks DEF EndLoop
    <3> QED BY <2>1, <3>1, BookShapes DEF EndLoop, GoTo
  <2>2. CASE FinalizeSplits
    BY <2>2 DEF FinalizeSplits, BooksInv, VerdictTrue
  <2> QED BY <2>1, <2>2
<1>4. coll.pc # "complete"
  BY DEF EndLoop, FinalizeSplits
<1>5. CASE coll'.pc = "complete"
  <2>1. Ledger!Complete
    BY <1>2, <1>3, <1>5, CommitsAreRows DEF Ledger!Complete, Log, Complete
  <2> QED BY <2>1 DEF LedgerStep, Ledger!Next
<1>6. CASE coll'.pc # "complete"
  BY <1>2, <1>4, <1>6 DEF LedgerStep, Complete
<1> QED BY <1>5, <1>6

\* A complete collection is reopened when the command is run again.
LEMMA StartLedger ==
  ASSUME TypeInv, Operator
  PROVE  LedgerStep
<1> PICK budget \in Budgets, defer \in BOOLEAN : Start(budget, defer)
  BY DEF Operator
<1>1. UNCHANGED <<Rows, stats>> /\ coll'.pc # "complete"
  BY BookShapes, BookkeepingUnchanged DEF Start
<1>2. UNCHANGED <<Log, Succeeded(stats)>>
  BY <1>1 DEF Log, Succeeded
<1>3. CASE coll.pc = "complete"
  <2>1. Ledger!Reopen
    BY <1>1, <1>2, <1>3 DEF Ledger!Reopen, Log, Complete
  <2> QED BY <2>1 DEF LedgerStep, Ledger!Next
<1>4. CASE coll.pc # "complete"
  BY <1>1, <1>2, <1>4 DEF LedgerStep, Complete
<1> QED BY <1>3, <1>4

\* No other step is one of the ledger.
LEMMA OtherLedger ==
  ASSUME TypeInv, SaveInv, MaxSaveDeaths = 0,
         \/ Spawn \/ Reap \/ Timeout \/ AppendManifest \/ FinalizeInfo
         \/ CrashAlone \/ CrashTogether \/ OrphanDies \/ UNCHANGED vars
  PROVE  LedgerStep
<1>1. UNCHANGED <<episodes, stats>>
  <2>1. CASE Timeout \/ CrashTogether \/ OrphanDies
    BY <2>1, DieSaves DEF Timeout, CrashTogether, OrphanDies, Crash, collectorVars
  <2>2. CASE Spawn \/ Reap \/ AppendManifest \/ FinalizeInfo \/ CrashAlone \/ UNCHANGED vars
    BY <2>2 DEF Spawn, Reap, AppendManifest, FinalizeInfo, CrashAlone, Crash, vars,
                DatasetUnchanged, datasetVars, collectorVars
  <2> QED BY <2>1, <2>2
<1>2. UNCHANGED <<Log, Succeeded(stats)>>
  BY <1>1 DEF Log, Rows, Succeeded
<1>3. UNCHANGED Complete
  <2>1. \/ UNCHANGED coll
        \/ coll.pc # "complete" /\ coll'.pc # "complete"
    BY BookShapes DEF Spawn, Reap, Timeout, AppendManifest, FinalizeInfo, CrashAlone,
       CrashTogether, OrphanDies, Crash, GoTo, Running, collectorVars, vars
  <2> QED BY <2>1 DEF Complete
<1> QED BY <1>2, <1>3 DEF LedgerStep

(***************************************************************************)
(* As long as no task process dies inside a save, the collection is its    *)
(* ledger: listing an episode commits a plan that was never committed      *)
(* while no commit is pending, writing the statistics acknowledges it, and *)
(* a collection that says it is complete has every plan acknowledged; no   *)
(* timeout, crash or restart is anything to the ledger.                    *)
(***************************************************************************)
THEOREM CollectionImplementsLedger ==
  ASSUME MaxSaveDeaths = 0
  PROVE  Spec => RefinesLedger
<1>1. Init => Ledger!Init
  <2> SUFFICES ASSUME Init PROVE Ledger!Init
    OBVIOUS
  <2>1. Rows = << >> /\ coll.pc = "idle" /\ \A p \in Plan : ~ stats[p].success
    BY DEF Init, DatasetInit, NoRows, Rows
  <2> QED BY <2>1 DEF Ledger!Init, Succeeded
<1>2. LedgerInv /\ [Next]_vars => LedgerStep
  BY ChildLedger, StatsLedger, FinishLedger, StartLedger, OtherLedger
     DEF LedgerInv, Next, CollectorStep, Done
<1>3. LedgerInv /\ [Next]_vars
        => [Ledger!Next]_<<[k \in DOMAIN Rows |-> Rows[k].plan], Succeeded(stats),
                           coll.pc = "complete">>
  BY <1>2 DEF LedgerStep, Log, Complete
<1> QED BY <1>1, <1>3, LedgerInvariant, PTL DEF Spec, RefinesLedger, Ledger!Spec
=============================================================================
