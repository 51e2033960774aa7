----------------------------- MODULE BlockProofs -----------------------------
(***************************************************************************)
(* When the counters of the block collector and its dataset part, for any  *)
(* number of configurations, cameras, tries, starts, crashes and deaths.   *)
(* Both properties of BlockCollector follow from one inductive invariant.  *)
(***************************************************************************)
EXTENDS BlockCollector, SequenceTheorems, FiniteSetTheorems, TLAPS

Rows == episodes.rows
Rollout == [plan : Plan, attempt : Nat]
Tally == [success : Nat, fail : Nat, offset : Nat]
\* A block task keeps neither schema nor metadata.
BlockStages == {"none", "load", "rollout", "parquet", "video", "info", "episodes",
                "tasks", "exit", "exited"}

TypeInv ==
  /\ kind = "transport"
  /\ episodes \in [exists : BOOLEAN, rows : Seq(Rollout), torn : BOOLEAN]
  /\ writer = [index |-> writer.index, rows |-> writer.rows, tasks |-> writer.tasks]
  /\ writer.rows \in Seq(Rollout)
  /\ child \in [stage : BlockStages, save : Rollout, cam : Camera, ok : BOOLEAN]
  /\ deaths \in Seq(SaveStages)
  /\ coll \in [pc : Stopped \cup {"loop", "wait", "stats"}, config : Plan, tries : Nat]
  /\ mem \in [Config -> Tally]
  /\ counts # TornCounts => counts \in [Config -> Tally]
  /\ marker \in BOOLEAN
  /\ raised \in Nat
  /\ crashes \in Nat

\* The rows of the writer and the rows on disk, before the rewrite.
WriterInv ==
  /\ child.stage \in {"rollout", "parquet", "video"} => writer.rows = Rows
  /\ child.stage \in {"info", "episodes"} => writer.rows = Append(Rows, child.save)

\* The task process is that of the try in progress, unless the collector crashed,
\* and has printed its marker once it saves.
ChildInv ==
  /\ coll.pc = "wait" =>
       child.save = [plan |-> coll.config, attempt |-> mem[coll.config].offset + 1]
  /\ Live => coll.pc \in {"wait", "crashed"}
  /\ coll.pc = "crashed" => crashes > 0
  /\ child.stage \in EarlyStages => ~ marker
  /\ child.stage \in SaveStages => marker
  /\ coll.pc = "wait" /\ child.stage = "exited" /\ child.ok => marker

\* Only a crash loses what the collector has in memory.
CountsInv == crashes = 0 /\ coll.pc # "stats" => counts = mem

\* The rows are rewritten.
Late == child.stage \in {"tasks", "exit", "exited"}

\* The seed is past that of every row but the one being saved.
SeedInv ==
  crashes = 0 =>
    /\ \A k \in DOMAIN Rows :
         \/ Rows[k].attempt <= mem[Rows[k].plan].offset
         \/ coll.pc = "wait" /\ Late /\ Rows[k] = child.save
    /\ \A j, k \in DOMAIN Rows : Rows[j] = Rows[k] => j = k

\* What is counted is in the dataset.
CountedInv ==
  raised = 0 /\ ~ DiedIn({"episodes"}) =>
    /\ \A c \in Config : mem[c].success <= EpisodesOf(c)
    /\ counts # TornCounts => \A c \in Config : counts[c].success <= EpisodesOf(c)
    /\ coll.pc = "wait" /\ marker /\ Late =>
         mem[coll.config].success + 1 <= EpisodesOf(coll.config)

\* The episode of the try in progress is listed, and the try may still count.
Pending(c) ==
  /\ c = coll.config /\ coll.pc = "wait"
  /\ child.stage \in {"tasks", "exit"} \/ (child.stage = "exited" /\ child.ok)

\* What is in the dataset is counted.
KnownInv ==
  crashes = 0 /\ ~ DiedIn({"tasks", "exit"}) =>
    \A c \in Config : EpisodesOf(c) <= mem[c].success + (IF Pending(c) THEN 1 ELSE 0)

Inv ==
  /\ TypeInv /\ WriterInv /\ ChildInv /\ CountsInv
  /\ SeedInv /\ CountedInv /\ KnownInv

-----------------------------------------------------------------------------
(* Rows and their number. *)

\* The rows of a configuration.
Of(rows, c) == {k \in DOMAIN rows : rows[k].plan = c}

\* They are finitely many.
LEMMA FiniteRows ==
  ASSUME NEW s \in Seq(Rollout), NEW c
  PROVE  IsFiniteSet(Of(s, c)) /\ Cardinality(Of(s, c)) \in Nat
<1>1. DOMAIN s = 1 .. Len(s) /\ Len(s) \in Nat
  BY LenProperties
<1>2. IsFiniteSet(1 .. Len(s))
  BY <1>1, FS_Interval
<1>3. Of(s, c) \in SUBSET (1 .. Len(s))
  BY <1>1 DEF Of
<1>4. IsFiniteSet(Of(s, c))
  BY <1>2, <1>3, FS_Subset
<1> QED BY <1>4, FS_CardinalityType

\* A row more counts for its own configuration.
LEMMA CountAppend ==
  ASSUME NEW s \in Seq(Rollout), NEW x \in Rollout, NEW c
  PROVE  /\ IsFiniteSet(Of(s, c)) /\ Cardinality(Of(s, c)) \in Nat
         /\ Cardinality(Of(Append(s, x), c)) =
              Cardinality(Of(s, c)) + (IF x.plan = c THEN 1 ELSE 0)
<1> DEFINE t == Append(s, x)
           n == Len(s) + 1
<1>1. /\ Len(s) \in Nat /\ DOMAIN s = 1 .. Len(s)
      /\ Len(t) = n /\ DOMAIN t = 1 .. n /\ t[n] = x
      /\ \A i \in 1 .. Len(s) : t[i] = s[i]
  BY AppendProperties, LenProperties
<1> HIDE DEF t
<1>2. IsFiniteSet(Of(s, c)) /\ Cardinality(Of(s, c)) \in Nat
  BY FiniteRows
<1>3. n \notin Of(s, c)
  BY <1>1 DEF Of
<1>4. CASE x.plan = c
  <2>1. Of(t, c) = Of(s, c) \cup {n}
    BY <1>1, <1>4 DEF Of
  <2>2. Cardinality(Of(t, c)) = Cardinality(Of(s, c)) + 1
    <3> HIDE DEF n
    <3> QED BY <1>2, <1>3, <2>1, FS_AddElement
  <2> QED BY <1>2, <1>4, <2>2 DEF t
<1>5. CASE x.plan # c
  <2>1. Of(t, c) = Of(s, c)
    BY <1>1, <1>5 DEF Of
  <2> QED BY <1>2, <1>5, <2>1 DEF t
<1> QED BY <1>4, <1>5

\* What the rows of a dataset are.
LEMMA RowShapes ==
  ASSUME TypeInv
  PROVE  /\ Rows \in Seq(Rollout) /\ Len(Rows) \in Nat /\ DOMAIN Rows = 1 .. Len(Rows)
         /\ \A k \in DOMAIN Rows : Rows[k] \in Rollout
         /\ \A c : EpisodesOf(c) = Cardinality(Of(Rows, c))
         /\ \A c : IsFiniteSet(Of(Rows, c)) /\ EpisodesOf(c) \in Nat
<1>1. Rows \in Seq(Rollout) /\ Len(Rows) \in Nat /\ DOMAIN Rows = 1 .. Len(Rows)
  BY LenProperties DEF TypeInv, Rows
<1>2. \A k \in DOMAIN Rows : Rows[k] \in Rollout
  BY <1>1, ElementOfSeq
<1>3. \A c : EpisodesOf(c) = Cardinality(Of(Rows, c))
  BY DEF EpisodesOf, Of, Rows
<1>4. \A c : IsFiniteSet(Of(Rows, c)) /\ Cardinality(Of(Rows, c)) \in Nat
  BY <1>1, FiniteRows
<1> QED BY <1>1, <1>2, <1>3, <1>4

\* Rows that are cut off count for nobody.
LEMMA CountPrefix ==
  ASSUME NEW s \in Seq(Rollout), NEW t \in Seq(Rollout), Len(t) <= Len(s),
         \A i \in 1 .. Len(t) : t[i] = s[i], NEW c
  PROVE  Cardinality(Of(t, c)) <= Cardinality(Of(s, c)) /\ Cardinality(Of(t, c)) \in Nat
<1>1. /\ Len(s) \in Nat /\ DOMAIN s = 1 .. Len(s)
      /\ Len(t) \in Nat /\ DOMAIN t = 1 .. Len(t)
  BY LenProperties
<1>2. Of(t, c) \in SUBSET Of(s, c)
  BY <1>1 DEF Of
<1> QED BY <1>2, FiniteRows, FS_Subset

\* An empty dataset and a collector that has not started.
LEMMA InvInit == Init => Inv
<1> SUFFICES ASSUME Init PROVE Inv
  OBVIOUS
<1> USE DEF Init, DatasetInit, ChildInit
<1>1. 0 \in Plan /\ 1 \in Camera
  BY WriterAssumption DEF Plan, Camera
<1>2. NoSave \in Rollout
  <2>1. [plan |-> 0, attempt |-> 1] \in Save
    BY <1>1, WriterAssumption DEF Save
  <2>2. NoSave \in Save
    BY <2>1 DEF NoSave
  <2> QED BY <2>2, WriterAssumption DEF Save, Rollout
<1>3. Rows = << >> /\ DOMAIN Rows = {}
  BY EmptySeq DEF Rows, NoRows
<1>4. TypeInv
  <2>1. child \in [stage : BlockStages, save : Rollout, cam : Camera, ok : BOOLEAN]
    BY <1>1, <1>2 DEF NoChild, BlockStages
  <2>2. mem \in [Config -> Tally] /\ counts = mem
    BY DEF Fresh, Tally
  <2>3. episodes \in [exists : BOOLEAN, rows : Seq(Rollout), torn : BOOLEAN]
    BY EmptySeq DEF NoRows
  <2> QED BY <1>1, <2>1, <2>2, <2>3, EmptySeq DEF TypeInv, Stopped
<1>5. WriterInv /\ ChildInv /\ CountsInv
  BY DEF WriterInv, ChildInv, CountsInv, NoChild, Live, EarlyStages, SaveStages
<1>6. SeedInv
  BY <1>3 DEF SeedInv
<1>7. \A c : EpisodesOf(c) = 0
  <2>1. \A c : Of(Rows, c) = {}
    BY <1>3 DEF Of
  <2> QED BY <1>4, <2>1, RowShapes, FS_EmptySet
<1>8. CountedInv /\ KnownInv
  BY <1>7 DEF CountedInv, KnownInv, Fresh, Pending
<1> QED BY <1>4, <1>5, <1>6, <1>8 DEF Inv

-----------------------------------------------------------------------------
(* Steps of the collector. *)

\* A step that leaves the task and the dataset alone.
LEMMA TaskKept ==
  ASSUME TaskUnchanged
  PROVE  /\ Rows' = Rows /\ Live' = Live /\ Late' = Late
         /\ \A c : EpisodesOf(c)' = EpisodesOf(c)
         /\ \A S : DiedIn(S)' = DiedIn(S)
         /\ UNCHANGED <<episodes, writer, child, deaths, kind, marker, raised>>
         /\ WriterInv => WriterInv'
BY DEF TaskUnchanged, datasetVars, childVars, Rows, Live, Late, EpisodesOf, DiedIn, WriterInv

\* The collector starts from the counters on disk.
LEMMA StartStep ==
  ASSUME Inv, Start
  PROVE  Inv'
<1>1. /\ TaskUnchanged /\ UNCHANGED <<counts, crashes>> /\ coll.pc \in Stopped /\ ~ Live
  BY DEF Start
<1>2. /\ coll \in [pc : Stopped \cup {"loop", "wait", "stats"}, config : Plan, tries : Nat]
      /\ 0 \in Plan
  BY WriterAssumption DEF Inv, TypeInv, Plan
<1>3. CASE counts = TornCounts
  <2>1. mem' = mem /\ coll' = [coll EXCEPT !.pc = "unreadable"]
    BY <1>3 DEF Start, GoTo
  <2>2. /\ coll' \in [pc : Stopped \cup {"loop", "wait", "stats"}, config : Plan, tries : Nat]
        /\ coll'.pc = "unreadable"
    BY <1>2, <2>1 DEF Stopped
  <2>3. TypeInv'
    BY <1>1, <2>1, <2>2, TaskKept DEF Inv, TypeInv
  <2>4. ChildInv' /\ CountsInv'
    BY <1>1, <2>1, <2>2, TaskKept DEF Inv, ChildInv, CountsInv, Stopped
  <2>5. SeedInv' /\ CountedInv' /\ KnownInv'
    BY <1>1, <2>1, <2>2, TaskKept
       DEF Inv, SeedInv, CountedInv, KnownInv, Pending, Stopped
  <2> QED BY <2>3, <2>4, <2>5, <1>1, TaskKept DEF Inv
<1>4. CASE counts # TornCounts
  <2>1. mem' = counts /\ coll' = [pc |-> "loop", config |-> 0, tries |-> 0]
    BY <1>4 DEF Start
  <2>2. /\ coll' \in [pc : Stopped \cup {"loop", "wait", "stats"}, config : Plan, tries : Nat]
        /\ coll'.pc = "loop"
    BY <1>2, <2>1
  <2>3. TypeInv'
    BY <1>1, <1>4, <2>1, <2>2, TaskKept DEF Inv, TypeInv
  <2>4. ChildInv' /\ CountsInv'
    BY <1>1, <2>1, <2>2, TaskKept DEF Inv, ChildInv, CountsInv, Live
  <2>5. crashes = 0 => counts = mem
    BY <1>1 DEF Inv, CountsInv, Stopped
  <2>6. coll.pc # "wait" /\ ~ \E c \in Config : Pending(c)
    BY <1>1 DEF Stopped, Pending
  <2>7. SeedInv'
    BY <1>1, <2>1, <2>5, <2>6, TaskKept DEF Inv, SeedInv
  <2>8. CountedInv'
    BY <1>1, <1>4, <2>1, <2>2, TaskKept DEF Inv, CountedInv
  <2>9. KnownInv'
    BY <1>1, <2>1, <2>2, <2>5, <2>6, TaskKept DEF Inv, KnownInv, Pending
  <2> QED BY <2>3, <2>4, <2>7, <2>8, <2>9, <1>1, TaskKept DEF Inv
<1> QED BY <1>3, <1>4

\* The next configuration, or the end of the run; a crash at any point; the
\* counters are written.
LEMMA MoveStep ==
  ASSUME Inv, NextConfig \/ Crash \/ WriteStats
  PROVE  Inv'
<1>1. /\ TaskUnchanged /\ UNCHANGED mem
      /\ coll.pc \notin Stopped
  BY DEF NextConfig, Crash, WriteStats, Stopped
<1>2. /\ coll \in [pc : Stopped \cup {"loop", "wait", "stats"}, config : Plan, tries : Nat]
      /\ crashes \in Nat
  BY DEF Inv, TypeInv
<1>3. CASE NextConfig
  <2>1. /\ coll' \in [pc : Stopped \cup {"loop", "wait", "stats"}, config : Plan, tries : Nat]
        /\ coll'.pc \in {"loop", "done"} /\ coll.pc = "loop"
        /\ UNCHANGED <<counts, crashes>>
    BY <1>2, <1>3 DEF NextConfig, Stopped, Config
  <2>2. TypeInv'
    BY <1>1, <2>1, TaskKept DEF Inv, TypeInv
  <2>3. ChildInv' /\ CountsInv'
    BY <1>1, <2>1, TaskKept DEF Inv, ChildInv, CountsInv
  <2>4. SeedInv' /\ CountedInv' /\ KnownInv'
    BY <1>1, <2>1, TaskKept DEF Inv, SeedInv, CountedInv, KnownInv, Pending
  <2> QED BY <1>1, <2>2, <2>3, <2>4, TaskKept DEF Inv
<1>4. CASE Crash
  <2>1. /\ coll' \in [pc : Stopped \cup {"loop", "wait", "stats"}, config : Plan, tries : Nat]
        /\ coll'.pc = "crashed" /\ crashes' = crashes + 1
        /\ counts' = counts \/ counts' = TornCounts
    BY <1>2, <1>4 DEF Crash, GoTo, Stopped
  <2>2. crashes' \in Nat /\ crashes' # 0 /\ crashes' > 0
    BY <1>2, <2>1
  <2>3. TypeInv'
    BY <1>1, <2>1, <2>2, TaskKept DEF Inv, TypeInv
  <2>4. ChildInv' /\ CountsInv'
    BY <1>1, <2>1, <2>2, TaskKept DEF Inv, ChildInv, CountsInv
  <2>5. SeedInv' /\ KnownInv'
    BY <2>2 DEF SeedInv, KnownInv
  <2>6. CountedInv'
    BY <1>1, <2>1, TaskKept DEF Inv, CountedInv
  <2> QED BY <1>1, <2>3, <2>4, <2>5, <2>6, TaskKept DEF Inv
<1>5. CASE WriteStats
  <2>1. /\ coll' \in [pc : Stopped \cup {"loop", "wait", "stats"}, config : Plan, tries : Nat]
        /\ coll'.pc = "loop" /\ coll.pc = "stats" /\ counts' = mem
        /\ UNCHANGED crashes
    BY <1>2, <1>5 DEF WriteStats, GoTo
  <2>2. TypeInv'
    BY <1>1, <2>1, TaskKept DEF Inv, TypeInv
  <2>3. ChildInv' /\ CountsInv'
    BY <1>1, <2>1, TaskKept DEF Inv, ChildInv, CountsInv
  <2>4. SeedInv' /\ CountedInv' /\ KnownInv'
    BY <1>1, <2>1, TaskKept DEF Inv, SeedInv, CountedInv, KnownInv, Pending
  <2> QED BY <1>1, <2>2, <2>3, <2>4, TaskKept DEF Inv
<1> QED BY <1>3, <1>4, <1>5

\* A try is started at the seed the counters say.
LEMMA SpawnStep ==
  ASSUME Inv, Spawn
  PROVE  Inv'
<1>1. /\ coll.pc = "loop" /\ ~ Live
      /\ coll' = [coll EXCEPT !.pc = "wait", !.tries = coll.tries + 1]
      /\ child' = [stage |-> "load", cam |-> 1, ok |-> FALSE,
                   save |-> [plan |-> coll.config, attempt |-> mem[coll.config].offset + 1]]
      /\ marker' = FALSE
      /\ UNCHANGED <<episodes, writer, deaths, kind, raised, counts, mem, crashes>>
  BY DEF Spawn, datasetVars, Inv, ChildInv
<1>2. /\ coll \in [pc : Stopped \cup {"loop", "wait", "stats"}, config : Plan, tries : Nat]
      /\ mem[coll.config] \in Tally /\ 1 \in Camera
  BY WriterAssumption DEF Inv, TypeInv, Config, Camera
<1>3. /\ coll' \in [pc : Stopped \cup {"loop", "wait", "stats"}, config : Plan, tries : Nat]
      /\ coll'.pc = "wait" /\ coll'.config = coll.config
  <2>1. coll.tries + 1 \in Nat
    BY <1>2
  <2> QED BY <1>1, <1>2, <2>1
<1>4. /\ child' \in [stage : BlockStages, save : Rollout, cam : Camera, ok : BOOLEAN]
      /\ child'.stage = "load"
      /\ child'.save = [plan |-> coll.config, attempt |-> mem[coll.config].offset + 1]
  <2>1. [plan |-> coll.config, attempt |-> mem[coll.config].offset + 1] \in Rollout
    BY <1>2 DEF Tally, Rollout
  <2> QED BY <1>1, <1>2, <2>1 DEF BlockStages
<1>5. TypeInv'
  BY <1>1, <1>3, <1>4 DEF Inv, TypeInv
<1>6. WriterInv' /\ ChildInv' /\ CountsInv'
  BY <1>1, <1>3, <1>4 DEF Inv, WriterInv, ChildInv, CountsInv, EarlyStages, SaveStages
<1>7. /\ Rows' = Rows /\ \A c : EpisodesOf(c)' = EpisodesOf(c)
      /\ \A S : DiedIn(S)' = DiedIn(S)
  BY <1>1 DEF Rows, EpisodesOf, DiedIn
<1>8. SeedInv' /\ CountedInv' /\ KnownInv'
  BY <1>1, <1>3, <1>4, <1>7
     DEF Inv, SeedInv, CountedInv, KnownInv, Pending
<1> QED BY <1>5, <1>6, <1>8 DEF Inv

\* The try is counted by its marker, and the seed moves on.
LEMMA ReapStep ==
  ASSUME Inv, Reap
  PROVE  Inv'
<1> DEFINE c == coll.config
           t == [success |-> IF marker THEN mem[c].success + 1 ELSE mem[c].success,
                 fail    |-> IF marker THEN mem[c].fail ELSE mem[c].fail + 1,
                 offset  |-> mem[c].offset + 1]
<1>1. /\ TaskUnchanged /\ coll.pc = "wait" /\ child.stage = "exited"
      /\ mem' = [mem EXCEPT ![c] = t]
      /\ coll' = [coll EXCEPT !.pc = "stats"] /\ UNCHANGED <<counts, crashes>>
  BY DEF Reap, GoTo
<1>2. /\ coll \in [pc : Stopped \cup {"loop", "wait", "stats"}, config : Plan, tries : Nat]
      /\ c \in Config /\ mem \in [Config -> Tally] /\ mem[c] \in Tally /\ marker \in BOOLEAN
  BY DEF Inv, TypeInv, Config
<1>3. /\ coll' \in [pc : Stopped \cup {"loop", "wait", "stats"}, config : Plan, tries : Nat]
      /\ coll'.pc = "stats"
  BY <1>1, <1>2
<1>4. t \in Tally
  BY <1>2 DEF Tally
<1>5. /\ t.success = IF marker THEN mem[c].success + 1 ELSE mem[c].success
      /\ t.offset = mem[c].offset + 1
  OBVIOUS
<1> HIDE DEF t
<1>6. /\ mem' \in [Config -> Tally] /\ mem'[c] = t
      /\ \A d \in Config \ {c} : mem'[d] = mem[d]
  BY <1>1, <1>2, <1>4
<1>7. TypeInv'
  BY <1>1, <1>3, <1>6, TaskKept DEF Inv, TypeInv
<1>8. ChildInv' /\ CountsInv'
  BY <1>1, <1>3, TaskKept DEF Inv, ChildInv, CountsInv, Live, EarlyStages, SaveStages
<1>9. SeedInv'
  <2> SUFFICES ASSUME crashes = 0, NEW k \in DOMAIN Rows
               PROVE  Rows[k].attempt <= mem'[Rows[k].plan].offset
    BY <1>1, TaskKept DEF Inv, SeedInv
  <2>1. Rows[k] \in Rollout
    BY RowShapes DEF Inv
  <2>2. \A d \in Config : mem[d].offset \in Nat /\ mem[d].offset <= mem'[d].offset
    BY <1>2, <1>5, <1>6 DEF Tally
  <2>3. CASE Rows[k].attempt <= mem[Rows[k].plan].offset
    <3>1. mem'[Rows[k].plan].offset \in Nat
      BY <1>6, <2>1 DEF Rollout, Tally, Config
    <3> QED BY <2>1, <2>2, <2>3, <3>1 DEF Rollout, Config
  <2>4. CASE Rows[k] = child.save
    <3>1. child.save = [plan |-> c, attempt |-> mem[c].offset + 1]
      BY <1>1 DEF Inv, ChildInv
    <3>2. Rows[k].plan = c /\ Rows[k].attempt = mem[c].offset + 1
      BY <2>4, <3>1
    <3> QED BY <1>2, <1>5, <1>6, <3>2 DEF Tally
  <2> QED BY <2>3, <2>4 DEF Inv, SeedInv
<1>10. CountedInv'
  <2> SUFFICES ASSUME raised = 0, ~ DiedIn({"episodes"})
               PROVE  /\ \A d \in Config : mem'[d].success <= EpisodesOf(d)
                      /\ counts # TornCounts => \A d \in Config : counts[d].success <= EpisodesOf(d)
    BY <1>1, <1>3, TaskKept DEF CountedInv
  <2>1. /\ \A d \in Config : mem[d].success <= EpisodesOf(d)
        /\ counts # TornCounts => \A d \in Config : counts[d].success <= EpisodesOf(d)
        /\ marker => mem[c].success + 1 <= EpisodesOf(c)
    BY <1>1 DEF Inv, CountedInv, Late
  <2>2. mem'[c].success <= EpisodesOf(c)
    BY <1>2, <1>5, <1>6, <2>1
  <2> QED BY <1>6, <2>1, <2>2
<1>11. KnownInv'
  <2> SUFFICES ASSUME crashes = 0, ~ DiedIn({"tasks", "exit"}), NEW d \in Config
               PROVE  EpisodesOf(d) <= mem'[d].success + 0
    BY <1>1, <1>3, TaskKept DEF KnownInv, Pending
  <2>1. EpisodesOf(d) <= mem[d].success + (IF Pending(d) THEN 1 ELSE 0)
    BY DEF Inv, KnownInv
  <2>2. Pending(d) => d = c /\ marker
    BY <1>1 DEF Pending, Inv, ChildInv
  <2>3. EpisodesOf(d) \in Nat /\ mem[d].success \in Nat
    BY <1>2, RowShapes DEF Inv, Tally
  <2>4. CASE d = c
    BY <1>5, <1>6, <2>1, <2>2, <2>3, <2>4
  <2>5. CASE d # c
    BY <1>6, <2>1, <2>2, <2>3, <2>5
  <2> QED BY <2>4, <2>5
<1> QED BY <1>1, <1>7, <1>8, <1>9, <1>10, <1>11, TaskKept DEF Inv

-----------------------------------------------------------------------------
(* Steps of the task process. *)

\* A stage of the process that neither rewrites the rows nor ends a try that
\* may count.
LEMMA QuietStage ==
  ASSUME Inv, UNCHANGED <<episodes, coll, mem, counts, crashes, raised, deaths>>,
         child'.save = child.save, Late => Late',
         marker' /\ Late' => marker /\ Late,
         \A c : Pending(c) => Pending(c)'
  PROVE  CountsInv' /\ SeedInv' /\ CountedInv' /\ KnownInv'
<1>1. /\ Rows' = Rows /\ \A c : EpisodesOf(c)' = EpisodesOf(c)
      /\ \A S : DiedIn(S)' = DiedIn(S)
  BY DEF Rows, EpisodesOf, DiedIn
<1>2. CountsInv'
  BY DEF Inv, CountsInv
<1>3. SeedInv'
  BY <1>1 DEF Inv, SeedInv
<1>4. CountedInv'
  BY <1>1 DEF Inv, CountedInv
<1>5. KnownInv'
  <2> SUFFICES ASSUME crashes = 0, ~ DiedIn({"tasks", "exit"}), NEW c \in Config
               PROVE  EpisodesOf(c) <= mem[c].success + (IF Pending(c)' THEN 1 ELSE 0)
    BY <1>1 DEF KnownInv
  <2>1. EpisodesOf(c) <= mem[c].success + (IF Pending(c) THEN 1 ELSE 0)
    BY DEF Inv, KnownInv
  <2>2. EpisodesOf(c) \in Nat /\ mem[c].success \in Nat
    BY RowShapes DEF Inv, TypeInv, Tally
  <2> QED BY <2>1, <2>2
<1> QED BY <1>2, <1>3, <1>4, <1>5

\* The process loads the rows on disk, or ends before it has anything to save.
LEMMA EarlyStage ==
  ASSUME Inv,
         \/ PrintMarker
         \/ (OpenWriter \/ RolloutFails) /\ UNCHANGED <<kind, marker, raised, blockVars>>
  PROVE  Inv'
<1>1. /\ UNCHANGED <<episodes, coll, mem, counts, crashes, raised, deaths, kind>>
      /\ child.stage \in {"load", "rollout"}
      /\ child \in [stage : BlockStages, save : Rollout, cam : Camera, ok : BOOLEAN]
      /\ marker = FALSE
  BY DEF PrintMarker, RolloutSucceeds, OpenWriter, LoadExistingState, RolloutFails, AtStage, ExitAt,
         datasetVars, blockVars, Inv, TypeInv, ChildInv, EarlyStages
<1>2. CASE PrintMarker
  <2>1. /\ child.stage = "rollout" /\ child' = [child EXCEPT !.stage = "parquet"]
        /\ writer' = writer /\ marker' = TRUE
    BY <1>2 DEF PrintMarker, RolloutSucceeds, AtStage
  <2>2. /\ child' \in [stage : BlockStages, save : Rollout, cam : Camera, ok : BOOLEAN]
        /\ child'.stage = "parquet" /\ child'.save = child.save
    BY <1>1, <2>1 DEF BlockStages
  <2>3. TypeInv'
    BY <1>1, <2>1, <2>2 DEF Inv, TypeInv
  <2>4. WriterInv' /\ ChildInv'
    BY <1>1, <2>1, <2>2 DEF Inv, WriterInv, ChildInv, Rows, Live, EarlyStages, SaveStages
  <2>5. CountsInv' /\ SeedInv' /\ CountedInv' /\ KnownInv'
    BY <1>1, <2>1, <2>2, QuietStage DEF Late, Pending
  <2> QED BY <2>3, <2>4, <2>5 DEF Inv
<1>3. CASE AtStage("load", "rollout") /\ LoadExistingState(child.save.plan) /\ UNCHANGED marker
  <2>1. /\ child.stage = "load" /\ child' = [child EXCEPT !.stage = "rollout"]
        /\ writer' = [index |-> Len(Rows), rows |-> Rows,
                      tasks |-> Register(tasks, PromptOf[child.save.plan])]
    BY <1>3 DEF AtStage, LoadExistingState, Rows
  <2>2. /\ child' \in [stage : BlockStages, save : Rollout, cam : Camera, ok : BOOLEAN]
        /\ child'.stage = "rollout" /\ child'.save = child.save
    BY <1>1, <2>1 DEF BlockStages
  <2>3. Rows' = Rows /\ writer'.rows = Rows /\ Rows \in Seq(Rollout)
        /\ writer' = [index |-> writer'.index, rows |-> writer'.rows, tasks |-> writer'.tasks]
    BY <1>1, <2>1, RowShapes DEF Inv, Rows
  <2>4. TypeInv'
    BY <1>1, <1>3, <2>2, <2>3 DEF Inv, TypeInv
  <2>5. WriterInv' /\ ChildInv'
    BY <1>1, <1>3, <2>1, <2>2, <2>3 DEF Inv, WriterInv, ChildInv, Live, EarlyStages, SaveStages
  <2>6. CountsInv' /\ SeedInv' /\ CountedInv' /\ KnownInv'
    BY <1>1, <1>3, <2>1, <2>2, QuietStage DEF Late, Pending
  <2> QED BY <2>4, <2>5, <2>6 DEF Inv
<1>4. CASE ExitAt({"load", "rollout"}, FALSE) /\ UNCHANGED <<writer, marker>>
  <2>1. child' = [child EXCEPT !.stage = "exited", !.ok = FALSE]
    BY <1>4 DEF ExitAt
  <2>2. /\ child' \in [stage : BlockStages, save : Rollout, cam : Camera, ok : BOOLEAN]
        /\ child'.stage = "exited" /\ child'.save = child.save /\ child'.ok = FALSE
    BY <1>1, <2>1 DEF BlockStages
  <2>3. TypeInv'
    BY <1>1, <1>4, <2>2 DEF Inv, TypeInv
  <2>4. WriterInv' /\ ChildInv'
    BY <1>1, <1>4, <2>2 DEF Inv, WriterInv, ChildInv, Live, EarlyStages, SaveStages
  <2>5. CountsInv' /\ SeedInv' /\ CountedInv' /\ KnownInv'
    BY <1>1, <1>4, <2>2, QuietStage DEF Late, Pending
  <2> QED BY <2>3, <2>4, <2>5 DEF Inv
<1> QED BY <1>2, <1>3, <1>4 DEF OpenWriter, RolloutFails, ExitAt, datasetVars

\* The files of the episode and the vocabulary are written, and the process exits.
LEMMA FileStage ==
  ASSUME Inv, SaveParquet \/ SaveVideo \/ SaveInfo \/ SaveTasks \/ ExitSuccess,
         UNCHANGED <<kind, marker, raised, blockVars>>
  PROVE  Inv'
<1>1. /\ UNCHANGED <<episodes, coll, mem, counts, crashes, raised, deaths, kind, marker>>
      /\ child \in [stage : BlockStages, save : Rollout, cam : Camera, ok : BOOLEAN]
      /\ writer = [index |-> writer.index, rows |-> writer.rows, tasks |-> writer.tasks]
      /\ writer.rows \in Seq(Rollout)
  BY DEF SaveParquet, WriteParquet, SaveVideo, WriteVideo, SaveInfo, WriteInfo, SaveTasks, WriteTasks,
         ExitSuccess, datasetVars, blockVars, Inv, TypeInv
<1>2. CASE SaveVideo
  <2>1. /\ child.stage = "video"
        /\ writer' = IF child.cam = NumCameras
                     THEN [writer EXCEPT !.rows = Append(writer.rows, child.save)] ELSE writer
        /\ child' = IF child.cam < NumCameras THEN [child EXCEPT !.cam = child.cam + 1]
                    ELSE [child EXCEPT !.stage = "info"]
    BY <1>2 DEF SaveVideo, WriteVideo
  <2>2. child.cam \in 1 .. NumCameras /\ NumCameras \in Nat /\ child.save \in Rollout
    BY <1>1, WriterAssumption DEF Camera
  <2>3. CASE child.cam < NumCameras
    <3>1. child' = [child EXCEPT !.cam = child.cam + 1] /\ writer' = writer /\ child.cam + 1 \in Camera
      BY <2>1, <2>2, <2>3 DEF Camera
    <3>2. /\ child' \in [stage : BlockStages, save : Rollout, cam : Camera, ok : BOOLEAN]
          /\ child'.stage = "video" /\ child'.save = child.save /\ child'.ok = child.ok
      BY <1>1, <2>1, <3>1
    <3>3. TypeInv'
      BY <1>1, <3>1, <3>2 DEF Inv, TypeInv
    <3>4. WriterInv' /\ ChildInv'
      BY <1>1, <2>1, <3>1, <3>2 DEF Inv, WriterInv, ChildInv, Rows, Live, EarlyStages, SaveStages
    <3>5. CountsInv' /\ SeedInv' /\ CountedInv' /\ KnownInv'
      BY <1>1, <2>1, <3>2, QuietStage DEF Late, Pending
    <3> QED BY <3>3, <3>4, <3>5 DEF Inv
  <2>4. CASE child.cam = NumCameras
    <3>1. /\ child' = [child EXCEPT !.stage = "info"]
          /\ writer' = [writer EXCEPT !.rows = Append(writer.rows, child.save)]
      BY <2>1, <2>2, <2>4
    <3>2. /\ child' \in [stage : BlockStages, save : Rollout, cam : Camera, ok : BOOLEAN]
          /\ child'.stage = "info" /\ child'.save = child.save /\ child'.ok = child.ok
      BY <1>1, <3>1 DEF BlockStages
    <3>3. /\ writer' = [index |-> writer'.index, rows |-> writer'.rows, tasks |-> writer'.tasks]
          /\ writer'.rows = Append(writer.rows, child.save)
          /\ writer'.rows \in Seq(Rollout)
      BY <1>1, <2>2, <3>1, AppendProperties
    <3>4. TypeInv'
      BY <1>1, <3>2, <3>3 DEF Inv, TypeInv
    <3>5. WriterInv' /\ ChildInv'
      BY <1>1, <2>1, <3>2, <3>3 DEF Inv, WriterInv, ChildInv, Rows, Live, EarlyStages, SaveStages
    <3>6. CountsInv' /\ SeedInv' /\ CountedInv' /\ KnownInv'
      BY <1>1, <2>1, <3>2, QuietStage DEF Late, Pending
    <3> QED BY <3>4, <3>5, <3>6 DEF Inv
  <2> QED BY <2>2, <2>3, <2>4
<1>3. CASE SaveParquet \/ SaveInfo \/ SaveTasks
  <2>1. writer' = writer
    BY <1>3 DEF SaveParquet, WriteParquet, SaveInfo, WriteInfo, SaveTasks, WriteTasks
  <2>2. PICK from \in {"parquet", "info", "tasks"}, to \in {"video", "episodes", "exit"} :
          /\ child.stage = from /\ child' = [child EXCEPT !.stage = to]
          /\ \/ from = "parquet" /\ to = "video"
             \/ from = "info" /\ to = "episodes"
             \/ from = "tasks" /\ to = "exit"
    <3>1. ~ KeepsMetadata
      BY DEF KeepsMetadata, Inv, TypeInv
    <3> QED BY <1>3, <3>1 DEF SaveParquet, SaveInfo, SaveTasks, AtStage
  <2>3. /\ child' \in [stage : BlockStages, save : Rollout, cam : Camera, ok : BOOLEAN]
        /\ child'.stage = to /\ child'.save = child.save /\ child'.ok = child.ok
    BY <1>1, <2>2 DEF BlockStages
  <2>4. TypeInv'
    BY <1>1, <2>1, <2>3 DEF Inv, TypeInv
  <2>5. WriterInv' /\ ChildInv'
    BY <1>1, <2>1, <2>2, <2>3 DEF Inv, WriterInv, ChildInv, Rows, Live, EarlyStages, SaveStages
  <2>6. CountsInv' /\ SeedInv' /\ CountedInv' /\ KnownInv'
    BY <1>1, <2>2, <2>3, QuietStage DEF Late, Pending
  <2> QED BY <2>4, <2>5, <2>6 DEF Inv
<1>4. CASE ExitSuccess
  <2>1. /\ child.stage = "exit" /\ child' = [child EXCEPT !.stage = "exited", !.ok = TRUE]
        /\ writer' = writer
    BY <1>4 DEF ExitSuccess, ExitAt
  <2>2. /\ child' \in [stage : BlockStages, save : Rollout, cam : Camera, ok : BOOLEAN]
        /\ child'.stage = "exited" /\ child'.save = child.save /\ child'.ok = TRUE
    BY <1>1, <2>1 DEF BlockStages
  <2>3. TypeInv'
    BY <1>1, <2>1, <2>2 DEF Inv, TypeInv
  <2>4. WriterInv' /\ ChildInv'
    BY <1>1, <2>1, <2>2 DEF Inv, WriterInv, ChildInv, Rows, Live, EarlyStages, SaveStages
  <2>5. CountsInv' /\ SeedInv' /\ CountedInv' /\ KnownInv'
    BY <1>1, <2>1, <2>2, QuietStage DEF Late, Pending
  <2> QED BY <2>3, <2>4, <2>5 DEF Inv
<1> QED BY <1>2, <1>3, <1>4

\* episodes.jsonl is rewritten with the row of the try in progress.
LEMMA RowStage ==
  ASSUME Inv, SaveEpisodes, UNCHANGED <<kind, marker, raised, blockVars>>
  PROVE  Inv'
<1>1. /\ UNCHANGED <<writer, coll, mem, counts, crashes, raised, deaths, kind, marker>>
      /\ child.stage = "episodes" /\ child' = [child EXCEPT !.stage = "tasks"]
      /\ episodes' = [exists |-> TRUE, rows |-> writer.rows, torn |-> FALSE]
      /\ child \in [stage : BlockStages, save : Rollout, cam : Camera, ok : BOOLEAN]
      /\ writer.rows = Append(Rows, child.save) /\ writer.rows \in Seq(Rollout)
  BY DEF SaveEpisodes, WriteEpisodes, AtStage, blockVars, Inv, TypeInv, WriterInv
<1>2. /\ child' \in [stage : BlockStages, save : Rollout, cam : Camera, ok : BOOLEAN]
      /\ child'.stage = "tasks" /\ child'.save = child.save
      /\ child.save \in Rollout /\ child.save.plan \in Config
  BY <1>1 DEF BlockStages, Rollout, Config
<1>3. /\ Rows' = Append(Rows, child.save) /\ Rows \in Seq(Rollout) /\ Rows' \in Seq(Rollout)
      /\ episodes' \in [exists : BOOLEAN, rows : Seq(Rollout), torn : BOOLEAN]
  BY <1>1, RowShapes DEF Inv, Rows
<1>4. TypeInv'
  BY <1>1, <1>2, <1>3 DEF Inv, TypeInv
<1>5. WriterInv' /\ ChildInv' /\ CountsInv'
  BY <1>1, <1>2 DEF Inv, WriterInv, ChildInv, CountsInv, Live, EarlyStages, SaveStages
<1>6. /\ Len(Rows) \in Nat /\ DOMAIN Rows = 1 .. Len(Rows)
      /\ DOMAIN Rows' = 1 .. Len(Rows) + 1 /\ Rows'[Len(Rows) + 1] = child.save
      /\ \A k \in DOMAIN Rows : Rows'[k] = Rows[k]
  <2>1. Len(Rows) \in Nat /\ DOMAIN Rows = 1 .. Len(Rows)
    BY RowShapes DEF Inv
  <2>2. DOMAIN Rows' = 1 .. Len(Rows')
    BY <1>3, LenProperties
  <2>3. /\ Len(Rows') = Len(Rows) + 1 /\ Rows'[Len(Rows) + 1] = child.save
        /\ \A k \in 1 .. Len(Rows) : Rows'[k] = Rows[k]
    BY <1>2, <1>3, AppendProperties
  <2> QED BY <2>1, <2>2, <2>3
<1>7. \A c : /\ EpisodesOf(c) \in Nat
             /\ EpisodesOf(c)' = EpisodesOf(c) + (IF child.save.plan = c THEN 1 ELSE 0)
  <2>1. \A c : EpisodesOf(c)' = Cardinality(Of(Rows', c))
    BY <1>4, RowShapes DEF EpisodesOf, Of, Rows
  <2>2. \A c : EpisodesOf(c) = Cardinality(Of(Rows, c)) /\ EpisodesOf(c) \in Nat
    BY RowShapes DEF Inv
  <2> QED BY <1>2, <1>3, <2>1, <2>2, CountAppend
<1>8. \A S : DiedIn(S)' = DiedIn(S)
  BY <1>1 DEF DiedIn
<1>9. coll.pc = "wait" =>
        /\ child.save.plan = coll.config /\ child.save.attempt = mem[coll.config].offset + 1
        /\ mem[coll.config] \in Tally
  BY DEF Inv, TypeInv, ChildInv, Config
<1>10. coll.pc = "wait" \/ crashes > 0
  BY <1>1 DEF Inv, ChildInv, Live, SaveStages
<1>11. SeedInv'
  <2> SUFFICES ASSUME crashes = 0
               PROVE  /\ \A k \in DOMAIN Rows' : \/ Rows'[k].attempt <= mem[Rows'[k].plan].offset
                                                 \/ Rows'[k] = child.save
                      /\ \A j, k \in DOMAIN Rows' : Rows'[j] = Rows'[k] => j = k
    BY <1>1, <1>2, <1>10 DEF SeedInv, Late
  <2>1. /\ \A k \in DOMAIN Rows : Rows[k].attempt <= mem[Rows[k].plan].offset
        /\ \A j, k \in DOMAIN Rows : Rows[j] = Rows[k] => j = k
    BY <1>1 DEF Inv, SeedInv, Late
  <2>2. \A k \in DOMAIN Rows : Rows[k] # child.save
    <3>1. ~ (child.save.attempt <= mem[child.save.plan].offset)
      BY <1>9, <1>10 DEF Tally
    <3> QED BY <2>1, <3>1
  <2> QED BY <1>6, <2>1, <2>2
<1>12. CountedInv'
  <2> SUFFICES ASSUME raised = 0, ~ DiedIn({"episodes"})
               PROVE  /\ \A c \in Config : mem[c].success <= EpisodesOf(c)'
                      /\ counts # TornCounts => \A c \in Config : counts[c].success <= EpisodesOf(c)'
                      /\ coll.pc = "wait" => mem[coll.config].success + 1 <= EpisodesOf(coll.config)'
    BY <1>1, <1>8 DEF CountedInv
  <2>1. /\ \A c \in Config : mem[c].success <= EpisodesOf(c)
        /\ counts # TornCounts => \A c \in Config : counts[c].success <= EpisodesOf(c)
    BY DEF Inv, CountedInv
  <2>2. /\ \A c \in Config : mem[c].success \in Nat
        /\ counts # TornCounts => \A c \in Config : counts[c].success \in Nat
    BY DEF Inv, TypeInv, Tally
  <2>3. coll.config \in Config
    BY DEF Inv, TypeInv, Config
  <2>4. \A c \in Config : mem[c].success <= EpisodesOf(c)'
    BY <1>7, <2>1, <2>2
  <2>5. ASSUME counts # TornCounts, NEW c \in Config PROVE counts[c].success <= EpisodesOf(c)'
    <3>1. counts[c].success <= EpisodesOf(c) /\ counts[c].success \in Nat
      BY <2>1, <2>2, <2>5
    <3> QED BY <1>7, <3>1
  <2>6. ASSUME coll.pc = "wait" PROVE mem[coll.config].success + 1 <= EpisodesOf(coll.config)'
    <3>1. EpisodesOf(coll.config)' = EpisodesOf(coll.config) + 1
      BY <1>1, <1>7, <1>9, <2>6
    <3>2. mem[coll.config].success <= EpisodesOf(coll.config) /\ mem[coll.config].success \in Nat
      BY <2>1, <2>2, <2>3
    <3> QED BY <1>7, <3>1, <3>2
  <2> QED BY <2>4, <2>5, <2>6
<1>13. KnownInv'
  <2> SUFFICES ASSUME crashes = 0, ~ DiedIn({"tasks", "exit"}), NEW c \in Config
               PROVE  EpisodesOf(c)' <= mem[c].success + (IF Pending(c)' THEN 1 ELSE 0)
    BY <1>1, <1>8 DEF KnownInv
  <2>1. EpisodesOf(c) <= mem[c].success + 0
    BY <1>1 DEF Inv, KnownInv, Pending
  <2>2. Pending(c)' <=> c = child.save.plan
    BY <1>1, <1>2, <1>9, <1>10 DEF Pending
  <2>3. mem[c].success \in Nat
    BY DEF Inv, TypeInv, Tally
  <2> QED BY <1>7, <2>1, <2>2, <2>3
<1> QED BY <1>4, <1>5, <1>11, <1>12, <1>13 DEF Inv

\* A death leaves the rows as they are, or a part of them when it interrupts
\* their rewrite.
LEMMA DeadRows ==
  ASSUME Inv, Die
  PROVE  /\ episodes' \in [exists : BOOLEAN, rows : Seq(Rollout), torn : BOOLEAN]
         /\ writer' = writer
         /\ Len(Rows') <= Len(Rows) /\ \A i \in 1 .. Len(Rows') : Rows'[i] = Rows[i]
         /\ child.stage # "episodes" => episodes' = episodes
<1>1. /\ TornFiles
      /\ episodes \in [exists : BOOLEAN, rows : Seq(Rollout), torn : BOOLEAN]
      /\ Rows \in Seq(Rollout) /\ Len(Rows) \in Nat
      /\ child.stage \in BlockStages
  BY RowShapes DEF Die, Inv, TypeInv
<1>2. CASE child.stage # "episodes"
  <2>1. episodes' = episodes /\ writer' = writer
    BY <1>1, <1>2 DEF TornFiles, NothingTorn, datasetVars, TornParquet, TornVideo, TornInfo, TornTasks,
                      BlockStages
  <2> QED BY <1>1, <2>1 DEF Rows
<1>3. CASE child.stage = "episodes"
  <2>1. TornEpisodes
    BY <1>1, <1>3 DEF TornFiles
  <2>2. writer' = writer
    BY <2>1 DEF TornEpisodes
  <2>3. CASE episodes' = episodes
    BY <1>1, <1>3, <2>2, <2>3 DEF Rows
  <2>4. CASE episodes' # episodes
    <3>1. PICK k \in 0 .. Len(writer.rows) - 1, cut \in BOOLEAN :
            episodes' = [exists |-> TRUE, rows |-> SubSeq(writer.rows, 1, k), torn |-> cut]
      BY <2>1, <2>4 DEF TornEpisodes
    <3>2. /\ writer.rows = Append(Rows, child.save) /\ writer.rows \in Seq(Rollout)
          /\ child.save \in Rollout
      BY <1>3 DEF Inv, TypeInv, WriterInv
    <3>3. /\ Len(writer.rows) = Len(Rows) + 1
          /\ \A i \in 1 .. Len(Rows) : writer.rows[i] = Rows[i]
      BY <1>1, <3>2, AppendProperties
    <3>4. k \in 0 .. Len(Rows)
      BY <1>1, <3>1, <3>3
    <3>5. \A i \in 1 .. k : writer.rows[i] \in Rollout /\ writer.rows[i] = Rows[i]
      <4>1. \A i \in 1 .. k : i \in 1 .. Len(Rows) /\ i \in 1 .. Len(writer.rows)
        BY <1>1, <3>3, <3>4
      <4> QED BY <3>2, <3>3, <4>1, ElementOfSeq
    <3>6. /\ SubSeq(writer.rows, 1, k) \in Seq(Rollout)
          /\ Len(SubSeq(writer.rows, 1, k)) = k
          /\ \A i \in 1 .. k : SubSeq(writer.rows, 1, k)[i] = writer.rows[i]
      BY <3>4, <3>5, SubSeqProperties
    <3>7. Rows' = SubSeq(writer.rows, 1, k)
      BY <3>1 DEF Rows
    <3>8. Len(Rows') <= Len(Rows) /\ \A i \in 1 .. Len(Rows') : Rows'[i] = Rows[i]
      BY <1>1, <3>4, <3>5, <3>6, <3>7
    <3> QED BY <1>3, <2>2, <3>1, <3>6, <3>8
  <2> QED BY <2>3, <2>4
<1> QED BY <1>2, <1>3

\* The process is killed or raises; what it saves may be lost, and only what it
\* listed before stays.
LEMMA DeathStep ==
  ASSUME Inv, SaveRaises \/ Timeout
  PROVE  Inv'
<1>1. /\ Die /\ UNCHANGED <<kind, coll, mem, counts, crashes>>
      /\ \/ marker' = FALSE /\ raised' = raised
         \/ marker' = marker /\ raised' = raised + 1 /\ child.stage \in SaveStages
      /\ child' = [child EXCEPT !.stage = "exited", !.ok = FALSE]
      /\ deaths' = IF child.stage \in SaveStages THEN Append(deaths, child.stage) ELSE deaths
  BY DEF SaveRaises, Timeout, Die, blockVars
<1>2. /\ child \in [stage : BlockStages, save : Rollout, cam : Camera, ok : BOOLEAN]
      /\ deaths \in Seq(SaveStages) /\ raised \in Nat /\ marker \in BOOLEAN
  BY DEF Inv, TypeInv
<1>3. /\ child' \in [stage : BlockStages, save : Rollout, cam : Camera, ok : BOOLEAN]
      /\ child'.stage = "exited" /\ child'.save = child.save /\ child'.ok = FALSE
  BY <1>1, <1>2 DEF BlockStages
<1>4. /\ deaths' \in Seq(SaveStages)
      /\ \A S : ~ DiedIn(S)' => ~ DiedIn(S) /\ (child.stage \in SaveStages => child.stage \notin S)
  <2>1. CASE child.stage \in SaveStages
    <3>1. deaths' = Append(deaths, child.stage)
      BY <1>1, <2>1
    <3>2. /\ deaths' \in Seq(SaveStages) /\ Len(deaths') = Len(deaths) + 1
          /\ deaths'[Len(deaths) + 1] = child.stage
          /\ \A k \in 1 .. Len(deaths) : deaths'[k] = deaths[k]
      BY <1>2, <2>1, <3>1, AppendProperties
    <3>3. /\ DOMAIN deaths = 1 .. Len(deaths) /\ Len(deaths) \in Nat
          /\ DOMAIN deaths' = 1 .. Len(deaths) + 1
      BY <1>2, <3>2, LenProperties
    <3>4. /\ \A k \in DOMAIN deaths : k \in DOMAIN deaths' /\ deaths'[k] = deaths[k]
          /\ Len(deaths) + 1 \in DOMAIN deaths'
      BY <3>2, <3>3
    <3> QED BY <3>2, <3>4 DEF DiedIn
  <2>2. CASE child.stage \notin SaveStages
    BY <1>1, <1>2, <2>2 DEF DiedIn
  <2> QED BY <2>1, <2>2
<1>5. /\ episodes' \in [exists : BOOLEAN, rows : Seq(Rollout), torn : BOOLEAN]
      /\ writer' = writer
      /\ Len(Rows') <= Len(Rows) /\ \A i \in 1 .. Len(Rows') : Rows'[i] = Rows[i]
      /\ child.stage # "episodes" => episodes' = episodes
  BY <1>1, DeadRows
<1>6. TypeInv'
  <2>1. marker' \in BOOLEAN
    BY <1>1, <1>2, Zenon
  <2>2. raised' \in Nat
    BY <1>1, <1>2
  <2> QED BY <1>1, <1>3, <1>4, <1>5, <2>1, <2>2 DEF Inv, TypeInv
<1>7. WriterInv' /\ ChildInv' /\ CountsInv'
  BY <1>1, <1>3 DEF Inv, WriterInv, ChildInv, CountsInv, Live, EarlyStages, SaveStages
<1>8. /\ Rows \in Seq(Rollout) /\ DOMAIN Rows = 1 .. Len(Rows) /\ Len(Rows) \in Nat
      /\ Rows' \in Seq(Rollout) /\ DOMAIN Rows' = 1 .. Len(Rows') /\ Len(Rows') \in Nat
  BY <1>5, RowShapes, LenProperties DEF Inv, Rows
<1>9. \A k \in DOMAIN Rows' : k \in DOMAIN Rows /\ Rows'[k] = Rows[k]
  BY <1>5, <1>8
<1>10. \A c : EpisodesOf(c)' <= EpisodesOf(c) /\ EpisodesOf(c)' \in Nat /\ EpisodesOf(c) \in Nat
  <2>1. \A c : EpisodesOf(c)' = Cardinality(Of(Rows', c))
    BY DEF EpisodesOf, Of, Rows
  <2>2. \A c : EpisodesOf(c) = Cardinality(Of(Rows, c)) /\ EpisodesOf(c) \in Nat
    BY RowShapes DEF Inv
  <2>3. \A c : /\ Cardinality(Of(Rows', c)) <= Cardinality(Of(Rows, c))
               /\ Cardinality(Of(Rows', c)) \in Nat
    BY <1>5, <1>8, CountPrefix
  <2> QED BY <2>1, <2>2, <2>3
<1>11. child.stage \in EarlyStages \cup SaveStages /\ (coll.pc = "wait" \/ crashes > 0)
  BY <1>1 DEF Die, Live, Inv, ChildInv
<1>12. SeedInv'
  BY <1>1, <1>3, <1>9 DEF Inv, SeedInv, Late
<1>13. CountedInv'
  <2> SUFFICES ASSUME raised' = 0, ~ DiedIn({"episodes"})'
               PROVE  /\ \A c \in Config : mem[c].success <= EpisodesOf(c)'
                      /\ counts # TornCounts => \A c \in Config : counts[c].success <= EpisodesOf(c)'
                      /\ ~ marker'
    BY <1>1 DEF CountedInv
  <2>1. raised = 0 /\ ~ marker'
    BY <1>1, <1>2
  <2>2. ~ DiedIn({"episodes"}) /\ child.stage # "episodes"
    BY <1>4 DEF SaveStages
  <2>3. \A c : EpisodesOf(c)' = EpisodesOf(c)
    BY <1>5, <2>2 DEF EpisodesOf
  <2> QED BY <2>1, <2>2, <2>3 DEF Inv, CountedInv
<1>14. KnownInv'
  <2> SUFFICES ASSUME crashes = 0, ~ DiedIn({"tasks", "exit"})', NEW c \in Config
               PROVE  EpisodesOf(c)' <= mem[c].success + (IF Pending(c)' THEN 1 ELSE 0)
    BY <1>1 DEF KnownInv
  <2>1. ~ DiedIn({"tasks", "exit"}) /\ child.stage \notin {"tasks", "exit", "exited"}
    BY <1>4, <1>11 DEF SaveStages, EarlyStages
  <2>2. EpisodesOf(c) <= mem[c].success + 0
    BY <2>1 DEF Inv, KnownInv, Pending
  <2>3. ~ Pending(c)'
    BY <1>3 DEF Pending
  <2>4. mem[c].success \in Nat
    BY DEF Inv, TypeInv, Tally
  <2> QED BY <1>10, <2>2, <2>3, <2>4
<1> QED BY <1>6, <1>7, <1>12, <1>13, <1>14 DEF Inv

-----------------------------------------------------------------------------
(* Every step, and the properties of the runs. *)

\* Nothing changes.
LEMMA StutterStep ==
  ASSUME Inv, UNCHANGED vars
  PROVE  Inv'
<1>1. TaskUnchanged /\ UNCHANGED <<coll, counts, mem, crashes>>
  BY DEF vars, TaskUnchanged, blockVars
<1>2. TypeInv' /\ WriterInv' /\ ChildInv' /\ CountsInv'
  BY <1>1, TaskKept DEF Inv, TypeInv, ChildInv, CountsInv
<1>3. SeedInv' /\ CountedInv' /\ KnownInv'
  BY <1>1, TaskKept DEF Inv, SeedInv, CountedInv, KnownInv, Pending
<1> QED BY <1>2, <1>3 DEF Inv

\* Every step of the collector and of its tasks keeps the invariant.
LEMMA InvStep ==
  ASSUME Inv, [Next]_vars
  PROVE  Inv'
<1>1. CASE Start
  BY <1>1, StartStep
<1>2. CASE NextConfig \/ WriteStats \/ Crash
  BY <1>2, MoveStep
<1>3. CASE Spawn
  BY <1>3, SpawnStep
<1>4. CASE Reap
  BY <1>4, ReapStep
<1>5. CASE SaveRaises \/ Timeout
  BY <1>5, DeathStep
<1>6. CASE PrintMarker
  BY <1>6, EarlyStage
<1>7. CASE TaskStep
  <2>1. CASE OpenWriter \/ RolloutFails
    BY <1>7, <2>1, EarlyStage DEF TaskStep
  <2>2. CASE SaveParquet \/ SaveVideo \/ SaveInfo \/ SaveTasks \/ ExitSuccess
    BY <1>7, <2>2, FileStage DEF TaskStep
  <2>3. CASE SaveEpisodes
    BY <1>7, <2>3, RowStage DEF TaskStep
  <2>4. CASE SaveSchema \/ SaveMetadataRow
    BY <2>4 DEF SaveSchema, SaveMetadataRow, AtStage, Inv, TypeInv, BlockStages
  <2> QED BY <1>7, <2>1, <2>2, <2>3, <2>4 DEF TaskStep, ChildSave
<1>8. CASE Done \/ UNCHANGED vars
  BY <1>8, StutterStep DEF Done
<1> QED BY <1>1, <1>2, <1>3, <1>4, <1>5, <1>6, <1>7, <1>8 DEF Next, CollectorStep

\* The inductive invariant of the block collector.
LEMMA Invariant == Spec => []Inv
<1>1. Init => Inv
  BY InvInit
<1>2. Inv /\ [Next]_vars => Inv'
  BY InvStep
<1> QED BY <1>1, <1>2, PTL DEF Spec

\* collect_dataset.py:93-110: the seed moves with every try, counted or not, so a
\* rollout is collected twice only when a crash forgets where the seed was.
THEOREM SeedsAreNotReused == Spec => []SeedReuseNeedsCrash
<1>1. ASSUME Inv PROVE SeedReuseNeedsCrash
  <2>1. crashes \in Nat
    BY <1>1 DEF Inv, TypeInv
  <2> QED BY <1>1, <2>1 DEF Inv, SeedInv, SeedReuseNeedsCrash, Rows
<1> QED BY <1>1, Invariant, PTL

\* collect_dataset.py:93-121: the counters and the dataset agree but for deaths
\* while saving and crashes, each on its own side.
THEOREM DriftIsCaused == Spec => []DriftHasACause
<1>1. ASSUME Inv, Idle, counts # TornCounts, NEW c \in Config
      PROVE  /\ counts[c].success > EpisodesOf(c) => raised > 0 \/ DiedIn({"episodes"})
             /\ counts[c].success < EpisodesOf(c) => crashes > 0 \/ DiedIn({"tasks", "exit"})
  <2>1. /\ raised \in Nat /\ crashes \in Nat
        /\ counts[c].success \in Nat /\ mem[c].success \in Nat /\ EpisodesOf(c) \in Nat
    BY <1>1, RowShapes DEF Inv, TypeInv, Tally
  <2>2. raised = 0 /\ ~ DiedIn({"episodes"}) => counts[c].success <= EpisodesOf(c)
    BY <1>1 DEF Inv, CountedInv
  <2>3. coll.pc \notin {"wait", "stats"}
    BY <1>1 DEF Idle, Stopped
  <2>4. crashes = 0 /\ ~ DiedIn({"tasks", "exit"}) => EpisodesOf(c) <= counts[c].success
    <3> SUFFICES ASSUME crashes = 0, ~ DiedIn({"tasks", "exit"})
                 PROVE  EpisodesOf(c) <= counts[c].success
      OBVIOUS
    <3>1. counts = mem
      BY <1>1, <2>3 DEF Inv, CountsInv
    <3>2. EpisodesOf(c) <= mem[c].success + 0
      BY <1>1, <2>3 DEF Inv, KnownInv, Pending
    <3> QED BY <2>1, <3>1, <3>2
  <2> QED BY <2>1, <2>2, <2>4
<1>2. Inv => DriftHasACause
  BY <1>1 DEF DriftHasACause
<1> QED BY <1>2, Invariant, PTL
=============================================================================
