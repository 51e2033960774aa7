---------------------------- MODULE LeRobotWriter ----------------------------
(***************************************************************************)
(* The LeRobot v2 dataset directory and the writer a task process uses to  *)
(* append one episode to it (data/episode.py).                             *)
(*                                                                         *)
(* A dataset is written in place: episode i goes to a Parquet file and one *)
(* MP4 per camera named after i, then finalize() truncates and rewrites    *)
(* meta/info.json, meta/episodes.jsonl and meta/tasks.jsonl.  None of      *)
(* these writes is atomic, so a process that dies inside one may leave the *)
(* file of that write torn: TornBy says what each stage can leave behind.  *)
(*                                                                         *)
(* An episode's data is identified by its plan and its attempt, which      *)
(* determine the seed of the rollout; frames are abstracted away.          *)
(***************************************************************************)
EXTENDS Integers, Sequences

CONSTANTS
  NumPlans,      \* the collection plan has the plan indexes 0 .. NumPlans-1
  PromptOf,      \* the task prompt of each plan
  NumCameras,    \* CAMERAS, in the order their videos are written
  MaxAttempt     \* bound on the attempt number of a plan

Plan == 0 .. NumPlans - 1
Camera == 1 .. NumCameras

ASSUME WriterAssumption ==
  /\ NumPlans \in Nat \ {0}
  /\ NumCameras \in Nat \ {0}
  /\ MaxAttempt \in Nat \ {0}
  /\ PromptOf = [p \in Plan |-> PromptOf[p]]

Save == [plan : Plan, attempt : 1 .. MaxAttempt]
Prompt == {PromptOf[p] : p \in Plan}

VARIABLES
  info,      \* meta/info.json: total_episodes and the split ranges
  episodes,  \* meta/episodes.jsonl: its rows, and whether the last is torn
  tasks,     \* meta/tasks.jsonl: the prompt at position k+1 has task_index k
  parquet,   \* data/chunk-*/episode_<i>.parquet, by episode index
  videos,    \* videos/chunk-*/<camera>/episode_<i>.mp4, by index and camera
  writer     \* the memory of the LeRobotWriter of the running task process

datasetVars == <<info, episodes, tasks, parquet, videos>>

(***************************************************************************)
(* File contents.  A torn file exists and cannot be parsed.                *)
(***************************************************************************)
Absent == [st |-> "absent"]
Torn   == [st |-> "torn"]
Whole(s) == [st |-> "whole", save |-> s]

NoFiles == [x \in {} |-> Absent]

\* The file function f after key k has been written with v.
Put(f, k, v) == [x \in DOMAIN f \cup {k} |-> IF x = k THEN v ELSE f[x]]

NoRows == [exists |-> FALSE, rows |-> << >>, torn |-> FALSE]

DatasetInit ==
  /\ info = Absent
  /\ episodes = NoRows
  /\ tasks = << >>
  /\ parquet = NoFiles
  /\ videos = NoFiles
  /\ writer = [index |-> 0, rows |-> << >>, tasks |-> << >>]

\* _task_to_index after a prompt is registered: a new prompt gets the next index.
Register(ts, prompt) ==
  IF \E k \in DOMAIN ts : ts[k] = prompt THEN ts ELSE Append(ts, prompt)

TaskIndex(ts, prompt) == (CHOOSE k \in DOMAIN ts : ts[k] = prompt) - 1

(***************************************************************************)
(* LeRobotWriter.__init__ and new_episode: the rows and tasks already on   *)
(* disk are loaded and the new episode takes the next index.  A torn row   *)
(* raises, and the task process ends without writing (LoadFails).          *)
(***************************************************************************)
LoadFails == episodes.torn

\* A plausible bug: every task process starts from an empty writer.
LoadNothing(p) ==
  /\ ~ LoadFails
  /\ writer' = [index |-> 0, rows |-> << >>, tasks |-> Register(<< >>, PromptOf[p])]
  /\ UNCHANGED datasetVars

LoadExistingState(p) ==
  /\ ~ LoadFails
  /\ writer' = [index |-> Len(episodes.rows),
                rows  |-> episodes.rows,
                tasks |-> Register(tasks, PromptOf[p])]
  /\ UNCHANGED datasetVars

(***************************************************************************)
(* save_episode: the Parquet file, then one video per camera; the row is   *)
(* appended to the writer's memory once the last video is written.         *)
(***************************************************************************)
WriteParquet(s) ==
  /\ parquet' = Put(parquet, writer.index,
                    [st |-> "whole", save |-> s,
                     task |-> TaskIndex(writer.tasks, PromptOf[s.plan])])
  /\ UNCHANGED <<info, episodes, tasks, videos, writer>>

WriteVideo(s, cam) ==
  /\ videos' = Put(videos, <<writer.index, cam>>, Whole(s))
  /\ writer' = IF cam = NumCameras
                THEN [writer EXCEPT !.rows = Append(writer.rows, s)]
                ELSE writer
  /\ UNCHANGED <<info, episodes, tasks, parquet>>

\* A plausible bug: the count is taken before the row is appended.
WriteInfoEarly ==
  /\ info' = [st |-> "whole",
              total  |-> Len(episodes.rows),
              ranges |-> [sp \in {"train"} |-> <<0, Len(episodes.rows)>>]]
  /\ UNCHANGED <<episodes, tasks, parquet, videos, writer>>

(***************************************************************************)
(* finalize: info.json, episodes.jsonl, tasks.jsonl, in that order, each   *)
(* opened with "w".  The split ranges of an earlier finalization are lost: *)
(* info.json again says that every episode is a training episode.          *)
(***************************************************************************)
WriteInfo ==
  /\ info' = [st |-> "whole",
              total  |-> Len(writer.rows),
              ranges |-> [sp \in {"train"} |-> <<0, Len(writer.rows)>>]]
  /\ UNCHANGED <<episodes, tasks, parquet, videos, writer>>

WriteEpisodes ==
  /\ episodes' = [exists |-> TRUE, rows |-> writer.rows, torn |-> FALSE]
  /\ UNCHANGED <<info, tasks, parquet, videos, writer>>

WriteTasks ==
  /\ tasks' = writer.tasks
  /\ UNCHANGED <<info, episodes, parquet, videos, writer>>

(***************************************************************************)
(* What a death inside a write leaves.  A file of one buffer (info.json,   *)
(* tasks.jsonl) is either untouched or truncated to nothing, which is      *)
(* unparsable JSON for the one and an empty vocabulary for the other;      *)
(* episodes.jsonl is flushed in blocks and keeps any prefix of its rows,   *)
(* the last of them possibly cut in the middle.                            *)
(***************************************************************************)
TornParquet  == parquet' \in {parquet, Put(parquet, writer.index, Torn)}
                /\ UNCHANGED <<info, episodes, tasks, videos, writer>>
TornVideo(cam) == videos' \in {videos, Put(videos, <<writer.index, cam>>, Torn)}
                  /\ UNCHANGED <<info, episodes, tasks, parquet, writer>>
TornInfo     == info' \in {info, Torn}
                /\ UNCHANGED <<episodes, tasks, parquet, videos, writer>>
TornEpisodes ==
  /\ \/ episodes' = episodes
     \/ \E k \in 0 .. Len(writer.rows) - 1, cut \in BOOLEAN :
          episodes' = [exists |-> TRUE, rows |-> SubSeq(writer.rows, 1, k), torn |-> cut]
  /\ UNCHANGED <<info, tasks, parquet, videos, writer>>
TornTasks    == tasks' \in {tasks, << >>}
                /\ UNCHANGED <<info, episodes, parquet, videos, writer>>
=============================================================================
