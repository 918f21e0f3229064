---------------------------- MODULE ZhihuishuTask ----------------------------
(***************************************************************************)
(* The study tasks of one ZhihuishuAdapter                                 *)
(* (services/course/zhihuishu/adapter.py): requests start, pause, resume   *)
(* and cancel tasks and log out, one thread per task runs _run_task_loop,  *)
(* and watch_video (zhihuishu/learning.py) polls the task while it plays.  *)
(*                                                                         *)
(* A critical section under _task_lock is one step; listing the course's   *)
(* videos, starting the thread and playing a video are steps of their own. *)
(* A new login makes a new adapter.                                        *)
(***************************************************************************)
EXTENDS Integers

CONSTANTS
    TaskId,     \* every task of the run; an id (uuid4) is used once
    Request,    \* request threads that start tasks
    MaxVideos,  \* bound: videos of a course
    None        \* no task

ASSUME NoneAssumption  == None \notin TaskId
ASSUME VideoAssumption == MaxVideos \in Nat \ {0}

VARIABLES
    current,    \* the id of _task_state, or None
    status,     \* the status of each task of _tasks, or "absent"
    paused, cancelled,
    total, completed, failed,
    loop,       \* where the task's thread is
    index,      \* current_index
    watch_ok,   \* what watch_video returned (an exception counts as FALSE)
    logged_in,  \* self.learning is there
    rpc         \* where each starting request is

task    == <<status, paused, cancelled, total, completed, failed>>
thread  == <<loop, index, watch_ok>>
vars    == <<current, task, thread, logged_in, rpc>>

Active == {"running", "paused"}

Init ==
    /\ current = None
    /\ status = [t \in TaskId |-> "absent"]
    /\ paused = [t \in TaskId |-> FALSE] /\ cancelled = [t \in TaskId |-> FALSE]
    /\ total = [t \in TaskId |-> 0]
    /\ completed = [t \in TaskId |-> 0] /\ failed = [t \in TaskId |-> 0]
    /\ loop = [t \in TaskId |-> "none"]
    /\ index = [t \in TaskId |-> 0]
    /\ watch_ok = [t \in TaskId |-> FALSE]
    /\ logged_in = TRUE
    /\ rpc = [r \in Request |-> "idle"]

-----------------------------------------------------------------------------
(* Starting a task: start_course, which start_course_task and              *)
(* start_ai_course_task call                                               *)

\* Wrong on purpose: only a running task is in the way.
Running == current # None /\ status[current] = "running"

\* The current task is in the way of a new one.
Busy == current # None /\ status[current] \in Active

Respond(r) == rpc' = [rpc EXCEPT ![r] = "idle"]

\* The first check; without a login the request fails at once.
Check(r) ==
    /\ rpc[r] = "idle"
    /\ logged_in /\ ~Busy
    /\ rpc' = [rpc EXCEPT ![r] = "load"]
    /\ UNCHANGED <<current, task, thread, logged_in>>

\* get_videos and _videos_up_to_chapter: listed, chapter not found, or an error
\* of the platform.
Load(r) ==
    /\ rpc[r] = "load"
    /\ \/ logged_in /\ rpc' = [rpc EXCEPT ![r] = "create"]
       \/ Respond(r)
    /\ UNCHANGED <<current, task, thread, logged_in>>

\* The second check finds another task: refuse.
Conflict(r) ==
    /\ rpc[r] = "create" /\ Busy
    /\ Respond(r)
    /\ UNCHANGED <<current, task, thread, logged_in>>

\* Otherwise the new task becomes the current one.
Create(r) ==
    /\ rpc[r] = "create" /\ ~Busy
    /\ \E t \in TaskId, n \in 0 .. MaxVideos :
          /\ status[t] = "absent"
          /\ status' = [status EXCEPT ![t] = IF n = 0 THEN "completed" ELSE "running"]
          /\ total' = [total EXCEPT ![t] = n]
          /\ current' = t
          /\ loop' = [loop EXCEPT ![t] = IF n = 0 THEN "ended" ELSE "spawn"]
    /\ Respond(r)
    /\ UNCHANGED <<paused, cancelled, completed, failed, index, watch_ok, logged_in>>

\* Thread.start(), or _mark_task_error.
Spawn(t) ==
    /\ loop[t] = "spawn"
    /\ \/ loop' = [loop EXCEPT ![t] = "top"] /\ UNCHANGED status
       \/ loop' = [loop EXCEPT ![t] = "ended"] /\ status' = [status EXCEPT ![t] = "error"]
    /\ UNCHANGED <<current, paused, cancelled, total, completed, failed, index, watch_ok,
                   logged_in, rpc>>

-----------------------------------------------------------------------------
(* pause_task, resume_task, cancel_task, cancel_task_by_id, logout *)

SetStatus(t, s) == status' = [status EXCEPT ![t] = s]

\* Neither looks for "error".
Pause ==
    /\ current # None /\ status[current] \notin {"completed", "cancelled"}
    /\ SetStatus(current, "paused")
    /\ paused' = [paused EXCEPT ![current] = TRUE]
    /\ UNCHANGED <<current, cancelled, total, completed, failed, thread, logged_in,
                   rpc>>

Resume ==
    /\ current # None /\ status[current] \notin {"completed", "cancelled"}
    /\ SetStatus(current, "running")
    /\ paused' = [paused EXCEPT ![current] = FALSE]
    /\ UNCHANGED <<current, cancelled, total, completed, failed, thread, logged_in,
                   rpc>>

\* The record of a finished task is overwritten as well.
Cancelled(t) ==
    /\ SetStatus(t, "cancelled")
    /\ cancelled' = [cancelled EXCEPT ![t] = TRUE]
    /\ paused' = [paused EXCEPT ![t] = FALSE]

\* cancel_task cancels the current task, cancel_task_by_id any.
Cancel(t) ==
    /\ status[t] # "absent"
    /\ Cancelled(t)
    /\ UNCHANGED <<current, total, completed, failed, thread, logged_in, rpc>>

Logout ==
    /\ logged_in
    /\ logged_in' = FALSE
    /\ IF current = None THEN UNCHANGED <<status, cancelled, paused>> ELSE Cancelled(current)
    /\ UNCHANGED <<current, total, completed, failed, thread, rpc>>

-----------------------------------------------------------------------------
(* The thread of a task: _run_task_loop *)

Go(t, pc) == loop' = [loop EXCEPT ![t] = pc]

\* The task was replaced or cancelled: the thread returns.
Leave(t) ==
    /\ Go(t, "ended")
    /\ IF t = current THEN SetStatus(t, "cancelled") ELSE UNCHANGED status

MustLeave(t) == t # current \/ cancelled[t]

\* Wrong on purpose: the end of the list is not told from a video that failed.
TopCompletes(t) ==
    /\ loop[t] = "top"
    /\ IF MustLeave(t) THEN Leave(t)
       ELSE IF index[t] >= total[t] THEN Go(t, "ended") /\ SetStatus(t, "completed")
       ELSE IF paused[t]
            THEN Go(t, "top") /\ SetStatus(t, "paused")
       ELSE Go(t, "poll") /\ SetStatus(t, "running")
    /\ UNCHANGED <<current, paused, cancelled, total, completed, failed, index, watch_ok,
                   logged_in, rpc>>

\* Phase 1 under the lock.
Top(t) ==
    /\ loop[t] = "top"
    /\ IF MustLeave(t) THEN Leave(t)
       ELSE IF index[t] >= total[t]
            THEN Go(t, "ended") /\ SetStatus(t, IF failed[t] > 0 THEN "error" ELSE "completed")
       ELSE IF paused[t]
            THEN Go(t, "top") /\ SetStatus(t, "paused")
       ELSE Go(t, "poll") /\ SetStatus(t, "running")
    /\ UNCHANGED <<current, paused, cancelled, total, completed, failed, index, watch_ok,
                   logged_in, rpc>>

\* Wrong on purpose: any paused task holds the playback up.
AnyPaused(t) == current # None /\ paused[current]

\* _is_task_cancelled and _is_task_paused ask the current task only.
SeesCancelled(t) == t = current /\ cancelled[t]
SeesPaused(t)    == t = current /\ paused[t]

Return(t, ok) ==
    /\ Go(t, "watched")
    /\ watch_ok' = [watch_ok EXCEPT ![t] = ok]

\* _wait_for_playback: abort, wait while paused, or play on.
Poll(t) ==
    /\ loop[t] = "poll"
    /\ IF SeesCancelled(t) THEN Return(t, FALSE)
       ELSE ~SeesPaused(t) /\ Go(t, "play") /\ UNCHANGED watch_ok
    /\ UNCHANGED <<current, task, index, logged_in, rpc>>

\* A stretch of the video was played and there is more ...
PlayOn(t) ==
    /\ loop[t] = "play"
    /\ Go(t, "poll")
    /\ UNCHANGED <<current, task, index, watch_ok, logged_in, rpc>>

\* ... or it was the last one, or a report was refused or raised.
VideoEnds(t) ==
    /\ loop[t] = "play"
    /\ \E ok \in BOOLEAN : Return(t, ok)
    /\ UNCHANGED <<current, task, index, logged_in, rpc>>

\* No poll comes first if the login is gone, the video was watched before or has
\* no length.
NotPlayed(t) ==
    /\ loop[t] = "poll"
    /\ \E ok \in BOOLEAN : Return(t, ok)
    /\ UNCHANGED <<current, task, index, logged_in, rpc>>

\* The check after watch_video.
AfterWatch(t) ==
    /\ loop[t] = "watched"
    /\ IF MustLeave(t) THEN Leave(t) ELSE Go(t, "record") /\ UNCHANGED status
    /\ UNCHANGED <<current, paused, cancelled, total, completed, failed, index, watch_ok,
                   logged_in, rpc>>

Count(t) ==
    /\ completed' = [completed EXCEPT ![t] = IF watch_ok[t] THEN @ + 1 ELSE @]
    /\ failed' = [failed EXCEPT ![t] = IF watch_ok[t] THEN @ ELSE @ + 1]
    /\ index' = [index EXCEPT ![t] = @ + 1]

\* Wrong on purpose: the second look at the task is left out.
RecordUnchecked(t) ==
    /\ loop[t] = "record"
    /\ Count(t) /\ Go(t, "top")
    /\ UNCHANGED <<current, status, paused, cancelled, total, watch_ok, logged_in,
                   rpc>>

\* Phase 3 under the lock: check again, then record the result.
Record(t) ==
    /\ loop[t] = "record"
    /\ IF MustLeave(t) THEN Leave(t) /\ UNCHANGED <<completed, failed, index>>
                       ELSE Count(t) /\ Go(t, "top") /\ UNCHANGED status
    /\ UNCHANGED <<current, paused, cancelled, total, watch_ok, logged_in, rpc>>

-----------------------------------------------------------------------------
StartStep(r) == Check(r) \/ Load(r) \/ Conflict(r) \/ Create(r)

LoopStep(t) == Spawn(t) \/ Top(t) \/ Poll(t) \/ AfterWatch(t) \/ Record(t)

Playing(t) == PlayOn(t) \/ VideoEnds(t) \/ NotPlayed(t)

Next ==
    \/ \E r \in Request : StartStep(r)
    \/ \E t \in TaskId : LoopStep(t) \/ Playing(t) \/ Cancel(t)
    \/ Pause \/ Resume \/ Logout

Spec == Init /\ [][Next]_vars

\* Threads run and a video has a last stretch; nobody has to send a request.
FairSpec ==
    /\ Spec
    /\ \A t \in TaskId : WF_vars(LoopStep(t)) /\ WF_vars(PlayOn(t)) /\ SF_vars(VideoEnds(t))

-----------------------------------------------------------------------------
(* Properties *)

TypeOK ==
    /\ current \in TaskId \cup {None}
    /\ status \in [TaskId -> Active \cup {"absent", "completed", "error", "cancelled"}]
    /\ {paused, cancelled, watch_ok} \subseteq [TaskId -> BOOLEAN]
    /\ {total, completed, failed, index} \subseteq [TaskId -> 0 .. MaxVideos]
    /\ loop \in [TaskId -> {"none", "spawn", "top", "poll", "play", "watched", "record", "ended"}]
    /\ logged_in \in BOOLEAN
    /\ rpc \in [Request -> {"idle", "load", "create"}]

Alive(t) == loop[t] \notin {"none", "ended"}

\* Of the threads studying on this login, all but the current task's have been
\* cancelled, whatever starts, cancels and restarts race.
OthersCancelled == \A t \in TaskId : Alive(t) /\ t # current => cancelled[t]

\* A task that says "completed" has every video of it played to the end,
\* whatever was paused, resumed or restarted on the way.
HonestCompletion ==
    \A t \in TaskId : status[t] = "completed" => completed[t] = total[t] /\ failed[t] = 0

\* Once a task is cancelled nothing is counted for it any more, not even the
\* video it was playing.
NothingAfterCancel ==
    [][\A t \in TaskId : cancelled[t] => UNCHANGED <<completed[t], failed[t]>>]_vars

\* A cancelled task's thread ends, paused or replaced as it may be.
CancelEndsThread == \A t \in TaskId : cancelled[t] /\ Alive(t) ~> ~Alive(t)

\* While a cancelled task is playing, its next poll aborts the playback
\* (learning.py on is_cancelled; adapter.py on _is_task_cancelled).
CancelReachesPlayback ==
    \A t \in TaskId : loop[t] \in {"poll", "play"} /\ cancelled[t] => SeesCancelled(t)
=============================================================================
