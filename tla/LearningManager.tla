--------------------------- MODULE LearningManager ---------------------------
(***************************************************************************)
(* The life of a Chaoxing learning task: ChaoxingLearningManager in        *)
(* backend/app/services/course/chaoxing/learning_manager.py with the       *)
(* admission and retention rules of task_admission.py beside it.          *)
(*                                                                         *)
(* Request threads start, pause, resume, stop and look at tasks; one       *)
(* worker thread per task studies its courses; a job thread of a failed    *)
(* chapter may outlive that chapter (process_chapter does not wait for it) *)
(* and still report video progress.  All of them change the task's record  *)
(* under the manager's lock and write snapshots of it to the store after   *)
(* releasing the lock, in the order PersistSequencer.tla establishes.      *)
(*                                                                         *)
(* Of a record only the status is kept, and of the snapshots those that    *)
(* may carry a new one: the worker's log lines and progress repeat the     *)
(* status of a snapshot before them and are left out.                      *)
(***************************************************************************)
EXTENDS Integers, Sequences, FiniteSets

CONSTANTS
    TaskId,       \* every task of the run; an id (uuid4) is used once
    User,
    Nobody,       \* the owner of a task not yet started
    MaxActive,    \* MAX_ACTIVE_TASKS
    MaxRecords,   \* MAX_TASK_RECORDS
    NumCourses,   \* courses a task selects
    MaxWrites,    \* bound: snapshots of one task waiting for the store, log
                  \* lines to come included, when a request is accepted
    MaxFailures,  \* bound: store writes that fail
    MaxRestarts,  \* bound: restarts of the service
    MaxLeft       \* bound: job threads that are left behind

ASSUME TaskAssumption == IsFiniteSet(TaskId)
ASSUME NobodyAssumption == Nobody \notin User
ASSUME LimitAssumption == {MaxActive, MaxRecords, NumCourses, MaxWrites} \subseteq Nat \ {0}
ASSUME BoundAssumption == {MaxFailures, MaxRestarts, MaxLeft} \subseteq Nat

VARIABLES
    owner,      \* who started each task
    mem,        \* _tasks: the status of each record, or "absent"
    reloaded,   \* the record came from the store: no thread holds its events
    running,    \* _pause_event of the original record (set: may run)
    stop,       \* _stop_event of the original record
    unlogged,   \* requests that changed the record and have not yet appended
                \* their line to its log
    store,      \* the status in the task's row, or "none"
    writes,     \* snapshots on their way to the store, in revision order
    loading,    \* the row a request has read but not yet merged, or "none"
    wpc,        \* where the task's worker is
    course,     \* courses the worker has finished
    failed,     \* the worker counted a failed course
    jpc,        \* the job thread that outlives its chapter
    failures,   \* store writes that failed so far
    restarts    \* restarts so far

record == <<owner, mem, reloaded, running, stop>>
work   == <<wpc, course, failed>>
vars   == <<record, unlogged, store, writes, loading, work, jpc, failures, restarts>>

\* Wrong on purpose: a paused task is not active.
NotPaused == {"running", "pending", "cancelling"}

\* task_admission.py also knows "stopping" and "error", which this manager
\* never sets.
Active   == {"running", "pending", "paused", "cancelling"}
Terminal == {"completed", "failed", "cancelled"}
Status   == Active \cup Terminal

-----------------------------------------------------------------------------
(* The record and the store *)

\* Tasks with a snapshot on its way, or about to have one.
Writing == {t \in TaskId : writes[t] # <<>> \/ unlogged[t] > 0}

\* A snapshot of t with status s, reserved by thread w.
Snapshot(t, s, w) == writes' = [writes EXCEPT ![t] = Append(@, [status |-> s, by |-> w])]

\* _update_task(status=s): nothing happens to an evicted record or an
\* unchanged status.
UpdateTask(t, s, w) ==
    IF mem[t] \in {"absent", s}
    THEN UNCHANGED <<mem, writes>>
    ELSE /\ mem' = [mem EXCEPT ![t] = s]
         /\ Snapshot(t, s, w)

\* A thread that reserved a snapshot waits until it was written.
Free(t, w) == \A i \in DOMAIN writes[t] : writes[t][i].by # w

\* Wrong on purpose: the overflow also evicts active records.
CleanedOfAnything(m, busy) ==
    LET present == {t \in TaskId : m[t] # "absent"}
        old == present \ busy
    IN  {[t \in TaskId |-> IF t \in E THEN "absent" ELSE m[t]] : E \in SUBSET old}

\* What cleanup_task_records may leave of records m, those in busy having
\* snapshots on their way.  Which finished records
\* have expired is open; on overflow finished records go until the bound is
\* met or only active ones are left.  An expired or least recently used
\* record is old enough for its snapshots to have reached the store.
Cleaned(m, busy) ==
    LET present == {t \in TaskId : m[t] # "absent"}
        old == {t \in present \ busy : m[t] \in Terminal}
        left(E) == present \ E
    IN  {[t \in TaskId |-> IF t \in E THEN "absent" ELSE m[t]] :
            E \in {E \in SUBSET old : \/ Cardinality(left(E)) <= MaxRecords
                                      \/ old \subseteq E}}

\* The user owns an active task.
HasActive(m, u) == \E t \in TaskId : owner[t] = u /\ m[t] \in Active

\* Wrong on purpose: a paused task does not count.
CountUnpaused(m) == Cardinality({t \in TaskId : m[t] \in Active \ {"paused"}})

CountActive(m) == Cardinality({t \in TaskId : m[t] \in Active})

\* Wrong on purpose: a finished task is taken for an interrupted one.
MergedAll(s) == "failed"

\* _merge_task_from_store: a row left active was interrupted by a restart.
Merged(s) == IF s \in Active THEN "failed" ELSE s

Init ==
    /\ owner = [t \in TaskId |-> Nobody]
    /\ mem = [t \in TaskId |-> "absent"]
    /\ reloaded = [t \in TaskId |-> FALSE]
    /\ running = [t \in TaskId |-> TRUE]
    /\ stop = [t \in TaskId |-> FALSE]
    /\ unlogged = [t \in TaskId |-> 0]
    /\ store = [t \in TaskId |-> "none"]
    /\ writes = [t \in TaskId |-> <<>>]
    /\ loading = [t \in TaskId |-> "none"]
    /\ wpc = [t \in TaskId |-> "none"]
    /\ course = [t \in TaskId |-> 0]
    /\ failed = [t \in TaskId |-> FALSE]
    /\ jpc = [t \in TaskId |-> "none"]
    /\ failures = 0 /\ restarts = 0

-----------------------------------------------------------------------------
(* Starting a task: start_task *)

\* Clean up, refuse a user who has an active task or a full registry,
\* otherwise create the record, clean up again and reserve its first
\* snapshot; all under the lock.
Start(t) ==
    /\ owner[t] = Nobody
    /\ \E u \in User, m \in Cleaned(mem, Writing) :
          /\ ~HasActive(m, u)
          /\ CountActive(m) < MaxActive
          /\ mem' \in Cleaned([m EXCEPT ![t] = "pending"], Writing)
          /\ owner' = [owner EXCEPT ![t] = u]
    /\ Snapshot(t, "pending", "worker")
    /\ wpc' = [wpc EXCEPT ![t] = "admit"]
    /\ reloaded' = [reloaded EXCEPT ![t] = FALSE]
    /\ UNCHANGED <<unlogged, running, stop, store, loading, course, failed, jpc,
                   failures, restarts>>

\* A refused start, and every look at a task, its logs or the list of tasks,
\* cleans up and changes nothing else.
Browse ==
    /\ mem' \in Cleaned(mem, Writing)
    /\ UNCHANGED <<unlogged, owner, reloaded, running, stop, store, writes, loading, work, jpc,
                   failures, restarts>>

\* The first snapshot is in the store: start the worker thread.
Spawn(t) ==
    /\ wpc[t] = "admitted"
    /\ wpc' = [wpc EXCEPT ![t] = "boot"]
    /\ UNCHANGED <<record, unlogged, store, writes, loading, course, failed, jpc, failures, restarts>>

\* Wrong on purpose: the thread that could not start is only reported.
SpawnFailsSilently(t) ==
    /\ wpc[t] = "admitted"
    /\ wpc' = [wpc EXCEPT ![t] = "ended"]
    /\ UNCHANGED <<record, unlogged, store, writes, loading, course, failed, jpc, failures, restarts>>

\* The thread cannot be started: the task has failed.
SpawnFails(t) ==
    /\ wpc[t] = "admitted"
    /\ UpdateTask(t, "failed", "worker")
    /\ wpc' = [wpc EXCEPT ![t] = "ended"]
    /\ UNCHANGED <<unlogged, owner, reloaded, running, stop, store, loading, course, failed, jpc,
                   failures, restarts>>

\* _record_admission_persist_failure: the first snapshot did not reach the
\* store for certain; the task is failed and a snapshot that says so follows.
Refuse(t) ==
    /\ wpc[t] = "refused"
    /\ mem' = [mem EXCEPT ![t] = "failed"]
    /\ Snapshot(t, "failed", "worker")
    /\ wpc' = [wpc EXCEPT ![t] = "ended"]
    /\ UNCHANGED <<unlogged, owner, reloaded, running, stop, store, loading, course, failed, jpc,
                   failures, restarts>>

-----------------------------------------------------------------------------
(* The requests: pause_task, resume_task, stop_task *)

Accepts(t) == mem[t] # "absent" /\ Len(writes[t]) + unlogged[t] < MaxWrites

\* A request changes the record under the lock and appends its log line, with
\* which a snapshot goes out, in a critical section of its own.
LogLater(t) == unlogged' = [unlogged EXCEPT ![t] = @ + 1] /\ UNCHANGED writes

\* The events of a reloaded record are new ones that no thread holds.
Set(event, t, b) == event' = IF reloaded[t] THEN event ELSE [event EXCEPT ![t] = b]

Pause(t) ==
    /\ Accepts(t) /\ mem[t] \notin Terminal
    /\ mem' = [mem EXCEPT ![t] = "paused"]
    /\ Set(running, t, FALSE)
    /\ LogLater(t)
    /\ UNCHANGED <<owner, reloaded, stop, store, loading, work, jpc, failures, restarts>>

Resume(t) ==
    /\ Accepts(t) /\ mem[t] \notin Terminal
    /\ mem' = [mem EXCEPT ![t] = "running"]
    /\ Set(running, t, TRUE)
    /\ LogLater(t)
    /\ UNCHANGED <<owner, reloaded, stop, store, loading, work, jpc, failures, restarts>>

\* The events are set even for a finished task; its status stays.
Stop(t) ==
    /\ Accepts(t)
    /\ mem' = IF mem[t] \in Terminal THEN mem ELSE [mem EXCEPT ![t] = "cancelling"]
    /\ Set(stop, t, TRUE) /\ Set(running, t, TRUE)
    /\ LogLater(t)
    /\ UNCHANGED <<owner, reloaded, store, loading, work, jpc, failures, restarts>>

\* _append_task_log: the snapshot shows what the record says by now.
AppendLog(t) ==
    /\ unlogged[t] > 0
    /\ unlogged' = [unlogged EXCEPT ![t] = @ - 1]
    /\ IF mem[t] = "absent" THEN UNCHANGED writes ELSE Snapshot(t, mem[t], "request")
    /\ UNCHANGED <<record, store, loading, work, jpc, failures, restarts>>

-----------------------------------------------------------------------------
(* The worker: _run_task_worker *)

At(t, pc) == wpc[t] = pc /\ Free(t, "worker")
Go(t, pc) == wpc' = [wpc EXCEPT ![t] = pc]

Boot(t) ==
    /\ At(t, "boot")
    /\ UpdateTask(t, "running", "worker")
    /\ Go(t, "login")
    /\ UNCHANGED <<unlogged, owner, reloaded, running, stop, store, loading, course, failed, jpc,
                   failures, restarts>>

\* Login and the choice of courses: any of it may fail (_fail_task), an
\* unexpected exception included (_run_task_worker_guarded).
Login(t) ==
    /\ At(t, "login")
    /\ \/ /\ Go(t, "course")
          /\ UNCHANGED <<mem, writes>>
       \/ /\ Go(t, "ended")
          /\ UpdateTask(t, "failed", "worker")
    /\ UNCHANGED <<unlogged, owner, reloaded, running, stop, store, loading, course, failed, jpc,
                   failures, restarts>>

\* _cancel_task, and the worker returns.
Cancel(t) ==
    /\ UpdateTask(t, "cancelled", "worker")
    /\ Go(t, "ended")

\* The head of the loop over the courses.
NextCourse(t) ==
    /\ At(t, "course")
    /\ IF course[t] = NumCourses
       THEN Go(t, "finish") /\ UNCHANGED <<mem, writes>>
       ELSE IF stop[t] THEN Cancel(t)
       ELSE Go(t, "wait") /\ UNCHANGED <<mem, writes>>
    /\ UNCHANGED <<unlogged, owner, reloaded, running, stop, store, loading, course, failed, jpc,
                   failures, restarts>>

\* Wrong on purpose: the loop waits for the pause event alone.
WaitIgnoringStop(t) ==
    /\ wpc[t] \in {"wait", "cb_wait"} /\ Free(t, "worker")
    /\ Go(t, IF running[t]
             THEN IF wpc[t] = "wait" THEN "waited" ELSE "learn"
             ELSE IF wpc[t] = "wait" THEN "mark" ELSE "cb_mark")
    /\ UNCHANGED <<record, unlogged, store, writes, loading, course, failed, jpc, failures, restarts>>

\* _wait_for_resume, the condition of its loop; from the head of a course
\* ("wait") and from a chapter or video callback ("cb_wait").
Wait(t) ==
    /\ wpc[t] \in {"wait", "cb_wait"} /\ Free(t, "worker")
    /\ Go(t, IF stop[t] \/ running[t]
             THEN IF wpc[t] = "wait" THEN "waited" ELSE "learn"
             ELSE IF wpc[t] = "wait" THEN "mark" ELSE "cb_mark")
    /\ UNCHANGED <<record, unlogged, store, writes, loading, course, failed, jpc, failures, restarts>>

\* _wait_for_resume, the body of its loop.
MarkPaused(t) ==
    /\ wpc[t] \in {"mark", "cb_mark"} /\ Free(t, "worker")
    /\ UpdateTask(t, "paused", "worker")
    /\ Go(t, IF wpc[t] = "mark" THEN "wait" ELSE "cb_wait")
    /\ UNCHANGED <<unlogged, owner, reloaded, running, stop, store, loading, course, failed, jpc,
                   failures, restarts>>

\* What _wait_for_resume returns is read anew from the stop event.
Waited(t) ==
    /\ At(t, "waited")
    /\ IF stop[t] THEN Cancel(t) ELSE Go(t, "go") /\ UNCHANGED <<mem, writes>>
    /\ UNCHANGED <<unlogged, owner, reloaded, running, stop, store, loading, course, failed, jpc,
                   failures, restarts>>

\* The course begins: the task is shown as running.
BeginCourse(t) ==
    /\ At(t, "go")
    /\ UpdateTask(t, "running", "worker")
    /\ Go(t, "fetch")
    /\ UNCHANGED <<unlogged, owner, reloaded, running, stop, store, loading, course, failed, jpc,
                   failures, restarts>>

\* The course is over; it failed or not.
EndCourse(t, bad) ==
    /\ failed' = [failed EXCEPT ![t] = @ \/ bad]
    /\ course' = [course EXCEPT ![t] = @ + 1]
    /\ Go(t, "course")

\* The chapters cannot be listed, or the chosen last one is gone: the course
\* counts as failed; otherwise it is studied.
FetchChapters(t) ==
    /\ At(t, "fetch")
    /\ \/ Go(t, "learn") /\ UNCHANGED <<course, failed>>
       \/ EndCourse(t, TRUE)
    /\ UNCHANGED <<record, unlogged, store, writes, loading, jpc, failures, restarts>>

\* While JobProcessor.run is busy, a chapter_start or video_progress callback
\* sees the pause event cleared and waits.
Callback(t) ==
    /\ At(t, "learn")
    /\ ~stop[t] /\ ~running[t]
    /\ Go(t, "cb_wait")
    /\ UNCHANGED <<record, unlogged, store, writes, loading, course, failed, jpc, failures, restarts>>

\* A job of a chapter fails and process_chapter returns ERROR while another
\* job of it is still playing: its thread is left behind.
LeaveJobThread(t) ==
    /\ At(t, "learn")
    /\ jpc[t] = "none" /\ Cardinality({u \in TaskId : jpc[u] # "none"}) < MaxLeft
    /\ jpc' = [jpc EXCEPT ![t] = "playing"]
    /\ UNCHANGED <<record, unlogged, store, writes, loading, work, failures, restarts>>

\* JobProcessor.run is over: a stop cancels the task, unless it raised;
\* otherwise the course counts as completed or failed.
CourseOver(t) ==
    /\ At(t, "learn")
    /\ \/ stop[t] /\ Cancel(t) /\ UNCHANGED <<course, failed>>
       \/ ~stop[t] /\ EndCourse(t, FALSE) /\ UNCHANGED <<mem, writes>>
       \/ EndCourse(t, TRUE) /\ UNCHANGED <<mem, writes>>
    /\ UNCHANGED <<unlogged, owner, reloaded, running, stop, store, loading, jpc, failures, restarts>>

\* After the last course the stop event is read once more ...
Finish(t) ==
    /\ At(t, "finish")
    /\ IF stop[t] THEN Cancel(t) ELSE Go(t, "settle") /\ UNCHANGED <<mem, writes>>
    /\ UNCHANGED <<unlogged, owner, reloaded, running, stop, store, loading, course, failed, jpc,
                   failures, restarts>>

\* ... before the outcome is recorded.
Settle(t) ==
    /\ At(t, "settle")
    /\ UpdateTask(t, IF failed[t] THEN "failed" ELSE "completed", "worker")
    /\ Go(t, "ended")
    /\ UNCHANGED <<unlogged, owner, reloaded, running, stop, store, loading, course, failed, jpc,
                   failures, restarts>>

-----------------------------------------------------------------------------
(* A job thread left behind: video_progress_callback *)

\* The video ends, or the player sees the stop event; otherwise a progress
\* report finds the pause event cleared (both events are the original ones).
JobTick(t) ==
    /\ jpc[t] = "playing" /\ Free(t, "job")
    /\ \/ jpc' = [jpc EXCEPT ![t] = "gone"]
       \/ ~stop[t] /\ ~running[t] /\ jpc' = [jpc EXCEPT ![t] = "mark"]
    /\ UNCHANGED <<record, unlogged, store, writes, loading, work, failures, restarts>>

\* ... and marks the task paused, whatever became of it since.
JobMarkPaused(t) ==
    /\ jpc[t] = "mark"
    /\ UpdateTask(t, "paused", "job")
    /\ jpc' = [jpc EXCEPT ![t] = "playing"]
    /\ UNCHANGED <<unlogged, owner, reloaded, running, stop, store, loading, work, failures, restarts>>

-----------------------------------------------------------------------------
(* The store *)

\* The answer of the write of t's first snapshot decides over the admission.
Admission(t, ok) ==
    wpc' = IF wpc[t] = "admit" /\ Head(writes[t]).by = "worker"
           THEN [wpc EXCEPT ![t] = IF ok THEN "admitted" ELSE "refused"]
           ELSE wpc

\* Wrong on purpose: the newest snapshot is written first.
StoreNewestFirst(t) ==
    /\ writes[t] # <<>>
    /\ writes' = [writes EXCEPT ![t] = SubSeq(@, 1, Len(@) - 1)]
    /\ store' = [store EXCEPT ![t] = writes[t][Len(writes[t])].status]
    /\ Admission(t, TRUE)
    /\ UNCHANGED <<record, unlogged, loading, course, failed, jpc, failures, restarts>>

\* upsert_task of the oldest snapshot.
StoreWrite(t) ==
    /\ writes[t] # <<>>
    /\ writes' = [writes EXCEPT ![t] = Tail(@)]
    /\ store' = [store EXCEPT ![t] = Head(writes[t]).status]
    /\ Admission(t, TRUE)
    /\ UNCHANGED <<record, unlogged, loading, course, failed, jpc, failures, restarts>>

\* The upsert fails, possibly after the row was written.
StoreFails(t) ==
    /\ writes[t] # <<>>
    /\ failures < MaxFailures
    /\ failures' = failures + 1
    /\ writes' = [writes EXCEPT ![t] = Tail(@)]
    /\ store' \in {store, [store EXCEPT ![t] = Head(writes[t]).status]}
    /\ Admission(t, FALSE)
    /\ UNCHANGED <<record, unlogged, loading, course, failed, jpc, restarts>>

\* _load_task_from_store, _load_tasks_from_store_for_user: read the row of a
\* task that is not in memory ...
LoadRow(t) ==
    /\ mem[t] = "absent" /\ store[t] # "none" /\ loading[t] = "none"
    /\ loading' = [loading EXCEPT ![t] = store[t]]
    /\ UNCHANGED <<record, unlogged, store, writes, work, jpc, failures, restarts>>

\* ... and merge it, unless the record is there again by then.
MergeRow(t) ==
    /\ loading[t] # "none"
    /\ loading' = [loading EXCEPT ![t] = "none"]
    /\ IF mem[t] = "absent"
       THEN /\ mem' = [mem EXCEPT ![t] = Merged(loading[t])]
            /\ reloaded' = [reloaded EXCEPT ![t] = TRUE]
            /\ IF loading[t] \in Active THEN Snapshot(t, "failed", "request")
                                        ELSE UNCHANGED writes
       ELSE UNCHANGED <<mem, reloaded, writes>>
    /\ UNCHANGED <<unlogged, owner, running, stop, store, work, jpc, failures, restarts>>

\* The service dies with its memory and threads and comes up again:
\* _restore_tasks_from_store merges every row before the first request, and
\* the snapshots of the interrupted tasks are written, or their writes fail.
Restart ==
    /\ restarts < MaxRestarts
    /\ restarts' = restarts + 1
    /\ LET row(t) == IF store[t] = "none" THEN "absent" ELSE Merged(store[t])
           interrupted == {t \in TaskId : store[t] \in Active}
       IN  \E lost \in SUBSET interrupted :
              /\ failures + Cardinality(lost) <= MaxFailures
              /\ failures' = failures + Cardinality(lost)
              /\ mem' \in Cleaned([t \in TaskId |-> row(t)], {})
              /\ store' = [t \in TaskId |-> IF t \in interrupted \ lost THEN "failed" ELSE store[t]]
    /\ reloaded' = [t \in TaskId |-> TRUE]
    /\ unlogged' = [t \in TaskId |-> 0]
    /\ writes' = [t \in TaskId |-> <<>>]
    /\ loading' = [t \in TaskId |-> "none"]
    /\ wpc' = [t \in TaskId |-> IF owner[t] # Nobody THEN "ended" ELSE "none"]
    /\ jpc' = [t \in TaskId |-> IF jpc[t] = "none" THEN "none" ELSE "gone"]
    /\ UNCHANGED <<owner, running, stop, course, failed>>

-----------------------------------------------------------------------------
WorkerStep(t) ==
    \/ Spawn(t) \/ SpawnFails(t) \/ Refuse(t)
    \/ Boot(t) \/ Login(t) \/ NextCourse(t)
    \/ Wait(t) \/ MarkPaused(t) \/ Waited(t) \/ BeginCourse(t)
    \/ FetchChapters(t) \/ Callback(t) \/ CourseOver(t)
    \/ Finish(t) \/ Settle(t)

\* The thread of a request goes on.
RequestStep(t) == AppendLog(t) \/ MergeRow(t)

JobStep(t) == JobTick(t) \/ JobMarkPaused(t)

StoreStep(t) == StoreWrite(t) \/ StoreFails(t)

Request(t) == Start(t) \/ Pause(t) \/ Resume(t) \/ Stop(t) \/ LoadRow(t)

Next ==
    \/ \E t \in TaskId : Request(t) \/ RequestStep(t) \/ WorkerStep(t)
                            \/ LeaveJobThread(t) \/ JobStep(t) \/ StoreStep(t)
    \/ Browse
    \/ Restart

Spec == Init /\ [][Next]_vars

\* Threads run and the store answers; nobody is obliged to send a request, and
\* a user may pause a task for ever.
FairSpec ==
    /\ Spec
    /\ \A t \in TaskId :
          WF_vars(WorkerStep(t)) /\ WF_vars(RequestStep(t)) /\ WF_vars(JobStep(t)) /\ WF_vars(StoreStep(t))

-----------------------------------------------------------------------------
(* Properties *)

WorkerPC == {"none", "admit", "admitted", "refused", "boot", "login", "course", "wait",
             "mark", "waited", "go", "fetch", "learn", "cb_wait", "cb_mark", "finish",
             "settle", "ended"}

\* The task is being admitted or worked on.
Working(t) == wpc[t] \notin {"none", "ended"}

\* Every variable has its type; in particular every status, in memory or in
\* the store, is one that task_admission classifies.
TypeOK ==
    /\ owner \in [TaskId -> User \cup {Nobody}]
    /\ mem \in [TaskId -> Status \cup {"absent"}]
    /\ unlogged \in [TaskId -> 0 .. MaxWrites]
    /\ store \in [TaskId -> Status \cup {"none"}]
    /\ loading \in [TaskId -> Status \cup {"none"}]
    /\ writes \in [TaskId -> Seq([status : Status, by : {"worker", "request", "job"}])]
    /\ {reloaded, running, stop, failed} \subseteq [TaskId -> BOOLEAN]
    /\ wpc \in [TaskId -> WorkerPC]
    /\ jpc \in [TaskId -> {"none", "playing", "mark", "gone"}]
    /\ course \in [TaskId -> 0 .. NumCourses]
    /\ failures \in 0 .. MaxFailures /\ restarts \in 0 .. MaxRestarts

\* However requests, workers, job threads, evictions and restarts interleave,
\* at most one task of a user is worked on (TaskAlreadyActiveError).
OneWorkerPerUser ==
    \A s, t \in TaskId : Working(s) /\ Working(t) /\ owner[s] = owner[t] => s = t

\* No more than MaxActive tasks are worked on (TaskCapacityError).
CapacityRespected == Cardinality({t \in TaskId : Working(t)}) <= MaxActive

\* A task that is being worked on keeps its own record, with the events its
\* threads hold and an active status: cleanup_task_records never takes it away
\* and no row of the store replaces it.
WorkKeepsItsRecord ==
    \A t \in TaskId : Working(t) => mem[t] \in Active /\ ~reloaded[t]

\* A task shown as active has a worker, or its admission is under way, unless
\* a job thread of it was left behind: no failed start, lost write, eviction,
\* reload or restart leaves a task that locks its user out.
ActiveHasWorker ==
    \A t \in TaskId : mem[t] \in Active /\ jpc[t] = "none" => Working(t)

\* Once the snapshots of a task are through, and none of its writes failed, its
\* row says what its record says.
StoreCatchesUp ==
    \A t \in TaskId :
        (mem[t] # "absent" /\ ~reloaded[t] /\ t \notin Writing /\ failures = 0)
        => store[t] = mem[t]

\* A finished row is the outcome the user was promised: no late snapshot,
\* reload or restart changes it, unless a job thread was left behind.
OutcomeDurable ==
    [][\A t \in TaskId :
          store[t] \in Terminal /\ jpc[t] = "none" => store'[t] = store[t]]_vars

\* The status get_task answers: of the record, or else of the row as it will be
\* merged (a row that cannot be read tells nothing, and changes nothing).
Shown ==
    [t \in TaskId |-> IF mem[t] # "absent" THEN mem[t]
                      ELSE IF store[t] = "none" THEN "none" ELSE Merged(store[t])]

\* The end that a task's row tells.
Kept == [t \in TaskId |-> IF store[t] \in Terminal THEN store[t] ELSE "none"]

Life == INSTANCE TaskLife
    WITH shown <- Shown, kept <- Kept, haunted <- {t \in TaskId : jpc[t] # "none"},
         faulty <- (failures # 0)

\* However records, rows and snapshots go apart, get_task shows the life of a task
\* that TaskLife.tla promises: one beginning, one end, and no trace of an
\* eviction, a reload or a late snapshot.
LivesAsPromised == Life!Spec

\* A stop that reaches a task being worked on ends the work, even if the user
\* goes on pausing and resuming it.
StopEndsWork == \A t \in TaskId : stop[t] /\ Working(t) ~> ~Working(t)

\* A task that was asked to cancel is cancelled, or finished otherwise
\* (docs/API.md: "Cancel a task").
CancelIsCompleted == \A t \in TaskId : mem[t] = "cancelling" ~> mem[t] # "cancelling"
=============================================================================
