------------------------------- MODULE TaskFeed -------------------------------
(***************************************************************************)
(* The Zhihuishu tasks of one user as the course API shows and steers them *)
(* (api/v1/course.py): the records of _course_tasks beside the tasks of    *)
(* the adapters, which requests read and write in sections of their own.   *)
(*                                                                         *)
(* A task is its status here; ZhihuishuTask has its thread and counters,   *)
(* ZhihuishuLogin the logins that put another adapter into the registry.   *)
(* Every request for another user's record is refused, so one user is all. *)
(***************************************************************************)
EXTENDS Integers, FiniteSets

CONSTANTS
    MaxLogins, \* bound: logins of the user, each with an adapter of its own
    MaxTasks,  \* bound: tasks, numbered as they are created
    Call       \* requests under way

VARIABLES
    entry,     \* the adapter in _user_adapters, 0 for none
    logins,    \* adapters so far
    latest,    \* adapter: _task_state
    owner,     \* task: its adapter
    state,     \* task: its status
    feed,      \* task: the status of its record
    told,      \* history: a poll has recorded its end, none older is under way
    place,     \* where each request is
    held,      \* the adapter it got
    on,        \* the task it is about
    word       \* the status it is going to write

tasks == <<latest, owner, state>>
records == <<feed, told>>
calls == <<place, held, on, word>>
feedVars == <<entry, logins, tasks, records, calls>>

Adapter == 1 .. MaxLogins
FeedTask == 1 .. MaxTasks
Active == {"running", "paused"}
Terminal == {"completed", "cancelled", "error"}
Place == {"idle", "create", "progress", "register", "ask", "update", "mark", "markAll"}

Init ==
    /\ entry = 0 /\ logins = 0
    /\ latest = [a \in Adapter |-> 0]
    /\ owner = [t \in FeedTask |-> 0]
    /\ state = [t \in FeedTask |-> "absent"]
    /\ feed = [t \in FeedTask |-> "absent"]
    /\ told = [t \in FeedTask |-> FALSE]
    /\ place = [c \in Call |-> "idle"]
    /\ held = [c \in Call |-> 0]
    /\ on = [c \in Call |-> 0]
    /\ word = [c \in Call |-> "none"]

\* A request that answers keeps nothing.
Answer(c) ==
    /\ place' = [place EXCEPT ![c] = "idle"]
    /\ held' = [held EXCEPT ![c] = 0]
    /\ on' = [on EXCEPT ![c] = 0]
    /\ word' = [word EXCEPT ![c] = "none"]

To(c, p) == place' = [place EXCEPT ![c] = p]
Goes(c, p) == To(c, p) /\ UNCHANGED <<held, on, word>>

\* A request that needs the adapter is refused without one; some go back to it.
Needs(c, p) == place[c] = "idle" /\ entry # 0 /\ To(c, p)
Gets(c, p) ==
    /\ Needs(c, p)
    /\ held' = [held EXCEPT ![c] = entry]

\* The adapter gives a task another status.
Becomes(t, s) ==
    /\ state' = [state EXCEPT ![t] = s]
    /\ told' = [told EXCEPT ![t] = @ /\ s \in Terminal]

Keeps == UNCHANGED <<state, told>>

-----------------------------------------------------------------------------
(* The registry and the tasks' threads *)

\* A login puts its own adapter into the registry, over one with a task if need be.
LogIn ==
    /\ logins < MaxLogins
    /\ logins' = logins + 1 /\ entry' = logins'
    /\ UNCHANGED <<tasks, records, calls>>

Busy(a) == latest[a] # 0 /\ state[latest[a]] \in Active

\* cleanup_expired_entries: an adapter nobody uses and nothing runs on.
ExpireAdapter ==
    /\ entry # 0 /\ ~Busy(entry)
    /\ entry' = 0
    /\ UNCHANGED <<logins, tasks, records, calls>>

\* The records of tasks that ended are removed after two hours.
ExpireRecord(t) ==
    /\ feed[t] \in Terminal
    /\ feed' = [feed EXCEPT ![t] = "absent"]
    /\ UNCHANGED <<entry, logins, tasks, told, calls>>

\* _run_task_loop reaches the end of its videos, or the thread crashes.
End(t) ==
    /\ state[t] \in Active
    /\ \E s \in {"completed", "error"} : Becomes(t, s)
    /\ UNCHANGED <<entry, logins, latest, owner, feed, calls>>

-----------------------------------------------------------------------------
(* Starting a task *)

\* zhihuishu_start_course, zhihuishu_start_course_task and, whose AI answering is
\* left out, zhihuishu_start_ai_course_task: without an active task the videos
\* are listed.  Create looks again, so the two are one step here.
StartCourse(c) ==
    /\ Gets(c, "create")
    /\ ~Busy(entry)
    /\ UNCHANGED <<entry, logins, tasks, records, on, word>>

\* The platform fails, or the chapter to end with is not found.
StartFails(c) ==
    /\ place[c] = "create"
    /\ Answer(c)
    /\ UNCHANGED <<entry, logins, tasks, records>>

\* start_course refuses while a task is active.
Create(c) ==
    /\ place[c] = "create"
    /\ \/ Busy(held[c]) /\ Answer(c) /\ Keeps /\ UNCHANGED <<latest, owner>>
       \/ /\ ~Busy(held[c])
          /\ \E t \in FeedTask, s \in {"running", "completed"} :
                /\ state[t] = "absent" /\ \A u \in 1 .. t - 1 : state[u] # "absent"
                /\ Becomes(t, s)
                /\ latest' = [latest EXCEPT ![held[c]] = t]
                /\ owner' = [owner EXCEPT ![t] = held[c]]
                /\ on' = [on EXCEPT ![c] = t]
                /\ To(c, "progress")
          /\ UNCHANGED <<held, word>>
    /\ UNCHANGED <<entry, logins, feed>>

\* If the task's thread cannot be started there is no record (503).
SpawnFails(c) ==
    /\ place[c] = "progress" /\ state[on[c]] # "completed"
    /\ Becomes(on[c], "error")
    /\ Answer(c)
    /\ UNCHANGED <<entry, logins, latest, owner, feed>>

\* get_progress(course_id): of the latest task, if it is of this course.
ReadProgress(c) ==
    /\ place[c] = "progress"
    /\ \E s \in {state[latest[held[c]]]} \cup (IF latest[held[c]] = on[c] THEN {} ELSE {"idle"}) :
          word' = [word EXCEPT ![c] = s]
    /\ To(c, "register")
    /\ held' = [held EXCEPT ![c] = 0]
    /\ UNCHANGED <<entry, logins, tasks, records, on>>

\* _register_zhihuishu_course_task
RegisterTask(c) ==
    /\ place[c] = "register"
    /\ feed' = [feed EXCEPT ![on[c]] = word[c]]
    /\ Answer(c)
    /\ UNCHANGED <<entry, logins, tasks, told>>

-----------------------------------------------------------------------------
(* A poll: get_course_status *)

\* Its record, and the adapter if there is one.
Poll(c) ==
    /\ \E t \in FeedTask :
          /\ feed[t] # "absent"
          /\ Gets(c, "ask")
          /\ on' = [on EXCEPT ![c] = t]
    /\ UNCHANGED <<entry, logins, tasks, records, word>>

\* Wrong on purpose: the course's newest task is taken for the record's.
ReadLatest(c) ==
    /\ place[c] = "ask"
    /\ IF latest[held[c]] # 0
       THEN /\ word' = [word EXCEPT ![c] = state[latest[held[c]]]]
            /\ To(c, "update")
            /\ held' = [held EXCEPT ![c] = 0]
            /\ UNCHANGED on
       ELSE Answer(c)
    /\ UNCHANGED <<entry, logins, tasks, records>>

\* adapter.get_task: a later login does not know the task.
ReadTask(c) ==
    /\ place[c] = "ask"
    /\ IF owner[on[c]] = held[c]
       THEN /\ word' = [word EXCEPT ![c] = state[on[c]]]
            /\ To(c, "update")
            /\ held' = [held EXCEPT ![c] = 0]
            /\ UNCHANGED on
       ELSE Answer(c)
    /\ UNCHANGED <<entry, logins, tasks, records>>

\* Polls of a task that read it before it ended.
Older(t, c) == \E d \in Call \ {c} : place[d] = "update" /\ on[d] = t /\ word[d] \notin Terminal

\* _update_course_task writes whatever was read, if the record is there.
UpdateRecord(c) ==
    /\ place[c] = "update"
    /\ LET t == on[c]
       IN  /\ feed' = [feed EXCEPT ![t] = IF @ = "absent" THEN @ ELSE word[c]]
           /\ told' = [told EXCEPT ![t] = @ \/ (/\ {word[c], state[t]} \subseteq Terminal
                                                /\ ~Older(t, c))]
    /\ Answer(c)
    /\ UNCHANGED <<entry, logins, tasks>>

-----------------------------------------------------------------------------
(* Pausing, resuming and cancelling *)

\* pause_task, resume_task and cancel_task of the adapter: its latest task,
\* unless it is finished already; cancelling looks at nothing.
Change(a, s) ==
    LET t == latest[a]
    IN  IF t # 0 /\ (s = "cancelled" \/ state[t] \notin {"completed", "cancelled"})
        THEN Becomes(t, s) ELSE Keeps

Steer(c) ==
    /\ \E s \in {"paused", "running", "cancelled"} :
          /\ Needs(c, "markAll")
          /\ Change(entry, s)
          /\ word' = [word EXCEPT ![c] = s]
    /\ UNCHANGED <<entry, logins, latest, owner, feed, held, on>>

\* Wrong on purpose: records that say how a task ended are overwritten.
MarkEvery(c) ==
    /\ place[c] = "markAll"
    /\ feed' = [t \in FeedTask |-> IF feed[t] = "absent" THEN feed[t] ELSE word[c]]
    /\ Answer(c)
    /\ UNCHANGED <<entry, logins, tasks, told>>

\* All records of the user that do not say the task ended, whatever came of it.
MarkAll(c) ==
    /\ place[c] = "markAll"
    /\ feed' = [t \in FeedTask |-> IF feed[t] \in Terminal \cup {"absent"} THEN feed[t] ELSE word[c]]
    /\ Answer(c)
    /\ UNCHANGED <<entry, logins, tasks, told>>

\* zhihuishu_cancel_task: one task of the adapter, finished or not, ...
CancelTask(c) ==
    /\ \E t \in FeedTask :
          /\ owner[t] = entry
          /\ Needs(c, "mark")
          /\ Becomes(t, "cancelled")
          /\ on' = [on EXCEPT ![c] = t]
    /\ UNCHANGED <<entry, logins, latest, owner, feed, held, word>>

\* ... then its record.
MarkOne(c) ==
    /\ place[c] = "mark"
    /\ feed' = [feed EXCEPT ![on[c]] = IF @ \in Terminal \cup {"absent"} THEN @ ELSE "cancelled"]
    /\ Answer(c)
    /\ UNCHANGED <<entry, logins, tasks, told>>

\* zhihuishu_logout: the adapter, if there is one, and the registry, which the
\* code does one after the other (ZhihuishuLogin has the steps); then the records.
LogOut(c) ==
    /\ place[c] = "idle"
    /\ IF entry = 0 THEN Keeps ELSE Change(entry, "cancelled")
    /\ entry' = 0
    /\ To(c, "markAll")
    /\ word' = [word EXCEPT ![c] = "cancelled"]
    /\ UNCHANGED <<logins, latest, owner, feed, held, on>>

-----------------------------------------------------------------------------
Starting(c) ==
    \/ StartCourse(c) \/ StartFails(c) \/ Create(c)
    \/ SpawnFails(c) \/ ReadProgress(c) \/ RegisterTask(c)

Polling(c) == Poll(c) \/ ReadTask(c) \/ UpdateRecord(c)

Steering(c) ==
    \/ Steer(c) \/ MarkAll(c) \/ CancelTask(c) \/ MarkOne(c) \/ LogOut(c)

Next ==
    \/ \E c \in Call : Starting(c) \/ Polling(c) \/ Steering(c)
    \/ \E t \in FeedTask : ExpireRecord(t) \/ End(t)
    \/ LogIn \/ ExpireAdapter

Spec == Init /\ [][Next]_feedVars

-----------------------------------------------------------------------------
(* Properties *)

TypeOK ==
    /\ logins \in 0 .. MaxLogins /\ entry \in 0 .. logins
    /\ latest \in [Adapter -> 0 .. MaxTasks]
    /\ owner \in [FeedTask -> 0 .. MaxLogins]
    /\ state \in [FeedTask -> Active \cup Terminal \cup {"absent"}]
    /\ feed \in [FeedTask -> Active \cup Terminal \cup {"absent", "idle"}]
    /\ told \in [FeedTask -> BOOLEAN]
    /\ place \in [Call -> Place] /\ held \in [Call -> 0 .. MaxLogins]

\* What a poll has recorded of a task's end stays: the record is never turned
\* back by a request that pauses, resumes, cancels or logs out, nor filled with
\* the progress of a later task of the course, unless a poll that read the task
\* before it ended is still under way or the task itself is resumed.
EndStaysTold ==
    \A t \in FeedTask : told[t] => feed[t] \in Terminal \cup {"absent"}

FeedSound == TypeOK /\ EndStaysTold
=============================================================================
