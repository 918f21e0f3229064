# University Helper: verification project

TLA+ models of the concurrent and failure-prone parts of University Helper (a
FastAPI backend that studies Chaoxing and Zhihuishu courses for its users and
signs them in, one PostgreSQL database per user, a React frontend and a Tauri
desktop shell), the TLC runs that check them on small instances, and TLAPS
proofs for every value of the constants. Paths below are relative to
`backend/app/` unless they start with another directory of the repository.

    tlc -workers 2 -config JobProcessor.cfg MCJobProcessor      # a run of PROJECT.json
    tlapm JobProcessorProofs.tla                                # the proofs of a module

`PROJECT.json` lists the components, the runs, for every checked property a
mutant of the code that breaks it, the source lines behind every definition,
the findings and the hazards.

## 1. The system

| Component | State | Operations | Interacts with |
|---|---|---|---|
| Chapter scheduler, `services/course/chaoxing/learning.py` `JobProcessor` | two queues, `unfinished_tasks`, `_pending_retries`, tries per chapter, failed list, stop event | `run`, workers, retry thread, inline mode, `_shutdown_run` | built by the learning manager for each course; calls `process_chapter` |
| Chapter and job processing, same file, `process_chapter`, `process_job` | a thread pool per chapter | fan-out over the jobs of a chapter, first failure wins, inline if no thread starts | job services; callbacks into the manager |
| Job services, `chaoxing/video_service.py`, `live_process.py`, `quiz_service.py` | position and reports of a video; answers of a quiz | study a video, audio, live or quiz | the platform; the question bank |
| Question bank, `chaoxing/answer_*.py`, `answer_providers/` | tokens and balances of providers, a cache in memory and in a file | `query`, `add_cache` | quiz threads of all tasks; the providers |
| Learning-task manager, `chaoxing/learning_manager.py`, and admission, `chaoxing/task_admission.py` | records, pause and stop event of each task, a sequencer per task | `start_task`, `pause_task`, `resume_task`, `stop_task`, `list_tasks`, `get_task_*`, the worker, reload, restore | course API; task store; scheduler |
| Task and history store, `services/course/task_store.py`, `storage/*` | rows in PostgreSQL or SQLite, pool or connection | upsert, list, get, append, ping, close | managers |
| Tenant pools, `db/session.py` | LRU map of connection pools with reference counts | `get_db_session`, checkout, release, eviction | every request that needs a user's database |
| Registration, `services/auth_service.py` | `users` row, `tenant_<name>` database | `register_user` and its clean-up | PostgreSQL |
| Schema bootstrap, `db/bootstrap.py` | main tables, template database, advisory lock | `ensure_*` | PostgreSQL; registration heals the template through it |
| Zhihuishu adapter, `services/course/zhihuishu/*` | current task, tasks by id, flags, login | start, pause, resume, cancel, logout, playback polling | course API |
| Sign-in manager, `chaoxing/signin.py` | clients per user, tasks, bounded history | login, `start_task`, worker, history | chat and location helpers; store |
| Zhihuishu logins, `api/v1/course.py` | QR sessions, an adapter per user | QR and password login, logout, clean-up | adapters; their worker threads |
| Course API, `api/v1/course.py`, `api/v1/chaoxing.py` | the task feed `_course_tasks` | task requests, feed, clean-up | managers and adapters |
| Rate limiting, `middleware/rate_limiter.py`, `chaoxing/rate_limiter.py` | counters in PostgreSQL, in memory as a fallback | one check per request | PostgreSQL |
| Desktop shell, `frontend/src-tauri/src/lib.rs` | start-up completion flag, sidecar handle | start, watchdog, exit, update | backend process |
| Frontend, `frontend/src/` | generations of polls, drafts, task lists | polling, start, stop | REST API |

Only `PROJECT.json` lists the rest (HTTP client and decoding, middleware,
credentials, deployment scripts): sequential code around an external platform,
with little state that threads share.

The server runs one process (`--workers 1`, `docs/ARCHITECTURE.md`), so locks
of the process are locks of the system; the desktop application is one process
too.

### What is hard, and what makes each part correct

* **Scheduler.** Up to five kinds of threads hand chapters to each other
  through two queues, and the controller decides from two counters, read one
  after the other, that a run is over. Correct: the counters are exact, a
  chapter is in one place, none is lost, one that failed five times stays given
  up, a run ends, and nothing of it runs on after it returned.
* **Task manager.** A worker, job threads, requests and reloads change one
  record under a lock and write snapshots of it *after* the lock is released;
  records are evicted from memory and come back from rows; the process dies.
  Correct: one worked-on task per user, within the capacity; a worked-on task
  keeps its record; a task shown as active is worked on (or its user is locked
  out); rows catch up with records and outcomes stay; a stop ends the work.
* **Pools.** The lock is not held over the slow calls, and a connection is
  returned by the *name* of its tenant. Correct: exact references, no pool
  closed in use, connections go home, overflow only when everything is busy.
* **Registration.** Two non-transactional effects (row, database) with a
  clean-up by hand, racing other requests of the name and crashes. Correct:
  accounts are never damaged by other registrations; failures leave nothing.
* **Zhihuishu.** A check, a slow call, a second check; then a thread that looks
  at the *current* task between long calls without the lock. Correct: one live
  task, honest counts and statuses, cancelled tasks end.
* **Zhihuishu logins.** Handlers of one event loop and worker threads of earlier
  logins change one registry; a clean-up looks at an adapter outside its lock.
  Correct: the newest login wins, an adapter in use is kept, withdrawn workers
  and abandoned sessions go.
* **Store.** SQLite: all threads share one connection, so only locks keep a
  statement of one call out of another call's transaction, and a failed
  roll-back must not be committed by the next call. PostgreSQL: transactions run
  side by side and answers of commits are lost. Correct: both keep the promise
  the managers rely on, no connection leaks, every call ends.
* **Chapters, videos, quizzes.** Threads that cannot be started, exceptions,
  stops, refreshes and refused reports at any point. Correct: a success is the
  success of all parts, a worker is not occupied for ever, a quiz is handed in
  for good only with enough answers from the bank, whichever thread fails.
* **Question bank.** Providers change token and balance under several threads;
  what is cached is given to every later task unchecked. Correct: nothing that
  does not fit gets there, what is known stays known, means are not lost.
* **Sign-in.** A record is shown as running before its row and its thread exist;
  login and the use of its client are two critical sections; lists may be
  unreadable. Correct: a record says "running" exactly while somebody works on
  it, "nothing open" is true, nothing is submitted twice.
* **Schema.** Servers, registrations and a migration tool repair and clone one
  template. Correct: a repair that ended left a complete template, a migration
  that says so left no incomplete database.
* **Rate limiter.** Two counters with windows of their own and times read before
  they are used. Correct: no client passes more often than the windows it was
  counted in allow, under no other name; the memory stays small.
* **Task feed.** Records are copies of the adapters' tasks, read and written in
  different sections. Correct: an end the user was told is not taken back.
* **Shell, frontend**: see section 7.

## 2. The modules

| Module | Models | EXTENDS / INSTANCE |
|---|---|---|
| `JobProcessor` | one `run()` of the chapter scheduler | |
| `MCJobProcessor`, `JobProcessorProofs` | its instances; its proofs | `JobProcessor` |
| `TaskLife` | abstract: what users of course tasks may rely on | |
| `LearningManager` | the life of course tasks: admission, requests, worker, job thread left behind, store, reload, restart; implements `TaskLife` | `INSTANCE TaskLife` |
| `MCLearningManager`, `LearningManagerProofs` | its instances; its proofs and those of the limiter | `LearningManager`; `MCAdmission` |
| `OrderedStore` | abstract: snapshots of a record reach its row in order or are skipped | |
| `PersistSequencer` | `_TaskPersistSequencer` and the threads that persist a record; implements `OrderedStore` | `INSTANCE OrderedStore` |
| `TenantPools`, `MCTenantPools`, `TenantPoolsProofs` | `get_db_session` on tenant databases | |
| `Registration`, `MCRegistration` | `register_user` | |
| `ZhihuishuTask`, `ZhihuishuTaskProofs` | the study tasks of one adapter | |
| `ZhihuishuLogin`, `ZhihuishuLoginProofs` | the QR and password logins of one user, expiry and logout | |
| `TaskRows` | abstract: what a storage backend promises for one row and one history | |
| `SqliteStore`, `PostgresStore` | the two backends; both implement `TaskRows` | `INSTANCE TaskRows` |
| `SchemaBootstrap` | repairs of the schemas, clones of the template, `migrate_tenants` | |
| `SigninTasks`, `SigninHistory`, `SigninScan` | the sign-in manager: tasks and clients; the history of a user; the scan and submission of one task | |
| `ChapterJobs` | one `process_chapter` with its executor | |
| `MediaJobs`, `WorkQuiz` | one video, audio or live; one quiz | |
| `AnswerBank` | the question bank of one task and the cache of all | |
| `ClientLimiter` | the rate limiter of the API | |
| `TaskFeed` | the Zhihuishu records of one user beside the adapters | |
| `MCStores`, `MCAdmission`, `MCParts` | hosts: several of these side by side in one run | `PersistSequencer`; `MCLearningManager`; `MCRegistration` |
| `StoresProofs` | proofs about the sequencer and the backends, both refinements included | `MCStores` |
| `PartsProofs` | proofs about registration, schema, sign-in tasks and history, question bank and feed | `MCParts` |
| `JobPartsProofs` | proofs about chapters, media and quizzes | `MCParts` |

A step of a model is a critical section of the code, or one thing read or
called outside of locks. Definitions preceded by "Wrong on purpose" are mutated
forms of the definition after them; no specification uses them.

### JobProcessor

`cpc` follows `run()`: start threads, poll, read the two counters, shut down,
join; `wpc[w]` a worker's loop body; `rpc` the retry thread. Everything under
`_drain_lock` is one step. The two reads in `_has_outstanding_work` are two
steps, because the lock covers only the first. An attempt of a chapter
(`process_chapter`) answers anything it can answer; `CANCELLED` only after the
`should_stop` callback said so. `run_stop` is the stop event of the run,
`raised` a recorded thread error. A worker's thread or the retry thread may
fail to start (`StartThreads` picks those that did, `StartInline` when none
did). Queues are sets: a chapter is queued once (`OnePlace`, checked), and
`PriorityQueue` orders by index. Sleeps, timeouts and the rolling back-off are
left out: they delay a step and change nothing else.

### LearningManager

One record keeps `mem` (its status or "absent"), the two events (`running`,
`stop`) and `reloaded`, because a record that came from the store has events
nobody holds. `wpc` is `_run_task_worker` from admission to the end; `jpc` is
a job thread that `process_chapter` left behind when another job of the
chapter failed (`executor.shutdown(wait=False)`) and that keeps calling
`video_progress_callback`. Pause, resume and stop change the record in one
critical section and append a log line in another; the snapshot goes out with
the second (`unlogged`). `writes` are snapshots reserved and not yet written,
in revision order: that order is what `PersistSequencer` proves. `StoreFails`
may or may not have changed the row. `LoadRow` and `MergeRow` are apart because
the read happens outside the lock. `Restart` forgets everything but the rows.

Snapshots that repeat the status of the snapshot before them (log lines and
progress of the worker) are left out. `Cleaned` lets an expired or surplus
record go only when its snapshots have reached the store: the code evicts by a
two-hour age or as least recently used and does not look at the sequencer. The
300-row limit of a restore is left out.

`TaskLife` is what a user may rely on, told by `get_task` alone: a task begins once,
for a user without another one and while there is room (`Begin`), goes from one
active status to another or ends (`Move`), and once its row tells its end (`Keep`)
nothing takes it back. What may be taken back is named: the end of a task of which
no row tells, if a write failed (`Lost`) or the service dies (`Crash`). A task that
left a job thread behind may show anything (`Haunt`, finding 2). The mapping takes
what `get_task` answers, the record's status or else the row's as it would be merged
(`Shown`), so evictions, reloads and snapshots under way map to stuttering.

### PersistSequencer and OrderedStore

A thread mutates the record and reserves a revision under the manager's lock
(`Mutate`), waits for its turn (`WaitFor`, `asleep` is the condition variable's
sleep), writes without a lock (`Write`, which may fail silently) and publishes
(`Finish`, `notify_all`). A record is the number of mutations it has seen.
The refinement maps the abstract queue to the revisions after the last one
whose write was tried: a thread in "finish" has written but not published.

### TenantPools

`entry` and `older` are the `OrderedDict`: which pool a tenant has and who was
used less recently. `_checkout_tenant` is one step (hit, miss with evictions,
failed build), then `getconn` outside the lock (works, returns a dead
connection which is discarded once, or fails), the body, and the release in
three steps: look up, `putconn`, drop the reference. The main pool and the
inside of psycopg2's pools are left out.

### Registration

Each statement is a step, fails before or after it took effect, and a crash
ends every request where it is. `unclean` marks requests whose clean-up did not
take place, whatever the reason.

### ZhihuishuTask

One adapter. `Check`, `Load`, `Create` are `start_course` with its slow call
between two critical sections. `Top`, `AfterWatch` and `Record` are the three
critical sections of `_run_task_loop`; `Poll`, `PlayOn`, `VideoEnds` are
`watch_video` with its callbacks, which ask about the *current* task. The AI
flag of `start_ai_course_task` is left out, and so is the contents of courses.

### ZhihuishuLogin

`loop` is the event loop: handlers and the clean-up run from one await to the
next without another handler, so `CleanUp`, `Inspect`, `Remove` and
`OpenSession` follow each other, while the steps of worker threads (`wpc`) come
in between. `rpc` is the request of each login. Time is abstract: `AgeSession`
and `AgeAdapter` let an entry reach its time to live at any moment after its
last access. An adapter's task is one bit (`busy`); `ZhihuishuTask` has the
rest. A request that uses the adapter starts its task within its own step: it
ends long before the access it recorded is an hour old.

### TaskRows, SqliteStore, PostgresStore

`TaskRows` is the promise of `TaskStoreProtocol` for one row and one history:
an operation takes effect at most once and as a whole, between its call and its
answer; "yes" means that it did; the first `started_at` stays; a record that
belongs to the newest `Keep` ones never leaves. It does not promise that "no"
means nothing happened, nor that surplus records are gone at once: two appends
in concurrent PostgreSQL transactions do not see each other and both trim too
little.

In the backends every call is a thread that runs once. `SqliteStore`: `conn` is
what the one connection sees, `db` what is committed; `Ensure`, `LockToCreate`
and `CreateTables` are `ensure_tables` with its two locks; `Statement`, `Trim`,
`Commit`, `Rollback` and `CloseStore` may fail, and a roll-back that fails closes
the store. `PostgresStore`: `Checkout` of `get_db_session`, each statement, a
commit whose answer may be lost, and the return of the connection on each path;
an upsert waits for another one's uncommitted row. `Crash` ends all calls. A row's
payload is the call that wrote it, a history record its time.

### SchemaBootstrap

`Check`, `MainSchema`, `Lock`, `Look`, `Create`, `Apply`, `Mark`, `Unlock` and
`FinalCheck` are `bootstrap_once` and `ensure_tenant_template`, in several
processes and in registrations that heal a missing template (`Healer`), each one
statement or connection; `GiveUp` is any failure, after which the connection and
its advisory lock are gone. `Enrol`, `Clone` and `Withdraw` are registrations as
seen from here; `ListTenants`, `Migrate` and `Exit` the tool.

### SigninTasks, SigninHistory, SigninScan

`SigninTasks` has the records, rows, workers and clients: `Admit` and the
failures that take an admission back, `LogIn` and `GetClient` as two sections of
the lock, `WriteStatus`, look-ups of evicted records that read (`ReadRow`) and merge
(`Merge`) later, other logins of the user (`LogInBeside`) and `Restart`.
`SigninHistory` has one user's list and rows: `AppendItem` and `Persist` are apart,
and so are `ReadRows` and `ReplaceItems` of a first look. `SigninScan` is what a
worker does between login and its last status, against a platform that fails
anywhere: course folders, activity lists, the three requests before a
submission, the submission.

### ChapterJobs, MediaJobs, WorkQuiz

`ChapterJobs`: `queue`, `threads` and `pooled` are the executor (`submit` enqueues
before it starts a thread, so a point whose thread failed stays queued), `inline`
what the calling thread does after a failed start, `Collect` and `Raise` the loop
over the futures. `MediaJobs`: the position advances with the clock by as much as
a pause takes; a report passes, is not enough, is forbidden (403, with a refresh
that may change length and position) or fails; a failed video is studied again as
audio; lives send each minute twice at most. `WorkQuiz`: `doing` is where each
question is, one after the other or in threads; `found` is the counter that
decides between handing in and saving.

### AnswerBank

`memory`, `file` and `loaded` are the cache of the process, `known` a history of
what was put into it. `index`, `token`, `over` are Yanxi's `_token_index`, token and
`_times == 0`, `balance` and `count` Like's, `free` the permits of an AI; a
provider without such state is "plain". Without an AI in the chain the quiz asks
from one thread at a time. The texts of questions and answers are left out: an
answer fits its question or not.

### ClientLimiter

`Arrive` takes the client's name from the hops of the request, cleans up and
notes the time; `CheckInDb` and `CheckInMemory` use that time later. The database
may fail before or after it counted. `sender`, `entries` and `admitted` are
histories.

### TaskFeed

`feed` holds the status of each record of `_course_tasks`, `state` that of the
adapter's task, `entry` the adapter in the registry. A request is its sections:
look at the registry, ask the adapter, write the record or (pause, resume,
cancel, logout) all records of the user. `told` is a history: a poll recorded the
task's end, and none that read it before is under way.

### Hosts

A run may check several modules that do not interact within it: `part` is chosen
in the initial state, only that part moves, the others rest in one initial
state of theirs, and a property `XSound` is about its part. Each part is explored as
completely as in a run of its own; the behaviours of the run are those of the parts
side by side, not their product. The proofs about a part are about the host's
specification too, so each theorem is about exactly what its run checks; the
assumptions on the constants of the parts are named in the host. `XSound` conjoins the module's type invariant and its named
properties, which the module states one by one.

## 3. The runs

| Run | Checks | Bounds | Distinct states |
|---|---|---|---|
| `scheduler` | `CountersExact`, `OnePlace`, `NothingLostWhileRunning`, `GivenUpForGood`, `QuietAfterReturn`, `Termination` | 2 chapters, 2 workers, 3 tries | 1.1 M |
| `task_life` | `WorkKeepsItsRecord`, `ActiveHasWorker`, `StoreCatchesUp`, `OutcomeDurable`, `LivesAsPromised`, `StopEndsWork` | 1 task of 2 courses, 3 waiting snapshots, 1 failed write, 1 restart, 1 job thread | 570 k |
| `admission` | `OneWorkerPerUser`, `CapacityRespected`; `LimiterSound` | 2 tasks, 2 users, room for 1 active task and 1 record, 1 restart; 4 clients, 2 threads, 4 requests, limit 1 | 2.5 M (by symmetry) |
| `tenant_pools` | `RefsExact`, `NeverClosedInUse`, `ReturnedHome`, `OverflowOnlyWhenBusy` | 3 sessions, 3 tenants, 4 pools, cap 2 | 22 k (by symmetry) |
| `stores` | `EverySnapshotTried`, `KeepsPromise`; `StoresSafe`, `StoresKeepRows`, `StoreCallsEnd` | 3 threads, 5 mutations; SQLite 1 upsert, 2 appends, 1 read, 1 close; PostgreSQL 2 upserts, 2 appends, 1 read, 2 connections; 1 record kept | 139 k |
| `zhihuishu_tasks` | `OthersCancelled`, `HonestCompletion`, `NothingAfterCancel`, `CancelEndsThread` | 2 starting requests, 2 tasks, 2 videos | 290 k |
| `zhihuishu_login` | `NewestLoginWins`, `LoginKept`, `WithdrawnEnds`, `SessionsExpire` | 2 QR logins, 1 password login, 2 codes each | 410 k |
| `parts` | `RegistrationSound`; `SchemaSound`, `SigninSound`, `ChapterSound`, `MediaSound`, `QuizSound`, `BankSound`, `FeedSound` | see below | 4.0 M |

What the properties of the modules behind an `XSound` say:

* `LivesAsPromised`: `LearningManager` implements `TaskLife`. `RegistrationSound`:
  `AccountKept`, `FailureLeavesNothing`.
* `SchemaSound`: `RepairsWork` (repairs in several processes never collide, and
  one that ended left a complete template and users table), `MigrationIsComplete`.
* `SigninSound`: of the tasks (`TasksSound`) `RunningIsWorkedOn` (a record says
  "running" exactly as long as its request or worker is at work; no user has two) and
  `SignsAsAsked` (with the account given, unless the user logged in beside the worker);
  of the history (`HistorySound`) `ShownOnce` and `ShowsWhatIsStored`; of a scan
  (`ScanSound`) `VerdictIsTrue` and `SubmittedOnce`.
* `ChapterSound`: `SuccessIsEarned`, `PointsOnce`, `CancelsIfAsked`. `MediaSound`: `ReportsBounded`,
  `ResultIsTrue`. `QuizSound`: `HandedInAsAllowed`.
* `BankSound`: `CacheIsTrusted`, `MeansAreKept`. `LimiterSound`: `LimitKept`,
  `CacheBounded`. `FeedSound`: `EndStaysTold`.
* `StoresSafe`: `OneTransaction` of SQLite, `ConnectionsReturn` of PostgreSQL.
  `StoresKeepRows`: both backends implement `TaskRows`. `StoreCallsEnd`: every
  call returns, whatever fails.

The type invariants of `JobProcessor`, `PersistSequencer`, `TenantPools`,
`LearningManager`, `ZhihuishuTask` and `ZhihuishuLogin` are theorems of their
own, and those of the modules in the hosts are part of what is proved under
`XSound`; no run repeats them.

Four runs look for a counterexample and find one; each contradicts a sentence
of the repository (section 6).

Why the bounds suffice:

* *scheduler*: with two chapters and two workers every pair of threads can hold
  a chapter while another waits on either queue; three tries separate a first
  failure, a retry and the last one. The safety properties are proved for all
  bounds.
* *task_life*: requests of one user on one task do not depend on other tasks
  (they share only the capacity and the eviction, which `admission` covers); that
  `TaskLife` is kept with any number of tasks is proved.
  The second course makes the loop return to its head; three waiting snapshots
  are one of the worker, one of a request and one of a job thread. Of the four
  bounds, `MaxWrites` limits only how many requests queue up before the store
  answers.
* *admission*: a second task suffices to break "one per user" or a capacity of
  one; with room for one record every second record causes an eviction. Both,
  and the invariants of *task_life*, are proved for all bounds.
* *tenant_pools*: a cap of two with three tenants has hits, evictions and
  overflow; the fourth pool object is a tenant's second one after an eviction.
* *stores*: with one record kept the second append trims the first; a read and
  a close come between any two steps of a writer. Two connections are fewer
  than the calls, so `getconn` fails at the limit. SQLite has one connection, on
  which one upsert and two appends make every pair of transactions.
* *parts*: registration has three requests of two names (a winner, a failing one,
  and one that comes between its clean-ups); the schema two servers, a
  registration that heals and a tenant cloned meanwhile; sign-in two tasks of a
  user with two accounts; the history two writers and two first looks with four
  records of which three are kept; the scan two folders, two courses and an
  activity of each kind; the chapter a video, a live and a document on two
  threads; media lengths up to 3 steps with 2 refreshes, as in the code, and 3 reports at the
  end; the quiz four questions, one without options, with 2 threads and a cover of 50 %;
  the bank two threads, one title, every chain of one or two providers, two
  tokens; the feed two logins, two tasks and two requests.
* *admission, the limiter*: four clients are one more than the bound on the
  memory; two windows of one step; a limit of one.
* *zhihuishu_tasks*: two requests race for the second check; the second task
  replaces a cancelled one whose thread still plays.
* *zhihuishu_login*: a second QR login replaces one under way, the password
  login replaces either; two codes separate a refreshed code from the last one
  (the code allows three). Users share nothing but the lock.

`CHECK_DEADLOCK FALSE` is set where the system may rightly be at rest: nobody
has to send another request.

## 4. Fairness

* `JobProcessor`: weak fairness of the controller, each worker and the retry
  thread. They are OS threads that the code never suspends for ever: `get` has
  a timeout, locks are held for finite sections, and an attempt ends (the HTTP
  client has timeouts). Nobody is obliged to stop a course.
* `PersistSequencer`: weak fairness of each thread that carries a snapshot;
  none is obliged to mutate.
* `LearningManager`: weak fairness of a task's worker, request threads, job
  thread and store; none for requests, evictions or restarts, so a task may be
  paused for ever. Studying a course is one step that may be interrupted by
  pauses (`Callback`) and ends (`CourseOver`), which `Termination` of the
  scheduler justifies: a batch of chapters ends.
* `ZhihuishuTask`: weak fairness of a task's thread, strong fairness of
  `VideoEnds`, since every stretch brings the video nearer to its length; none
  for `NotPlayed` or requests.
* `SqliteStore`, `PostgresStore`: weak fairness of each call's next step once it
  began; a lock and a connection wait are such steps. None for a call to be made, for `Crash` or for
  any outcome of a statement.
* `ZhihuishuLogin`: weak fairness of the loop inside a handler, of the workers'
  own steps and of time; strong fairness of the clean-up, because asyncio
  returns to `_periodic_cleanup_loop` however many requests it serves. None for
  the platform: a code may stay unscanned for ever.

## 5. What is proved

All proofs are checked by TLAPS for every value of the constants, from the
assumptions named in the modules and hosts (finite sets of threads, natural
bounds, a `None` outside the other sets). Every invariant and every safety
action property that a run checks is proved. In each case the
property is not inductive by itself; what has to be added, and why:

**`JobProcessorProofs`**: types, `CountersExact`, `OnePlace`, `GivenUpForGood`,
`QuietAfterReturn`, `NothingLostWhileRunning`. That counters stay exact needs to
know that a queue never already contains what is put on it, hence `Apart` (the
four places of a chapter exclude each other) and `HandsFull` (a busy thread
holds a chapter); that chapters given up stay out needs `Retired` and, because a
run that never started a worker keeps its chapters in `inline_left`, `Phases`
(which threads and queues can be busy in which phase). `IInv` conjoins them, one
lemma per action; counts change by `OneMore`, `OneLess`, `DrainExact`. That
nothing is lost is `KInv`: only a stop makes a thread let go of a chapter, and
while the run is `Undisturbed` none was asked for (`StopsAreReal`).

**`LearningManagerProofs`**: types, `OneWorkerPerUser`, `CapacityRespected`,
`WorkKeepsItsRecord`, `ActiveHasWorker`. The admission looks at records and the
promise is about workers; what ties them together is `WorkKeepsItsRecord`, so
`LInv` conjoins all four with `Unstarted`. Every step but `Start` lets nobody
begin to work, and then two of them follow at once (`QuietStepKeeps`): what is
left per action is that records and workers still fit. Types need `CourseLeft`: a
worker inside the loop has a course left. Counting needs `TaskAssumption`
(finitely many tasks).

`StoreCatchesUp` and `OutcomeDurable` come from `RowInv`, about the snapshots on
their way: the newest tells what the record tells (`Current`), a terminal one is
followed by none of another status (`EndIsFinal`, for a task without a job thread
left behind), a task without a record has nothing on its way and a row being loaded
stays as it was read (`Coherent`).

`Spec => LivesAsPromised`, step by step: `LifeInv` adds `Echo` to `RowInv` (a record
that came from the store and each of its snapshots say what its row says, merged).
With it an eviction is not to be seen (`RestIsUnseen`): what the record said is what
the row will say, unless a write was lost.

`LimiterSound` is proved for the host `MCAdmission`. The heart of `LimiterInv` is an
account: what a client was let through, plus what its window in memory still allows
(`Left`), is at most what the windows of the table show (`Passed`) plus the limit for
each window opened in memory. `CallsCounted` keeps a request under way out of all
counts; `MemoryCounted` bounds the memory between two clean-ups by the requests since
the last one and those that were under way; `OwnName` says that a request counts for
its sender.

**`TenantPoolsProofs`**: types, `RefsExact`, `NeverClosedInUse`, `ReturnedHome`,
`MapConsistent`, `OverflowOnlyWhenBusy`. The key is `HomeMapped`: a session with a
reference finds its own pool under its tenant's name *the whole time*, because an
entry with a reference is not idle and only idle ones go. `ReturnedHome`, the point
where the code looks a pool up by name alone, follows. `OInv` is the separate
invariant of the order.

**`ZhihuishuTaskProofs`**: types, `OthersCancelled`, `HonestCompletion`,
`NothingAfterCancel`. The second check of `start_course` looks at a *status*; that it
may stand for a look at the thread is `ShownOrCancelled`. `Counted` (every video
before the current one is counted once) carries the honest count.

**`ZhihuishuLoginProofs`**: types, `NewestLoginWins`, `LoginKept`. The worker of a
replaced login cannot install its adapter since it is out of the registry
(`Replaced`), and nobody gets into the registry without beginning a login
(`KnownBegan`). The clean-up looks and removes in two sections: `StillIdle` says
that the adapter it is about to remove got no task in between, which rests on
`InHandler`, the one handler that the event loop is in.

**`StoresProofs`**, about the host `MCStores`:

* The sequencer: types, `OneWriter`, `EveryRevisionHeld`, `NeverOlder`, and
  `Spec => KeepsPromise`: each step is a step of `OrderedStore` or a stutter. `PInv`
  adds that a waiting thread's snapshot is its revision, that revisions are distinct
  and that the writer's is the next one; `SliceAppend` and `SliceTail` are the facts
  on the mapped queue.
* `StoresSafe`. For SQLite `SqliteInv`: who works on the connection holds its lock
  (`LockHeld`), and an open transaction holds the work of its call, on top of what
  was committed, and of nobody else (`OwnWork`). For PostgreSQL `PostgresInv`, with
  `CutIsOld`: what an append is about to trim has `max_records` newer records.
* `StoresKeepRows`: both backends implement `TaskRows`, step by step. That no trim
  removes a record among the newest rests on `NewestSuffice`, a lemma that counts.

**`PartsProofs`**, about the host `MCParts`:

* *Registration*: `OnlyOrphansDropped`, and `RegistrationSound` from `AccountKept` and
  `FailureLeavesNothing`.
  `OwnsRow` is the heart: from its insert to its clean-up a request owns the row of
  its name, so a request about to drop a database is alone with that name.
* *Schema* (`SchemaSound`): `LockHeld` says who holds the advisory lock,
  `TemplateKnown` what the holder knows of the template at each step, `MarkedIsFull`
  that a mark, and having seen one, is never wrong, and `MigrationInv` that an
  incomplete database the tool found is still to do or failed.
* *Sign-in tasks* (`TasksSound`): login and the look at the client that follows are
  two critical sections; `OneEach` (a user has one running record) and `Worked` (a
  running record is one at work) exclude that another *worker* comes between them,
  and a login the user makes beside it is what `relogin` records.
* *Sign-in history* (`HistorySound`): `Fresh` says that a record is in a list only
  after it was made, so that an append or a merge shows none twice; `Agreeing` that
  what a first look has read are all the rows, as long as nothing was recorded
  meanwhile (`spoiled`) and no record had to go. `EndOfList` and `RowsInOrder` are the
  facts on bounded lists and on `ORDER BY ... LIMIT`.
* *Sign-in scan* (`ScanSound`, and with the two before it `SigninSound`): `Searched`
  says that what is due has been found, unless its course is still to check or some
  course failed, and that nothing found is of a course still to check; `Signing`, that
  of what was found each is signed, failed, or still to sign and then not submitted.
  `Once` (no list has a member twice) makes the rest of a list lose its head; the orders
  that the platform answers in are left open by `OrderOf`.
* *Question bank* (`BankSound`): `Cached` keeps what does not fit out of the cache
  and what is known in it. Like's balance may fall below zero, but not further than
  the threads that looked at it at once: `Afforded`. `FirstIsSpent`, `Permitted` and
  `OneByOne` are the like for Yanxi's tokens, the AI's permits and chains without
  an AI.
* *Feed* (`FeedSound`): `ToldForGood` extends the promise to the polls that are still
  going to write; `NotRegistered` says that a task being started has no record yet,
  so no poll can be under way for it.

**`JobPartsProofs`**, about the host `MCParts`:

* *Chapter* (`ChapterSound`): `ChapterInv` follows `process_chapter` from phase to
  phase (`NotYet`, `InSubmission`, `Awaited`, `GoneThrough`, `Answered`); `StartsCounted`
  says that a point is started once by a thread and once inline at most. `Asked`
  carries the stop from whoever noticed it to the answer, which is what
  `JobProcessor`'s `Outcome` takes for granted of a call of `process_chapter`.
* *Media* (`MediaSound`): that reports are bounded is a credit, `ReportsPaid`: each was
  paid for by a refusal so far, by time that was reported, or by the wait at the end.
* *Quiz* (`QuizSound`): `Staged` says what a question has of its answer at each stage of
  a thread, so that `found` counts no answer twice, and `Decided` that the decision
  stays true of the form.

Only model-checked: every liveness property (`Termination`, `StopEndsWork`,
`EverySnapshotTried`, `StoreCallsEnd`, `CancelEndsThread`, `WithdrawnEnds`,
`SessionsExpire`), which this prover cannot reach. Code whose result is a recursion
over its data is modelled step by step where it is proved about (the scan drops a
course that its filters reject when it comes to it, as the code's loop does).

## 6. Findings

Four documented promises that the code does not keep in every interleaving,
each with a run that shows it (details and quotations in `PROJECT.json`):

1. `scheduler_loses_chapter`: between the two reads of
   `_has_outstanding_work` a worker hands its last chapter to the retry queue;
   both reads are zero and `run()` ends with a chapter neither done nor failed.
   The loss is confined to that last poll: until the controller ends the run
   `NothingLostWhileRunning` holds.
2. `ghost_task`: a job thread left behind by a failed chapter marks a finished
   task paused; no worker is left to complete a later cancel and the user is
   refused new tasks.
3. `zhihuishu_deaf_playback`: a cancelled playback asks about the *current*
   task; once a new one is started it plays its video to the end.
4. `account_without_database`: a failed registration deletes its row and then
   drops the database by name; a second registration of the name in between
   loses the database it just created.

Observations without a run:

* `_wait_for_resume` tests the pause event and then writes `paused`: a resume in
  between leaves a running task shown as paused until its next course.
* `pause_task`/`resume_task` of the Zhihuishu adapter accept a task in `error`;
  it then blocks new starts without a thread until it is cancelled.
* `start_ai_course_task` leaves AI answering switched on when a start fails with
  an error of the platform or its thread cannot start, and two overlapping AI
  starts restore each other's setting (`zhihuishu/adapter.py:420`).
* `zhihuishu_logout` removes the adapter and cancels the QR sessions in two
  critical sections; a QR worker that registers in between leaves the user
  logged in after the logout.
* A new Zhihuishu login replaces the adapter of a running task, which then runs
  on out of the reach of pause, cancel and logout.
* `docs/API.md:135` says tasks are stored in the user's tenant database;
  `storage/postgres.py` opens its sessions on the main database.
* Sign-in (`chaoxing/signin.py`): a worker logs in and reads the user's client back
  in another critical section; a login in between makes it sign with the other
  account. A look-up that read a row early can overwrite a completed row with
  "error". A scan of which some lists failed and others had activities reports
  "completed"; a submission whose answer is lost counts as failed.
* Sign-in history: at 500 records an append drops the head of a list that was
  loaded newest first, its newest record; a first look that read before an
  append replaces the list after it, and the record is missing until a restart.
* `storage/postgres.py`: concurrent appends can leave more than `max_records` rows
  until the next append.
* `learning.py:949`: when a thread cannot be started, points that another thread
  already took are studied again inline, and that thread may still be at work after
  the chapter succeeded.
* `quiz_service.py`: one after the other, an exception of a query escapes
  `study_work`; with threads the question gets a random answer.
* `video_service.py`: the session refresh after a 403 calls `update_cookies()`, which
  changes nothing; `rollback_times` of a quiz is always 0.
* Answers: Yanxi's `_times` stays 0 after its token changed, so a plain miss on the
  new token gives it up though it has queries left (`yanxi.py:56-62`); two threads can
  rotate past the last token (the chain catches the error); Like's balance can fall
  below zero with threads; the cache is keyed by title alone; a cache file that
  cannot be read at start is replaced by the next write.
* A registration may clone an empty template under repair; the migration tool
  completes the database.
* Task feed (`api/v1/course.py`): a poll that read the task before a logout or a
  cancel writes "running" over "cancelled", and after a logout or a new login
  nothing corrects that record. Pause, resume and cancel mark all the user's
  unfinished records whatever the adapter answered, also those of an older
  login's task, which runs on. Records that are never polled are never cleaned up. A
  start under way over a logout registers a task no request can reach.
* The rate limiter counts a client twice in a window in which the database fails
  and comes back: up to twice the limit passes.

## 7. What is not modelled, and the plan

`PROJECT.json` gives the reason for every component. Not modelled: what is
parsing, cryptography or one request after the other against the platforms
(Chaoxing client and decoding, portal, documents and reading points, chat
sign-in, location search, notification); stateless request handling; the desktop
shell's start-up and the frontend's pages, whose threads and events belong to
frameworks outside the repository; scripts an operator runs one at a time. Within
modelled parts: the texts of answers and questions, the spacing of requests, the
AI flag of a Zhihuishu start, `/health`'s cache.

What is left is **composition**: `LearningManager`'s `writes` shown to be
`OrderedStore`'s queue; the rest of `ChapterJobs` as the attempt of `JobProcessor`
(that it is cancelled only when asked is `CancelsIfAsked`), and its left-behind
threads as the job thread of `LearningManager`; `TaskFeed` with `ZhihuishuTask`.

Modules meant for proofs use no RECURSIVE operators.
