---------------------------- MODULE JobProcessor ----------------------------
(***************************************************************************)
(* One run of the chapter scheduler of a Chaoxing course, class            *)
(* JobProcessor in backend/app/services/course/chaoxing/learning.py.       *)
(*                                                                         *)
(* The controller (the thread that calls run()) puts every chapter on      *)
(* task_queue and starts the workers and the retry thread.  A worker takes *)
(* the chapter with the smallest index, processes it, and on failure hands *)
(* it to retry_queue, from which the retry thread (or the controller) puts *)
(* it back on task_queue.  The controller polls two counters to find out   *)
(* when the batch is over, then stops and joins every thread.              *)
(*                                                                         *)
(* A critical section under _drain_lock is one step: everything that puts  *)
(* a chapter on a queue or drains one takes that lock.  What is read       *)
(* without it is a step of its own: run_stop, should_stop, the two reads   *)
(* of _has_outstanding_work, the get of each queue and task_done().        *)
(***************************************************************************)
EXTENDS Integers, FiniteSets

CONSTANTS
    Worker,         \* the worker threads the configuration asks for ("jobs")
    NumTasks,       \* the chapters of the course are 1 .. NumTasks
    MaxTries,       \* JobProcessor.max_tries, 5 in the code
    NotOpenAction,  \* config["notopen_action"]: "retry" or "continue"
    None            \* no chapter in hand

ASSUME WorkerAssumption   == IsFiniteSet(Worker) /\ Worker # {}
ASSUME NumTasksAssumption == NumTasks \in Nat
ASSUME MaxTriesAssumption == MaxTries \in Nat \ {0}
ASSUME NoneAssumption     == None \notin 1 .. NumTasks

Task == 1 .. NumTasks

VARIABLES
    (* the processor object *)
    task_queue,    \* chapters waiting for a worker (PriorityQueue)
    unfinished,    \* task_queue.unfinished_tasks
    retry_queue,   \* chapters waiting to be queued again
    pending,       \* _pending_retries
    tries,         \* ChapterTask.tries
    result,        \* ChapterTask.result of the latest attempt
    failed_tasks,  \* chapters given up
    (* the run *)
    should_stop,   \* what the should_stop callback answers
    run_stop,      \* the stop event of this run
    raised,        \* an exception is recorded that run() will raise
    cpc,           \* where the controller is
    seen_pending,  \* controller: the value of _pending_retries it has read
    inline_left,   \* chapters left when the controller works inline
    (* the threads *)
    wpc,           \* where each worker is
    hand,          \* the chapter each worker holds
    rpc,           \* where the retry thread is
    rhand,         \* the chapter the retry thread holds
    rstopping      \* retry thread: its local "stopping"

queues  == <<task_queue, unfinished, retry_queue, pending>>
chapter == <<tries, result, failed_tasks>>
flags   == <<should_stop, run_stop, raised>>
control == <<cpc, seen_pending, inline_left>>
workers == <<wpc, hand>>
retrier == <<rpc, rhand, rstopping>>
vars    == <<queues, chapter, flags, control, workers, retrier>>

-----------------------------------------------------------------------------
(* Helpers *)

\* PriorityQueue.get(): ChapterTask compares by its index first.
IsFirst(t, queue) == t \in queue /\ \A u \in queue : t <= u

\* A counter that its owner never lets fall below zero.
Minus(n, k) == IF n >= k THEN n - k ELSE 0

\* _drain_pending_tasks: every drained item has its task_done(), and an item
\* of retry_queue also its _release_pending_retry().
Drain ==
    /\ task_queue'  = {}
    /\ unfinished'  = Minus(unfinished, Cardinality(task_queue))
    /\ retry_queue' = {}
    /\ pending'     = Minus(pending, Cardinality(retry_queue))

\* Wrong on purpose: the item in the thread's own hand is forgotten.
ForgetOwnAndDrain == Drain

\* The retry thread holds one item of its own when it drains: it releases
\* that one first.
ReleaseAndDrain ==
    /\ task_queue'  = {}
    /\ unfinished'  = Minus(unfinished, Cardinality(task_queue))
    /\ retry_queue' = {}
    /\ pending'     = Minus(Minus(pending, 1), Cardinality(retry_queue))

\* What one call of process_chapter may answer.  CANCELLED is only returned
\* when the should_stop callback said so; an exception counts as ERROR.
Outcome ==
    {"SUCCESS", "NOT_OPEN", "ERROR"} \cup (IF should_stop THEN {"CANCELLED"} ELSE {})

\* The attempt that just ended with r needs no other.
Settles(r) == r = "SUCCESS" \/ (r = "NOT_OPEN" /\ NotOpenAction = "continue")

\* The attempt that just ended with r counts as a failure.
Fails(r) == r = "ERROR" \/ (r = "NOT_OPEN" /\ NotOpenAction # "continue")

\* The attempt that brings ChapterTask.tries to n is the last one.
GivesUpLate(n) == n > MaxTries
GivesUp(n) == n >= MaxTries

-----------------------------------------------------------------------------
Init ==
    /\ task_queue = {} /\ unfinished = 0 /\ retry_queue = {} /\ pending = 0
    /\ tries = [t \in Task |-> 0]
    /\ result = [t \in Task |-> "PENDING"]
    /\ failed_tasks = {}
    /\ should_stop \in BOOLEAN
    /\ run_stop = FALSE
    /\ raised = FALSE
    /\ cpc = "start" /\ seen_pending = 0 /\ inline_left = {}
    /\ wpc = [w \in Worker |-> "unstarted"]
    /\ hand = [w \in Worker |-> None]
    /\ rpc = "unstarted" /\ rhand = None /\ rstopping = FALSE

\* The user asks the course to stop: stop_task sets the event behind the
\* callback, which nothing clears.
RequestStop ==
    /\ ~should_stop
    /\ should_stop' = TRUE
    /\ UNCHANGED <<queues, chapter, run_stop, raised, control, workers, retrier>>

-----------------------------------------------------------------------------
(* The controller: run() *)

\* Queue every chapter, start the threads.  The operating system may refuse
\* any of them; the threads that did start begin to run on their own.
StartThreads ==
    /\ cpc = "start"
    /\ \E started \in SUBSET Worker \ {{}}, retry \in BOOLEAN :
          /\ wpc' = [w \in Worker |-> IF w \in started THEN "idle" ELSE "unstarted"]
          /\ rpc' = IF retry THEN "loop" ELSE "unstarted"
    /\ task_queue' = Task
    /\ unfinished' = NumTasks
    /\ cpc' = "top"
    /\ UNCHANGED <<retry_queue, pending, chapter, flags, seen_pending, inline_left,
                   hand, rhand, rstopping>>

\* Not even one worker started: drain what was queued and work inline.
StartInline ==
    /\ cpc = "start"
    /\ task_queue' = {} /\ unfinished' = 0
    /\ inline_left' = Task
    /\ cpc' = "inline"
    /\ UNCHANGED <<retry_queue, pending, chapter, flags, seen_pending, workers, retrier>>

\* A recorded thread error ends the loop; otherwise promote one retry
\* (_promote_retry_once).
ControllerTop ==
    /\ cpc = "top"
    /\ IF raised
       THEN /\ cpc' = "shutdown"
            /\ UNCHANGED queues
       ELSE /\ cpc' = "poll"
            /\ \/ /\ retry_queue = {}
                  /\ UNCHANGED queues
               \/ \E t \in retry_queue :
                  /\ IsFirst(t, retry_queue)
                  /\ retry_queue' = retry_queue \ {t}
                  /\ task_queue' = task_queue \cup {t}
                  /\ unfinished' = unfinished + 1
                  /\ pending' = Minus(pending, 1)
    /\ UNCHANGED <<chapter, flags, seen_pending, inline_left, workers, retrier>>

\* Wrong on purpose: every poll drains the queues, stop or no stop.
DrainEveryPoll ==
    /\ cpc = "poll"
    /\ cpc' = IF raised THEN "shutdown" ELSE "read_pending"
    /\ IF raised THEN UNCHANGED queues ELSE Drain
    /\ UNCHANGED <<chapter, flags, seen_pending, inline_left, workers, retrier>>

\* A user stop drains the queues before the counters are read.
ControllerPoll ==
    /\ cpc = "poll"
    /\ cpc' = IF raised THEN "shutdown" ELSE "read_pending"
    /\ IF should_stop /\ ~raised THEN Drain ELSE UNCHANGED queues
    /\ UNCHANGED <<chapter, flags, seen_pending, inline_left, workers, retrier>>

\* _has_outstanding_work, first half: the counter under _retry_lock.
ReadPending ==
    /\ cpc = "read_pending"
    /\ seen_pending' = pending
    /\ cpc' = "read_unfinished"
    /\ UNCHANGED <<queues, chapter, flags, inline_left, workers, retrier>>

\* _has_outstanding_work, second half: unfinished_tasks, read after the
\* lock is released.
ReadUnfinished ==
    /\ cpc = "read_unfinished"
    /\ cpc' = IF unfinished > 0 \/ seen_pending > 0 THEN "top" ELSE "shutdown"
    /\ UNCHANGED <<queues, chapter, flags, seen_pending, inline_left, workers, retrier>>

\* _run_inline, before an attempt: it ends when nothing is left or the user
\* stopped it.
InlineCheck ==
    /\ cpc = "inline"
    /\ cpc' = IF inline_left = {} \/ should_stop THEN "shutdown" ELSE "inline_attempt"
    /\ UNCHANGED <<queues, chapter, flags, seen_pending, inline_left, workers, retrier>>

\* _run_inline, an attempt and what follows from it.
InlineAttempt ==
    /\ cpc = "inline_attempt"
    /\ \E t \in inline_left, r \in Outcome :
          LET gives_up == Fails(r) /\ GivesUp(tries[t] + 1)
          IN  /\ IsFirst(t, inline_left)
              /\ result' = [result EXCEPT ![t] = r]
              /\ tries' = IF Fails(r) THEN [tries EXCEPT ![t] = @ + 1] ELSE tries
              /\ failed_tasks' = IF gives_up THEN failed_tasks \cup {t} ELSE failed_tasks
              /\ inline_left' = IF Settles(r) \/ gives_up THEN inline_left \ {t} ELSE inline_left
              /\ cpc' = IF r = "CANCELLED" THEN "shutdown" ELSE "inline"
    /\ UNCHANGED <<queues, flags, seen_pending, workers, retrier>>

\* An inline attempt ends with an exception that is not an Exception.
InlineRaises ==
    /\ cpc = "inline_attempt"
    /\ raised' = TRUE
    /\ cpc' = "shutdown"
    /\ UNCHANGED <<queues, chapter, should_stop, run_stop, seen_pending, inline_left,
                   workers, retrier>>

\* _shutdown_run, up to the joins.
Shutdown ==
    /\ cpc = "shutdown"
    /\ run_stop' = TRUE
    /\ Drain
    /\ cpc' = "join"
    /\ UNCHANGED <<chapter, should_stop, raised, seen_pending, inline_left, workers, retrier>>

\* Wrong on purpose: the retry thread is not on the list of threads to join.
JoinWorkersOnly ==
    /\ cpc = "join"
    /\ \A w \in Worker : wpc[w] \in {"unstarted", "exited"}
    /\ Drain
    /\ cpc' = "returned"
    /\ UNCHANGED <<chapter, flags, seen_pending, inline_left, workers, retrier>>

\* _shutdown_run, after every started thread was joined: run() returns, or
\* raises when an exception is recorded.
JoinThreads ==
    /\ cpc = "join"
    /\ \A w \in Worker : wpc[w] \in {"unstarted", "exited"}
    /\ rpc \in {"unstarted", "exited"}
    /\ Drain
    /\ cpc' = "returned"
    /\ UNCHANGED <<chapter, flags, seen_pending, inline_left, workers, retrier>>

-----------------------------------------------------------------------------
(* A worker: worker_thread() *)

\* Take the chapter with the smallest index.
GetTask(w) ==
    /\ wpc[w] = "idle"
    /\ \E t \in task_queue :
          /\ IsFirst(t, task_queue)
          /\ task_queue' = task_queue \ {t}
          /\ hand' = [hand EXCEPT ![w] = t]
    /\ wpc' = [wpc EXCEPT ![w] = "got"]
    /\ UNCHANGED <<unfinished, retry_queue, pending, chapter, flags, control, retrier>>

\* The timed get found nothing; a worker leaves when the run is over.
EmptyQueue(w) ==
    /\ wpc[w] = "idle"
    /\ task_queue = {} /\ run_stop
    /\ wpc' = [wpc EXCEPT ![w] = "exited"]
    /\ UNCHANGED <<queues, chapter, flags, control, hand, retrier>>

\* A chapter taken after the run was stopped is not attempted.
BeginAttempt(w) ==
    /\ wpc[w] = "got"
    /\ wpc' = [wpc EXCEPT ![w] = IF run_stop THEN "leave" ELSE "attempt"]
    /\ UNCHANGED <<queues, chapter, flags, control, hand, retrier>>

\* _process_task: one attempt of the chapter ends.
EndAttempt(w) ==
    /\ wpc[w] = "attempt"
    /\ \E r \in Outcome : result' = [result EXCEPT ![hand[w]] = r]
    /\ wpc' = [wpc EXCEPT ![w] = "judge"]
    /\ UNCHANGED <<queues, tries, failed_tasks, flags, control, hand, retrier>>

\* The attempt ends with an exception that _process_task lets through: the
\* finally clause runs, run_worker records the exception and the thread ends.
AttemptRaises(w) ==
    /\ wpc[w] = "attempt"
    /\ wpc' = [wpc EXCEPT ![w] = "raise"]
    /\ UNCHANGED <<queues, chapter, flags, control, hand, retrier>>

\* After the attempt: nothing is decided once the run is stopped; otherwise
\* the chapter is settled, retried or given up, or the worker was cancelled.
Judge(w) ==
    /\ wpc[w] = "judge"
    /\ LET t == hand[w]
           next(s) == wpc' = [wpc EXCEPT ![w] = s]
       IN  \/ /\ run_stop
              /\ next("leave")
              /\ UNCHANGED <<queues, tries, failed_tasks>>
           \/ /\ ~run_stop /\ Settles(result[t])
              /\ next("done")
              /\ UNCHANGED <<queues, tries, failed_tasks>>
           \/ /\ ~run_stop /\ Fails(result[t])
              /\ tries' = [tries EXCEPT ![t] = @ + 1]
              /\ \/ /\ GivesUp(tries[t] + 1)
                    /\ failed_tasks' = failed_tasks \cup {t}
                    /\ next("done")
                 \/ /\ ~GivesUp(tries[t] + 1)
                    /\ UNCHANGED failed_tasks
                    /\ next("retry")
              /\ UNCHANGED queues
           \/ /\ ~run_stop /\ result[t] = "CANCELLED"
              /\ Drain
              /\ next("leave")
              /\ UNCHANGED <<tries, failed_tasks>>
    /\ UNCHANGED <<result, flags, control, hand, retrier>>

\* Wrong on purpose: the hand-off to retry_queue is not counted.
EnqueueUncounted(w) ==
    /\ wpc[w] = "retry"
    /\ retry_queue' = IF run_stop THEN retry_queue ELSE retry_queue \cup {hand[w]}
    /\ wpc' = [wpc EXCEPT ![w] = "done"]
    /\ hand' = [hand EXCEPT ![w] = None]
    /\ UNCHANGED <<task_queue, unfinished, pending, chapter, flags, control, retrier>>

\* _enqueue_retry, under the drain lock: the counter goes up before this
\* worker's task_done().
EnqueueRetry(w) ==
    /\ wpc[w] = "retry"
    /\ IF run_stop
       THEN UNCHANGED <<retry_queue, pending>>
       ELSE /\ pending' = pending + 1
            /\ retry_queue' = retry_queue \cup {hand[w]}
    /\ wpc' = [wpc EXCEPT ![w] = "done"]
    /\ hand' = [hand EXCEPT ![w] = None]
    /\ UNCHANGED <<task_queue, unfinished, chapter, flags, control, retrier>>

\* The finally clause of the loop body.
TaskDone(w) ==
    /\ wpc[w] \in {"done", "leave", "raise"}
    /\ unfinished' = unfinished - 1
    /\ hand' = [hand EXCEPT ![w] = None]
    /\ wpc' = [wpc EXCEPT ![w] = IF wpc[w] = "done" THEN "idle" ELSE "exited"]
    /\ raised' = (raised \/ wpc[w] = "raise")
    /\ UNCHANGED <<task_queue, retry_queue, pending, chapter, should_stop, run_stop,
                   control, retrier>>

-----------------------------------------------------------------------------
(* The retry thread: retry_thread() *)

RetryLoop ==
    /\ rpc = "loop"
    /\ rpc' = IF run_stop \/ should_stop THEN "exited" ELSE "get"
    /\ IF should_stop /\ ~run_stop THEN Drain ELSE UNCHANGED queues
    /\ UNCHANGED <<chapter, flags, control, workers, rhand, rstopping>>

\* Wrong on purpose: the chapter is looked at but left on retry_queue.
RetryPeek ==
    /\ rpc = "get"
    /\ \/ /\ retry_queue = {}
          /\ rpc' = "loop"
          /\ UNCHANGED rhand
       \/ \E t \in retry_queue :
          /\ IsFirst(t, retry_queue)
          /\ rhand' = t
          /\ rpc' = "got"
    /\ UNCHANGED <<queues, chapter, flags, control, workers, rstopping>>

\* The timed get: it takes the first chapter or comes back empty-handed.
RetryGet ==
    /\ rpc = "get"
    /\ \/ /\ retry_queue = {}
          /\ rpc' = "loop"
          /\ UNCHANGED <<retry_queue, rhand>>
       \/ \E t \in retry_queue :
          /\ IsFirst(t, retry_queue)
          /\ retry_queue' = retry_queue \ {t}
          /\ rhand' = t
          /\ rpc' = "got"
    /\ UNCHANGED <<task_queue, unfinished, pending, chapter, flags, control, workers, rstopping>>

\* "stopping" is computed before the drain lock is taken.
RetryDecide ==
    /\ rpc = "got"
    /\ rstopping' = (run_stop \/ should_stop)
    /\ rpc' = "locked"
    /\ UNCHANGED <<queues, chapter, flags, control, workers, rhand>>

\* Under the drain lock: drop everything, or queue the chapter again and
\* then release the hand-off counter.
RetryRequeue ==
    /\ rpc = "locked"
    /\ IF rstopping \/ run_stop
       THEN /\ ReleaseAndDrain
            /\ rpc' = "exited"
       ELSE /\ task_queue' = task_queue \cup {rhand}
            /\ unfinished' = unfinished + 1
            /\ pending' = Minus(pending, 1)
            /\ rpc' = "loop"
            /\ UNCHANGED retry_queue
    /\ rhand' = None /\ rstopping' = FALSE
    /\ UNCHANGED <<chapter, flags, control, workers>>

-----------------------------------------------------------------------------
Controller ==
    \/ StartThreads \/ StartInline
    \/ ControllerTop \/ ControllerPoll \/ ReadPending \/ ReadUnfinished
    \/ InlineCheck \/ InlineAttempt \/ InlineRaises
    \/ Shutdown \/ JoinThreads

WorkerStep(w) ==
    \/ GetTask(w) \/ EmptyQueue(w) \/ BeginAttempt(w)
    \/ EndAttempt(w) \/ AttemptRaises(w) \/ Judge(w)
    \/ EnqueueRetry(w) \/ TaskDone(w)

RetryStep == RetryLoop \/ RetryGet \/ RetryDecide \/ RetryRequeue

\* A run that has returned does nothing more.
Done == cpc = "returned" /\ UNCHANGED vars

Next ==
    \/ RequestStop
    \/ Controller
    \/ \E w \in Worker : WorkerStep(w)
    \/ RetryStep
    \/ Done

Spec == Init /\ [][Next]_vars

\* Threads are scheduled fairly and an attempt ends; nothing obliges the user
\* to stop the course.
FairSpec ==
    /\ Spec
    /\ WF_vars(Controller)
    /\ \A w \in Worker : WF_vars(WorkerStep(w))
    /\ WF_vars(RetryStep)

-----------------------------------------------------------------------------
(* Properties *)

WorkerPC  == {"unstarted", "idle", "got", "attempt", "judge", "retry", "done",
              "leave", "raise", "exited"}
RetryPC   == {"unstarted", "loop", "get", "got", "locked", "exited"}
ControlPC == {"start", "top", "poll", "read_pending", "read_unfinished", "inline",
              "inline_attempt", "shutdown", "join", "returned"}
Result    == {"PENDING", "SUCCESS", "NOT_OPEN", "ERROR", "CANCELLED"}

\* Every variable has its type; no counter is negative and no chapter is
\* tried more often than max_tries.
TypeOK ==
    /\ task_queue \in SUBSET Task /\ retry_queue \in SUBSET Task
    /\ unfinished \in Nat /\ pending \in Nat /\ seen_pending \in Nat
    /\ tries \in [Task -> 0 .. MaxTries]
    /\ result \in [Task -> Result]
    /\ failed_tasks \in SUBSET Task /\ inline_left \in SUBSET Task
    /\ should_stop \in BOOLEAN /\ run_stop \in BOOLEAN /\ raised \in BOOLEAN
    /\ cpc \in ControlPC
    /\ wpc \in [Worker -> WorkerPC]
    /\ hand \in [Worker -> Task \cup {None}]
    /\ rpc \in RetryPC /\ rhand \in Task \cup {None} /\ rstopping \in BOOLEAN

\* A worker between its get() and its task_done().
Busy(w) == wpc[w] \in {"got", "attempt", "judge", "retry", "done", "leave", "raise"}

\* The retry thread between its get() and the release of the hand-off counter.
Handing == rpc \in {"got", "locked"}

\* The two counters that decide when a run is over count exactly what they
\* are said to count: unfinished_tasks the queued chapters and the workers
\* that owe a task_done(), _pending_retries the chapters on retry_queue and
\* the one in the retry thread's hand.  So no drain, promotion, cancellation
\* or shutdown leaves a count behind (the run would never end) or takes one
\* too many (task_done() would raise).
CountersExact ==
    /\ unfinished = Cardinality(task_queue) + Cardinality({w \in Worker : Busy(w)})
    /\ pending = Cardinality(retry_queue) + (IF Handing THEN 1 ELSE 0)

\* The threads that hold chapter t in their hands with work left to do on it.
Holders(t) == {w \in Worker : wpc[w] \in {"got", "attempt", "judge", "retry"} /\ hand[w] = t}

\* Where chapter t is, of the places it can be handed on from.
Places(t) ==
    (IF t \in task_queue  THEN {"task_queue"}  ELSE {}) \cup
    (IF t \in retry_queue THEN {"retry_queue"} ELSE {}) \cup
    (IF Handing /\ rhand = t THEN {"retry_thread"} ELSE {}) \cup
    Holders(t)

\* No chapter is in two places: two workers never work on the same chapter,
\* and a chapter handed to the retry pipeline is not also still queued.
OnePlace ==
    \A t \in Task : \A p, q \in Places(t) : p = q

\* While the controller has not ended the run, no user stop and no exception
\* intervened, a chapter is settled, given up, or somewhere in the pipeline.
Settled(t) == t \in failed_tasks \/ Settles(result[t])

NothingLostWhileRunning ==
    (/\ cpc \in {"top", "poll", "read_pending", "read_unfinished"}
     /\ ~should_stop /\ ~raised /\ \A w \in Worker : wpc[w] # "raise")
    => \A t \in Task : Settled(t) \/ Places(t) # {}

\* failed_tasks holds exactly the chapters that used up their tries, and none
\* of them is queued or attempted again.
GivenUpForGood ==
    /\ failed_tasks = {t \in Task : tries[t] = MaxTries}
    /\ \A t \in failed_tasks : Places(t) = {} /\ t \notin inline_left

\* When run() returns or raises, no thread it started is left, both queues
\* are empty and both counters are zero: nothing of this run can act later.
QuietAfterReturn ==
    cpc = "returned" =>
        /\ \A w \in Worker : wpc[w] \in {"unstarted", "exited"}
        /\ rpc \in {"unstarted", "exited"}
        /\ task_queue = {} /\ retry_queue = {}
        /\ unfinished = 0 /\ pending = 0

\* Every run ends, whatever fails, retries, raises or is stopped.
Termination == <>(cpc = "returned")

\* A run that nobody stopped and that raised nothing has settled every
\* chapter: it was done, skipped, or given up and reported as failed.
EveryChapterAccounted ==
    (cpc = "returned" /\ ~should_stop /\ ~raised) => \A t \in Task : Settled(t)
=============================================================================
