----------------------------- MODULE ChapterJobs -----------------------------
(***************************************************************************)
(* One chapter and its task points: process_chapter, process_job and the   *)
(* inline fallback in services/course/chaoxing/learning.py, on a           *)
(* ThreadPoolExecutor that may be unable to start a thread.                *)
(*                                                                         *)
(* What a task point's own requests answer is nondeterministic; video and  *)
(* live points notice a stop, the others do not.                           *)
(***************************************************************************)
EXTENDS Integers, Sequences, FiniteSets

CONSTANTS
    Job,        \* task points
    Stoppable,  \* those of them that are videos or lives
    Video,      \* those of them that are videos
    MaxThreads  \* max_workers of the executor

VARIABLES
    place,      \* where process_chapter is
    answer,     \* its result, "none" until it has one
    jobs,       \* task points of the chapter, in order
    queue,      \* the executor's queue
    threads,    \* the executor's threads
    pooled,     \* what the executor's threads are doing with each task point
    inline,     \* the same for process_chapter itself
    pending,    \* task points whose future is waited for
    stop,       \* the user asked to stop
    started,    \* history: how often each task point was started
    done        \* calls of chapter_done_callback

chapterVars == <<place, answer, jobs, queue, threads, pooled, inline, pending,
                 stop, started, done>>

Results == {"success", "failure", "cancelled", "raised"}
Active == {"first", "audio"}

Orders == UNION {{s \in [1 .. n -> Job] : \A i, k \in 1 .. n : s[i] = s[k] => i = k} :
                    n \in 0 .. Cardinality(Job)}
InOrder(s) == {s[i] : i \in DOMAIN s}

Init ==
    /\ place = "start" /\ answer = "none"
    /\ jobs = <<>> /\ queue = <<>> /\ threads = 0
    /\ pooled = [j \in Job |-> "no"] /\ inline = [j \in Job |-> "no"]
    /\ pending = {} /\ stop = FALSE
    /\ started = [j \in Job |-> 0]
    /\ done = 0

Stop ==
    /\ ~stop /\ stop' = TRUE
    /\ UNCHANGED <<place, answer, jobs, queue, threads, pooled, inline, pending, started, done>>

pool == <<queue, threads, pooled>>
work == <<inline, started>>

\* The executor's shutdown that leaves its threads behind and empties its queue.
LeaveWith(result) ==
    /\ place' = "returned" /\ answer' = result
    /\ queue' = <<>> /\ pending' = {}
    /\ UNCHANGED <<threads, pooled>>

\* Returns before there is an executor.
ReturnEarly(result) ==
    /\ place' = "returned" /\ answer' = result
    /\ UNCHANGED <<pool, pending>>

-----------------------------------------------------------------------------
(* process_chapter up to its executor *)

Cards == [status : {"error", "closed", "blank"}, jobs : {<<>>}]
         \cup [status : {"read"}, jobs : Orders]

\* get_job_list: the first card that cannot be read or is closed decides; the
\* list of a chapter whose cards say nothing at all is taken for a failure.
JobList(c) ==
    LET bad == {i \in DOMAIN c : c[i].status \in {"error", "closed"}}
        first == CHOOSE i \in bad : \A k \in bad : i <= k
    IN  IF bad # {}
        THEN [status |-> IF c[first].status = "closed" THEN "not open" ELSE "failure", jobs |-> <<>>]
        ELSE IF \A i \in DOMAIN c : c[i].status = "blank"
        THEN [status |-> "failure", jobs |-> <<>>]
        ELSE [status |-> "read", jobs |-> c[1].jobs \o c[2].jobs]

\* A finished chapter is counted and left; otherwise the task points are
\* fetched, and a stop is noticed before a closed or an unreadable chapter.
Fetch ==
    /\ place = "start"
    /\ \/ ReturnEarly("success") /\ done' = done + 1 /\ UNCHANGED jobs
       \/ ReturnEarly("raised") /\ UNCHANGED <<done, jobs>>
       \/ stop /\ ReturnEarly("cancelled") /\ UNCHANGED <<done, jobs>>
       \/ \E c \in Cards \X Cards :
            /\ ~stop
            /\ LET list == JobList(c) IN
                /\ list.jobs \in Orders
                /\ jobs' = list.jobs
                /\ IF list.status = "read"
                   THEN place' = "submit" /\ UNCHANGED <<answer, pool, pending>>
                   ELSE ReturnEarly(list.status)
            /\ UNCHANGED done
    /\ UNCHANGED <<stop, work>>

Submitted == Cardinality({j \in Job : pooled[j] # "no"})
Idle == threads - Cardinality({j \in Job : pooled[j] \in Active})
Spare == Idle - Len(queue)
Next1 == jobs[Submitted + 1]

\* submit() enqueues first, and then starts a thread if none is idle.
Submit ==
    /\ place = "submit" /\ Submitted < Len(jobs)
    /\ queue' = Append(queue, Next1)
    /\ pooled' = [pooled EXCEPT ![Next1] = "queued"]
    /\ pending' = pending \cup {Next1}
    /\ threads' = IF Spare > 0 \/ threads = MaxThreads THEN threads ELSE threads + 1
    /\ UNCHANGED <<place, answer, jobs, stop, work, done>>

Cancelled(J) == [j \in Job |-> IF j \in J /\ pooled[j] = "queued" THEN "dropped" ELSE pooled[j]]

\* The thread cannot be started: the futures that still can be are cancelled,
\* the point just enqueued stays in the queue, and all points are processed
\* inline, those included that a thread is working on.
SubmitFails ==
    /\ place = "submit" /\ Submitted < Len(jobs)
    /\ Spare <= 0 /\ threads < MaxThreads
    /\ queue' = <<Next1>>
    /\ pooled' = [Cancelled(pending) EXCEPT ![Next1] = "queued"]
    /\ pending' = {}
    /\ place' = "inline"
    /\ UNCHANGED <<answer, jobs, threads, stop, work, done>>

AllSubmitted ==
    /\ place = "submit" /\ Submitted = Len(jobs)
    /\ place' = "wait"
    /\ UNCHANGED <<answer, jobs, pool, pending, stop, work, done>>

-----------------------------------------------------------------------------
(* process_job *)

\* Wrong on purpose: a stoppable point ends as cancelled without a stop.
OutcomesUnasked(j, stage) ==
    (IF j \in Stoppable THEN {"cancelled"} ELSE {})
    \cup {"success", "raised"}
    \cup (IF j \in Video /\ stage = "first" THEN {"audio"} ELSE {"failure"})

\* What a point under way may become; a video that failed is tried as audio.
Outcomes(j, stage) ==
    (IF j \in Stoppable /\ stop THEN {"cancelled"} ELSE {})
    \cup {"success", "raised"}
    \cup (IF j \in Video /\ stage = "first" THEN {"audio"} ELSE {"failure"})

\* A thread of the executor takes the next point, unless a stop is noticed.
Take ==
    /\ queue # <<>> /\ Idle > 0
    /\ LET j == Head(queue) IN
        /\ pooled' = [pooled EXCEPT ![j] = IF @ = "queued" /\ stop THEN "cancelled"
                                           ELSE IF @ = "queued" THEN "first" ELSE @]
        /\ started' = [started EXCEPT ![j] = IF pooled[j] = "queued" /\ ~stop THEN @ + 1 ELSE @]
    /\ queue' = Tail(queue)
    /\ UNCHANGED <<place, answer, jobs, threads, inline, pending, stop, done>>

Work(j) ==
    /\ pooled[j] \in Active
    /\ \E r \in Outcomes(j, pooled[j]) : pooled' = [pooled EXCEPT ![j] = r]
    /\ UNCHANGED <<place, answer, jobs, queue, threads, inline, pending, stop, started, done>>

-----------------------------------------------------------------------------
(* _process_jobs_inline *)

InlineAt == CHOOSE i \in 1 .. Len(jobs) + 1 :
    (i > Len(jobs) \/ inline[jobs[i]] # "success") /\ \A k \in 1 .. i - 1 : inline[jobs[k]] = "success"

StartInline ==
    /\ place = "inline" /\ InlineAt <= Len(jobs) /\ inline[jobs[InlineAt]] = "no"
    /\ \/ stop /\ LeaveWith("cancelled") /\ UNCHANGED work
       \/ /\ ~stop
          /\ inline' = [inline EXCEPT ![jobs[InlineAt]] = "first"]
          /\ started' = [started EXCEPT ![jobs[InlineAt]] = @ + 1]
          /\ UNCHANGED <<place, answer, pool, pending>>
    /\ UNCHANGED <<jobs, stop, done>>

WorkInline ==
    /\ place = "inline" /\ InlineAt <= Len(jobs) /\ inline[jobs[InlineAt]] \in Active
    /\ \E r \in Outcomes(jobs[InlineAt], inline[jobs[InlineAt]]) :
        /\ inline' = [inline EXCEPT ![jobs[InlineAt]] = r]
        /\ IF r \in {"success", "audio"}
           THEN UNCHANGED <<place, answer, pool, pending>>
           ELSE LeaveWith(r)
    /\ UNCHANGED <<jobs, stop, started, done>>

\* The executor is left behind here, too.
InlineSucceeds ==
    /\ place = "inline" /\ InlineAt > Len(jobs)
    /\ LeaveWith("success")
    /\ done' = done + 1
    /\ UNCHANGED <<jobs, stop, work>>

-----------------------------------------------------------------------------
(* The loop over the futures *)

Finished == {j \in pending : pooled[j] \in Results}
Bad == {j \in Finished : pooled[j] # "success"}

\* Wrong on purpose: the results of a round are judged by one of them.
CollectAny ==
    /\ place = "wait" /\ pending # {}
    /\ \E j \in Finished :
        IF j \in Bad THEN LeaveWith(pooled[j])
        ELSE pending' = pending \ Finished /\ UNCHANGED <<place, answer, pool>>
    /\ UNCHANGED <<jobs, stop, work, done>>

\* A stop is noticed first.  Then any bad result of those that came ends the
\* loop; an exception waits for the other points before it escapes.
Collect ==
    /\ place = "wait" /\ pending # {}
    /\ \/ stop /\ LeaveWith("cancelled")
       \/ /\ ~stop
          /\ \E j \in Bad :
               IF pooled[j] # "raised" THEN LeaveWith(pooled[j])
               ELSE place' = "raising" /\ UNCHANGED <<answer, pool, pending>>
       \/ /\ ~stop /\ Bad = {} /\ Finished # {}
          /\ pending' = pending \ Finished
          /\ UNCHANGED <<place, answer, pool>>
    /\ UNCHANGED <<jobs, stop, work, done>>

Quiet == queue = <<>> /\ \A j \in Job : pooled[j] \notin Active

\* Wrong on purpose: an exception does not wait.
RaiseAtOnce ==
    /\ place = "raising"
    /\ place' = "returned" /\ answer' = "raised"
    /\ UNCHANGED <<jobs, pool, pending, stop, work, done>>

Raise ==
    /\ place = "raising" /\ Quiet
    /\ place' = "returned" /\ answer' = "raised"
    /\ UNCHANGED <<jobs, pool, pending, stop, work, done>>

Succeed ==
    /\ place = "wait" /\ pending = {}
    /\ place' = "returned" /\ answer' = "success"
    /\ done' = done + 1
    /\ UNCHANGED <<jobs, pool, pending, stop, work>>

-----------------------------------------------------------------------------
Next ==
    \/ Stop \/ Fetch \/ Submit \/ SubmitFails \/ AllSubmitted
    \/ Take \/ \E j \in Job : Work(j)
    \/ StartInline \/ WorkInline \/ InlineSucceeds
    \/ Collect \/ Raise \/ Succeed

Spec == Init /\ [][Next]_chapterVars

-----------------------------------------------------------------------------
(* Properties *)

TypeOK ==
    /\ place \in {"start", "submit", "wait", "inline", "raising", "returned"}
    /\ answer \in Results \cup {"none", "not open"}
    /\ jobs \in Orders /\ queue \in Orders
    /\ threads \in 0 .. MaxThreads
    /\ pooled \in [Job -> Results \cup Active \cup {"no", "queued", "dropped"}]
    /\ inline \in [Job -> Results \cup Active \cup {"no"}]
    /\ pending \subseteq Job /\ stop \in BOOLEAN
    /\ started \in [Job -> 0 .. 2]
    /\ done \in 0 .. 1

\* A chapter is reported as done exactly if process_chapter succeeds, and that
\* only if every task point did, with a thread of the executor or inline.
SuccessIsEarned ==
    /\ done = 1 <=> place = "returned" /\ answer = "success"
    /\ answer = "success" => \A j \in InOrder(jobs) : "success" \in {pooled[j], inline[j]}

\* A task point is started twice only after a thread could not be started and
\* the chapter went on inline; and once process_chapter returned, no point
\* starts any more, and none is under way after a success or an exception of
\* the executor's loop.
PointsOnce ==
    LET fellBack == \E j \in Job : inline[j] # "no" IN
    /\ ~fellBack => \A j \in Job : started[j] <= 1
    /\ place = "returned" => queue = <<>>
    /\ place = "returned" /\ answer \in {"success", "raised"} /\ ~fellBack => Quiet

\* A chapter answers that it was cancelled only if the user asked to stop,
\* whichever thread noticed it first: the scheduler, which does not try such a
\* chapter again, takes that for granted.
CancelsIfAsked == answer = "cancelled" => stop

ChapterSound == TypeOK /\ SuccessIsEarned /\ PointsOnce /\ CancelsIfAsked
=============================================================================
