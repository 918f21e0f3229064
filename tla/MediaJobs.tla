------------------------------ MODULE MediaJobs ------------------------------
(***************************************************************************)
(* One video or live task point: study_video and video_progress_log in     *)
(* services/course/chaoxing/video_service.py, run_live in live_process.py, *)
(* and the branches of process_job in learning.py that run them (a video   *)
(* that fails is studied again as audio).                                  *)
(*                                                                         *)
(* Time is in steps of some seconds.  What the platform answers and how    *)
(* long a pause takes is nondeterministic; a pause takes at least a step.  *)
(***************************************************************************)
EXTENDS Integers

CONSTANTS
    MaxTime,       \* bound: longest duration or play time the platform tells
    MaxForbidden,  \* MAX_FORBIDDEN_RETRY
    MaxSaturated,  \* MAX_REPORTS_WHILE_SATURATED
    MaxMinutes     \* bound: minutes of a live

VARIABLES
    at,         \* where the job is
    kind,       \* what it is being studied as
    stop,       \* the user asked to stop
    result,     \* what process_job returned, "none" until it does
    duration,   \* video: its length as last told
    played,     \* video: play_time
    logged,     \* video: last_log_time
    wait,       \* video: wait_time
    forbidden,  \* video: forbidden_retry
    saturated,  \* video: saturated_reports
    reports,    \* history: video, reports of this study
    total,      \* live: total_minutes
    minutes,    \* live: minutes left to submit
    accepted,   \* history: live, minutes the platform accepted
    passed      \* history: the platform said isPassed

video == <<duration, played, logged, wait, forbidden, saturated, reports>>
live == <<total, minutes, accepted>>
mediaVars == <<at, kind, stop, result, video, live, passed>>

Failures == {"forbidden", "error", "timeout"}
Length == 0 .. MaxTime
Pauses == 1 .. 2

Init ==
    /\ at = "start" /\ kind \in {"video", "live"}
    /\ stop = FALSE /\ result = "none" /\ passed = FALSE
    /\ duration = 0 /\ played = 0 /\ logged = 0 /\ wait = 1
    /\ forbidden = 0 /\ saturated = 0 /\ reports = 0
    /\ total = 0 /\ minutes = 0 /\ accepted = 0

Stop ==
    /\ ~stop /\ stop' = TRUE
    /\ UNCHANGED <<at, kind, result, video, live, passed>>

Goto(place) == at' = place /\ UNCHANGED <<kind, result>>

Return(r) == at' = "returned" /\ result' = r /\ UNCHANGED kind

\* process_job: a video that failed is an audio, perhaps.
Finish(r) ==
    IF kind = "video" /\ r \in Failures
    THEN at' = "start" /\ kind' = "audio" /\ UNCHANGED result
    ELSE Return(r)

Cancelled ==
    /\ stop /\ at \in {"start", "loop", "minute", "retry", "pause"}
    /\ (at = "start" => kind # "audio")
    /\ Return("cancelled")
    /\ UNCHANGED <<stop, video, live, passed>>

-----------------------------------------------------------------------------
(* study_video *)

\* The platform tells the length and how far the user got; the first report
\* may be enough, whatever its status is.
StartVideo ==
    /\ at = "start" /\ kind # "live" /\ (kind = "video" => ~stop)
    /\ \/ Finish("error") /\ UNCHANGED <<video, passed>>
       \/ Return("raised") /\ UNCHANGED <<video, passed>>
       \/ /\ duration' \in Length /\ played' \in Length /\ wait' \in Pauses
          /\ logged' = 0 /\ forbidden' = 0 /\ saturated' = 0 /\ reports' = 1
          /\ \/ Return("success") /\ passed' = TRUE
             \/ Goto("loop") /\ UNCHANGED passed
    /\ UNCHANGED <<stop, live>>

\* The position advances with the clock, up to the end.
Advance(from) ==
    /\ \E dt \in Pauses : played' = IF from + dt > duration THEN duration ELSE from + dt
    /\ UNCHANGED duration

ReportDue == played - logged >= wait \/ played = duration

Watch ==
    /\ at = "loop" /\ ~stop /\ ~ReportDue
    /\ Advance(played)
    /\ UNCHANGED <<at, kind, stop, result, logged, wait, forbidden, saturated, reports, live, passed>>

\* After a report that did not end the study.
NextPeriod ==
    /\ wait' \in Pauses /\ logged' = played
    /\ Advance(played)
    /\ Goto("loop")

Report ==
    /\ at = "loop" /\ ~stop /\ ReportDue
    /\ reports' = reports + 1
    /\ UNCHANGED <<stop, live>>

ReportPasses ==
    /\ Report /\ Return("success")
    /\ passed' = TRUE
    /\ UNCHANGED <<duration, played, logged, wait, forbidden, saturated>>

\* Any other status than 200 and 403, or an exception.
ReportFails ==
    /\ Report
    /\ Finish("error") \/ Return("raised")
    /\ UNCHANGED <<duration, played, logged, wait, forbidden, saturated, passed>>

\* 200, but not passed: at the end of the video only so often.
ReportNotEnough ==
    /\ Report
    /\ saturated' = IF played >= duration THEN saturated + 1 ELSE saturated
    /\ IF saturated' > saturated /\ saturated' >= MaxSaturated
       THEN Finish("timeout") /\ UNCHANGED <<duration, played, logged, wait>>
       ELSE NextPeriod
    /\ UNCHANGED <<forbidden, passed>>

\* _refresh_video_status: another length and another position, perhaps.
Refreshed == duration' \in Length /\ played' \in Length

\* Wrong on purpose: a refreshed session has all its retries again.
ForbiddenAgain ==
    /\ Report /\ forbidden < MaxForbidden
    /\ \/ /\ forbidden' = forbidden + 1
          /\ NextPeriod /\ UNCHANGED saturated
       \/ /\ Refreshed /\ saturated' = 0 /\ forbidden' = 0
          /\ Goto("loop") /\ UNCHANGED <<logged, wait>>
    /\ UNCHANGED passed

\* 403: after a refresh the saturated reports are forgotten; without one the
\* loop goes on as it does after any report.
ReportForbidden ==
    /\ Report /\ forbidden < MaxForbidden
    /\ forbidden' = forbidden + 1
    /\ \/ NextPeriod /\ UNCHANGED saturated
       \/ /\ Refreshed /\ saturated' = 0
          /\ Goto("loop") /\ UNCHANGED <<logged, wait>>
    /\ UNCHANGED passed

ReportForbiddenForGood ==
    /\ Report /\ forbidden = MaxForbidden
    /\ Finish("forbidden")
    /\ UNCHANGED <<duration, played, logged, wait, forbidden, saturated, passed>>

-----------------------------------------------------------------------------
(* run_live, in a thread of its own that process_job waits for *)

StartLive ==
    /\ at = "start" /\ kind = "live" /\ ~stop
    /\ \/ Return("error") /\ UNCHANGED <<total, minutes>>
       \/ /\ Goto("minute")
          /\ total' \in 1 .. MaxMinutes /\ minutes' = total'
    /\ UNCHANGED <<stop, video, accepted, passed>>

\* Wrong on purpose: a minute that was not accepted twice is skipped.
SkipMinute ==
    /\ at \in {"minute", "retry"} /\ ~stop
    /\ \/ Goto("pause") /\ minutes' = minutes - 1 /\ accepted' = accepted + 1 /\ UNCHANGED total
       \/ at = "minute" /\ Goto("retry") /\ UNCHANGED live
       \/ at = "retry" /\ Goto("pause") /\ minutes' = minutes - 1 /\ UNCHANGED <<total, accepted>>
    /\ UNCHANGED <<stop, video, passed>>

\* do_finish, and once more some seconds later; a stop that comes after the
\* last look makes a failure a cancellation.
SubmitMinute ==
    /\ at \in {"minute", "retry"} /\ ~stop
    /\ \/ Goto("pause") /\ minutes' = minutes - 1 /\ accepted' = accepted + 1 /\ UNCHANGED total
       \/ at = "minute" /\ Goto("retry") /\ UNCHANGED live
       \/ at = "retry" /\ Goto("failed") /\ UNCHANGED live
    /\ UNCHANGED <<stop, video, passed>>

LiveFailed ==
    /\ at = "failed"
    /\ Return(IF stop THEN "cancelled" ELSE "error")
    /\ UNCHANGED <<stop, video, live, passed>>

\* The pause after the last minute is taken, too, unless a stop ends it.
Pause ==
    /\ at = "pause"
    /\ IF minutes > 0 THEN Goto("minute") ELSE Return("success")
    /\ UNCHANGED <<stop, video, live, passed>>

Next ==
    \/ Stop \/ Cancelled
    \/ StartVideo \/ Watch
    \/ ReportPasses \/ ReportFails \/ ReportNotEnough
    \/ ReportForbidden \/ ReportForbiddenForGood
    \/ StartLive \/ SubmitMinute \/ LiveFailed \/ Pause

Spec == Init /\ [][Next]_mediaVars

-----------------------------------------------------------------------------
(* Properties *)

TypeOK ==
    /\ at \in {"start", "loop", "minute", "retry", "failed", "pause", "returned"}
    /\ kind \in {"video", "audio", "live"}
    /\ stop \in BOOLEAN /\ passed \in BOOLEAN
    /\ result \in Failures \cup {"none", "success", "cancelled", "raised"}
    /\ duration \in Length /\ played \in Length /\ logged \in Length /\ wait \in Pauses
    /\ forbidden \in 0 .. MaxForbidden /\ saturated \in 0 .. MaxSaturated
    /\ total \in 0 .. MaxMinutes /\ minutes \in 0 .. MaxMinutes /\ accepted \in 0 .. MaxMinutes

\* A worker is never occupied for ever: between two refreshes a video is
\* reported at most once a step of time while it plays and MaxSaturated times
\* at its end, whatever the platform answers, and it is refreshed at most
\* MaxForbidden times.
ReportsBounded ==
    reports <= 1 + (MaxForbidden + 1) * (MaxTime + MaxSaturated + 1)

\* Success is the platform's word, for a video, and all minutes of a live; and
\* nothing is called cancelled that the user did not stop.
ResultIsTrue ==
    /\ result = "success" => IF kind = "live" THEN accepted = total ELSE passed
    /\ result = "cancelled" => stop
    /\ passed => result = "success"

MediaSound == TypeOK /\ ReportsBounded /\ ResultIsTrue
=============================================================================
