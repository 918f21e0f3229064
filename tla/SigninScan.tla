------------------------------ MODULE SigninScan ------------------------------
(***************************************************************************)
(* How a sign-in task looks for open activities and signs them:            *)
(* ChaoxingSigninClient and the loop of _run_task_worker in                *)
(* backend/app/services/course/chaoxing/signin.py, against a platform      *)
(* whose every answer may be missing, a login page or unreadable.          *)
(*                                                                         *)
(* How pages are parsed is left out: an answer that can be read says what  *)
(* the platform has.  One activity stands for all that need a code, a      *)
(* gesture or a QR code, which are signed in the same way.                 *)
(***************************************************************************)
EXTENDS Integers, SequencesExt

CONSTANTS
    Folder,    \* course folders
    Main,      \* the one of them that always exists
    Course,
    Activity,
    Photo,     \* activities that want a photo
    Coded,     \* activities that want a code
    Unknown,   \* activities of a kind the program does not know
    Nowhere    \* no course

VARIABLES
    listed,    \* platform: the courses of each folder
    open,      \* platform: the course of each activity that is open
    wanted,    \* sign_type
    selected,  \* courses that the filters let through
    given,     \* the user gave a code and a photo
    place,     \* where the worker is
    attempts,  \* logins tried
    folders,   \* folders not read yet
    courses,   \* courses found
    failures,  \* courses that could not be checked
    tasks,     \* activities to sign
    failed,    \* activities that were not signed as far as the worker knows
    posts,     \* history: how often each activity was submitted
    signed,    \* history: activities the platform took as signed
    verdict    \* what the worker reports

platform == <<listed, open, wanted, selected, given>>
search == <<folders, courses, failures, tasks>>
signing == <<failed, posts, signed>>
scanVars == <<platform, place, attempts, search, signing, verdict>>

Kind(a) == IF a \in Photo THEN "photo" ELSE IF a \in Coded THEN "code"
           ELSE IF a \in Unknown THEN "unknown" ELSE "normal"

Init ==
    /\ listed \in [Folder -> SUBSET Course]
    /\ open \in [Activity -> Course \cup {Nowhere}]
    /\ wanted \in {"all", "normal", "photo"}
    /\ selected \in {Course} \cup {{c} : c \in Course}
    /\ given \in BOOLEAN
    /\ place = "login" /\ attempts = 0
    /\ folders = {} /\ courses = <<>> /\ failures = 0 /\ tasks = <<>>
    /\ failed = {} /\ signed = {}
    /\ posts = [a \in Activity |-> 0]
    /\ verdict = "none"

Report(v) == place' = "reported" /\ verdict' = v
Go(next) == place' = next /\ UNCHANGED verdict

-----------------------------------------------------------------------------
(* Looking for activities *)

\* login: one encryption, then the other.
LogIn ==
    /\ place = "login"
    /\ attempts' = attempts + 1
    /\ \/ Go("folders")
       \/ IF attempts' < 2 THEN Go("login") ELSE Report("error")
    /\ UNCHANGED <<platform, search, signing>>

\* _parse_course_folders; any failure ends the search.
ReadFolders ==
    /\ place = "folders"
    /\ \/ Go("courses") /\ folders' = Folder
       \/ Report("error") /\ UNCHANGED folders
    /\ UNCHANGED <<platform, attempts, courses, failures, tasks, signing>>

FolderNext == IF Main \in folders THEN Main ELSE CHOOSE f \in folders : TRUE

\* Wrong on purpose: a course is checked for every folder it is in.
EveryListing(f) == SetToSeq(listed[f])

NewCourses(f) == SetToSeq(listed[f] \ ToSet(courses))

ReadCourses ==
    /\ place = "courses" /\ folders # {}
    /\ \/ /\ courses' = courses \o NewCourses(FolderNext)
          /\ folders' = folders \ {FolderNext}
          /\ UNCHANGED <<place, verdict>>
       \/ Report("error") /\ UNCHANGED <<folders, courses>>
    /\ UNCHANGED <<platform, attempts, failures, tasks, signing>>

EndCourses ==
    /\ place = "courses" /\ folders = {} /\ Go("activities")
    /\ UNCHANGED <<platform, attempts, search, signing>>

\* A course that the filters do not let through.
PassOver ==
    /\ place = "activities" /\ courses # <<>> /\ Head(courses) \notin selected
    /\ courses' = Tail(courses)
    /\ UNCHANGED <<platform, place, attempts, folders, failures, tasks, signing, verdict>>

\* What get_active_tasks keeps of a course's activities.
Matching(c) == {a \in Activity : open[a] = c /\ Kind(a) # "unknown" /\ wanted \in {"all", Kind(a)}}

\* A course that cannot be checked is passed over; an expired session, or an
\* activity whose kind cannot be found out, ends the search.
CheckCourse ==
    /\ place = "activities" /\ courses # <<>> /\ Head(courses) \in selected
    /\ \/ /\ tasks' = tasks \o SetToSeq(Matching(Head(courses)))
          /\ courses' = Tail(courses)
          /\ UNCHANGED <<place, failures, verdict>>
       \/ /\ failures' = failures + 1
          /\ courses' = Tail(courses)
          /\ UNCHANGED <<place, tasks, verdict>>
       \/ Report("error") /\ UNCHANGED <<courses, failures, tasks>>
    /\ UNCHANGED <<platform, attempts, folders, signing>>

\* Wrong on purpose: courses that could not be checked have no activities.
SearchEndsQuietly ==
    /\ place = "activities" /\ courses = <<>>
    /\ IF tasks = <<>> THEN Report("nothing open") ELSE Go("sign")
    /\ UNCHANGED <<platform, attempts, search, signing>>

SearchEnds ==
    /\ place = "activities" /\ courses = <<>>
    /\ IF tasks # <<>> THEN Go("sign")
       ELSE IF failures > 0 THEN Report("error") ELSE Report("nothing open")
    /\ UNCHANGED <<platform, attempts, search, signing>>

-----------------------------------------------------------------------------
(* Signing: sign_task for each activity *)

Current == Head(tasks)

NextTask(ok) ==
    /\ tasks' = Tail(tasks)
    /\ failed' = IF ok THEN failed ELSE failed \cup {Current}
    /\ Go("sign")

Fails(stage) ==
    /\ place = stage /\ NextTask(FALSE)
    /\ UNCHANGED <<platform, attempts, folders, courses, failures, posts, signed>>

Passes(stage, next) ==
    /\ place = stage /\ Go(next)
    /\ UNCHANGED <<platform, attempts, search, signing>>

\* _pre_sign: the three requests before every submission.
PreSign ==
    /\ tasks # <<>>
    /\ \/ Passes("sign", "analysis") \/ Fails("sign")
       \/ Passes("analysis", "analysis2") \/ Fails("analysis")
       \/ Passes("analysis2", "prepare") \/ Fails("analysis2")

\* What the kind of the activity wants: nothing, a code, or a photo that is
\* uploaded first.
Prepare ==
    /\ place = "prepare"
    /\ \/ /\ Kind(Current) = "normal" \/ given
          /\ Passes("prepare", "submit")
       \/ /\ Kind(Current) = "photo" \/ (Kind(Current) = "code" /\ ~given)
          /\ Fails("prepare")

\* The platform takes it or not; that it took it may remain unknown.
Submit ==
    /\ place = "submit"
    /\ posts' = [posts EXCEPT ![Current] = @ + 1]
    /\ \/ signed' = signed \cup {Current} /\ NextTask(TRUE)
       \/ signed' \in {signed, signed \cup {Current}} /\ NextTask(FALSE)
    /\ UNCHANGED <<platform, attempts, folders, courses, failures>>

Finish ==
    /\ place = "sign" /\ tasks = <<>>
    /\ Report(IF failed = {} THEN "completed" ELSE "error")
    /\ UNCHANGED <<platform, attempts, search, signing>>

Next ==
    \/ LogIn \/ ReadFolders \/ ReadCourses \/ EndCourses
    \/ PassOver \/ CheckCourse \/ SearchEnds
    \/ PreSign \/ Prepare \/ Submit \/ Finish

Spec == Init /\ [][Next]_scanVars

-----------------------------------------------------------------------------
(* Properties *)

Places == {"login", "folders", "courses", "activities", "sign", "analysis",
           "analysis2", "prepare", "submit", "reported"}

TypeOK ==
    /\ place \in Places /\ attempts \in 0 .. 2
    /\ folders \subseteq Folder /\ ToSet(courses) \subseteq Course
    /\ failures \in Nat /\ ToSet(tasks) \subseteq Activity
    /\ failed \subseteq Activity /\ signed \subseteq Activity
    /\ verdict \in {"none", "error", "nothing open", "completed"}

Taught == selected \cap UNION {listed[f] : f \in Folder}
Due == UNION {Matching(c) : c \in Taught}

\* "Nothing open" is said only of a platform where no activity of the courses
\* asked for was open, whatever requests failed; and a task is completed only
\* if all that was found is signed.
VerdictIsTrue ==
    /\ verdict = "nothing open" => Due = {}
    /\ verdict = "completed" => failed = {} /\ signed # {}
    /\ verdict = "completed" /\ failures = 0 => signed = Due

\* No activity is submitted twice, though its course may be in several folders,
\* and none that was not asked for.
SubmittedOnce == \A a \in Activity : posts[a] <= (IF a \in Due THEN 1 ELSE 0)

ScanSound == TypeOK /\ VerdictIsTrue /\ SubmittedOnce
=============================================================================
