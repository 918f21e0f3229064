------------------------------- MODULE MCParts -------------------------------
(***************************************************************************)
(* The parts of the service that keep state of their own, on small         *)
(* instances: registration, the schema repair, the sign-in tasks with      *)
(* their history and their scan, what a chapter, a video or live, and a    *)
(* quiz do in a learning task, the question bank, and the Zhihuishu feed.  *)
(* A behaviour is a behaviour of one part, chosen in the initial state,    *)
(* while the others rest in theirs.                                        *)
(***************************************************************************)
EXTENDS MCRegistration, FiniteSets

CONSTANTS Process, Healer, Tenant
CONSTANTS Task, User, Account, MaxActive
CONSTANTS Writer, Reader, Keep, LastRecord
CONSTANTS Folder, Main, Course, Activity, Photo, Coded, Unknown, Nowhere
CONSTANTS Job, Stoppable, Video, MaxThreads
CONSTANTS MaxTime, MaxForbidden, MaxSaturated, MaxMinutes
CONSTANTS Question, Completion, Workers, NeedPercent, Attempts
CONSTANTS Thread, Title, NumTokens, Key, MaxBalance, RefreshEvery, Permits, MaxTries
CONSTANTS MaxLogins, MaxTasks, Call

\* No call of the bootstrap and no user is nobody; courses, activities, task points,
\* questions and threads are finitely many, times and limits are numbers, and what is
\* tried is tried at least once.
ASSUME SchemaAssumption == None \notin Process \cup Healer
ASSUME SigninAssumption == None \notin User
ASSUME HistoryAssumption == Keep \in Nat /\ LastRecord \in Nat
ASSUME ScanAssumption == IsFiniteSet(Course) /\ IsFiniteSet(Activity)
ASSUME ChapterAssumption == IsFiniteSet(Job) /\ MaxThreads \in Nat
ASSUME MediaAssumption ==
    MaxTime \in Nat /\ MaxForbidden \in Nat /\ MaxSaturated \in Nat \ {0} /\ MaxMinutes \in Nat
ASSUME QuizAssumption ==
    IsFiniteSet(Question) /\ NeedPercent \in Nat /\ Attempts \in Nat \ {0}
ASSUME BankAssumption ==
    /\ IsFiniteSet(Thread) /\ Thread # {}
    /\ {NumTokens, MaxTries, RefreshEvery} \subseteq Nat \ {0}
    /\ MaxBalance \in Nat /\ Permits \in Nat
ASSUME FeedAssumption == MaxLogins \in Nat /\ MaxTasks \in Nat

VARIABLES users, template, marked, lock, schemaPlace, seen, created, label, accounts, database,
          tool, todo, there, unmigrated
VARIABLES owner, record, taskRow, worker, account, outcome, clients, relogin, lookup
VARIABLES clock, items, stored, historyLoaded, made, appended, rows, spoiled
VARIABLES listed, open, wanted, selected, provided, place, attempts, folders, courses,
          failures, found, failed, posts, signed, verdict
VARIABLES chapterPlace, answer, jobs, queue, threads, pooled, inline, pending, chapterStop,
          started, done
VARIABLES mediaPlace, kind, mediaStop, mediaResult, duration, played, logged, wait,
          forbidden, saturated, reports, total, minutes, accepted, passed
VARIABLES quizPlace, saveOnly, concurrent, quizTries, doing, source, field, quizFound, form,
          flag, quizResult
VARIABLES chain, memory, file, bankLoaded, known, bankPlace, title, pos, tries, key, given,
          index, token, over, spent, balance, count, free
VARIABLES entry, logins, latest, feedOwner, state, feed, told, callPlace, held, on, word
VARIABLE part

Schema == INSTANCE SchemaBootstrap WITH place <- schemaPlace, failed <- unmigrated
Signin == INSTANCE SigninTasks WITH row <- taskRow
History == INSTANCE SigninHistory WITH loaded <- historyLoaded
Scan == INSTANCE SigninScan WITH given <- provided, tasks <- found
Chapter == INSTANCE ChapterJobs WITH place <- chapterPlace, stop <- chapterStop
Media == INSTANCE MediaJobs WITH at <- mediaPlace, stop <- mediaStop, result <- mediaResult
Quiz == INSTANCE WorkQuiz
    WITH at <- quizPlace, tries <- quizTries, found <- quizFound, result <- quizResult
Bank == INSTANCE AnswerBank WITH loaded <- bankLoaded, at <- bankPlace
Feed == INSTANCE TaskFeed WITH owner <- feedOwner, place <- callPlace

schemaVars == <<users, template, marked, lock, schemaPlace, seen, created, label, accounts,
                database, tool, todo, there, unmigrated>>
signinVars == <<owner, record, taskRow, worker, account, outcome, clients, relogin, lookup>>
historyVars == <<clock, items, stored, historyLoaded, made, appended, rows, spoiled>>
scanVars == <<listed, open, wanted, selected, provided, place, attempts, folders, courses,
              failures, found, failed, posts, signed, verdict>>
chapterVars == <<chapterPlace, answer, jobs, queue, threads, pooled, inline, pending,
                 chapterStop, started, done>>
mediaVars == <<mediaPlace, kind, mediaStop, mediaResult, duration, played, logged, wait,
               forbidden, saturated, reports, total, minutes, accepted, passed>>
quizVars == <<quizPlace, saveOnly, concurrent, quizTries, doing, source, field, quizFound, form,
              flag, quizResult>>
bankVars == <<chain, memory, file, bankLoaded, known, bankPlace, title, pos, tries, key, given,
              index, token, over, spent, balance, count, free>>
feedVars == <<entry, logins, latest, feedOwner, state, feed, told, callPlace, held, on, word>>
partsVars == <<vars, schemaVars, signinVars, historyVars, scanVars, chapterVars, mediaVars,
               quizVars, bankVars, feedVars, part>>

Parts == {"registration", "schema", "sign-in", "history", "scan", "chapter", "media", "quiz",
          "bank", "feed"}

-----------------------------------------------------------------------------
\* A part that rests does so in one of the states it may start in.
ScanRests ==
    /\ \A f \in Folder : listed[f] = {}
    /\ \A a \in Activity : open[a] = Nowhere
    /\ wanted = "normal" /\ selected = Course /\ ~provided
QuizRests == saveOnly /\ concurrent
BankRests ==
    /\ chain = <<"plain">>
    /\ \A t \in Thread : title[t] = CHOOSE q \in Title : TRUE
    /\ \A k \in Key : balance[k] = 0

PartInit ==
    /\ part \in Parts
    /\ Init /\ (part # "registration" => \A r \in Request : name[r] = CHOOSE n \in Name : TRUE)
    /\ Schema!Init /\ (part # "schema" => users /\ template = "none")
    /\ Signin!Init /\ History!Init /\ Chapter!Init /\ Feed!Init
    /\ Scan!Init /\ (part # "scan" => ScanRests)
    /\ Media!Init /\ (part # "media" => kind = "video")
    /\ Quiz!Init /\ (part # "quiz" => QuizRests)
    /\ Bank!Init /\ (part # "bank" => BankRests)

RestOf(p) ==
    /\ part = p /\ part' = p
    /\ p # "registration" => UNCHANGED vars
    /\ p # "schema" => UNCHANGED schemaVars
    /\ p # "sign-in" => UNCHANGED signinVars
    /\ p # "history" => UNCHANGED historyVars
    /\ p # "scan" => UNCHANGED scanVars
    /\ p # "chapter" => UNCHANGED chapterVars
    /\ p # "media" => UNCHANGED mediaVars
    /\ p # "quiz" => UNCHANGED quizVars
    /\ p # "bank" => UNCHANGED bankVars
    /\ p # "feed" => UNCHANGED feedVars

PartNext ==
    \/ RestOf("registration") /\ Next
    \/ RestOf("schema") /\ Schema!Next
    \/ RestOf("sign-in") /\ Signin!Next
    \/ RestOf("history") /\ History!Next
    \/ RestOf("scan") /\ Scan!Next
    \/ RestOf("chapter") /\ Chapter!Next
    \/ RestOf("media") /\ Media!Next
    \/ RestOf("quiz") /\ Quiz!Next
    \/ RestOf("bank") /\ Bank!Next
    \/ RestOf("feed") /\ Feed!Next

PartSpec == PartInit /\ [][PartNext]_partsVars

-----------------------------------------------------------------------------
(* The properties of the parts; a part at rest is in an initial state. *)

\* A repaired schema is complete, however many repair it, and so is a migration
\* that says so.
SchemaSound == part = "schema" => Schema!SchemaSound

\* The sign-in manager (signin.py): a task is worked on exactly while it is shown
\* as running, by a worker with the account it was given.
TasksSound ==
    part = "sign-in" => Signin!TypeOK /\ Signin!RunningIsWorkedOn /\ Signin!SignsAsAsked

\* The sign-in history (signin.py) shows each result once, and what the store has.
HistorySound == part = "history" => History!TypeOK /\ History!HistoryAgrees

\* A scan (signin.py) reports what the platform has, and submits an activity once.
ScanSound == part = "scan" => Scan!ScanSound

\* Signing in: the tasks, their history and their scans (signin.py).
SigninSound == TasksSound /\ HistorySound /\ ScanSound

\* A chapter's success is that of all its points, each worked on once.
ChapterSound == part = "chapter" => Chapter!ChapterSound

\* Videos and lives end after boundedly many reports, with a true result.
MediaSound == part = "media" => Media!MediaSound

\* A quiz is handed in as its settings and its coverage allow.
QuizSound == part = "quiz" => Quiz!QuizSound

\* Answers that do not fit are neither given nor cached; tokens and permits last.
BankSound == part = "bank" => Bank!BankSound

\* A record of the feed that tells a task's end keeps telling it.
FeedSound == part = "feed" => Feed!FeedSound
=============================================================================
