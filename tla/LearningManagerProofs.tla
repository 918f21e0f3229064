------------------------ MODULE LearningManagerProofs ------------------------
(***************************************************************************)
(* What LearningManager guarantees for any tasks, users, courses, limits,  *)
(* failures and restarts, and, at the end, the rate limiter for any        *)
(* clients, threads, limits and windows.                                   *)
(***************************************************************************)
EXTENDS MCAdmission, FiniteSetTheorems, SequenceTheorems, TLAPS

Writer == {"worker", "request", "job"}
Entry  == [status : Status, by : Writer]

\* A worker inside the loop over the courses has one left to finish: what
\* bounds the courses it counts.
InLoop == {"wait", "mark", "waited", "go", "fetch", "learn", "cb_wait", "cb_mark"}
CourseLeft == \A t \in TaskId : wpc[t] \in InLoop => course[t] < NumCourses

TypeInv == TypeOK /\ CourseLeft

\* The tasks never started are those without a worker, present or past.
Unstarted == \A t \in TaskId : owner[t] = Nobody <=> wpc[t] = "none"

AllWorking == {t \in TaskId : Working(t)}

\* The inductive invariant.  The admission looks at records, the promise is
\* about workers: WorkKeepsItsRecord is what ties them together, as it keeps
\* the record of every task at work present and active.
LInv == /\ TypeOK /\ Unstarted /\ WorkKeepsItsRecord /\ ActiveHasWorker
        /\ OneWorkerPerUser /\ CapacityRespected

-----------------------------------------------------------------------------
(* Types *)

\* A snapshot is one more entry of the writes on their way.
LEMMA SnapshotTyped ==
  ASSUME TypeOK, NEW t \in TaskId, NEW s \in Status, NEW w \in Writer, Snapshot(t, s, w)
  PROVE  writes' \in [TaskId -> Seq(Entry)]
<1>1. [status |-> s, by |-> w] \in Entry
  BY DEF Entry
<1>2. writes \in [TaskId -> Seq(Entry)]
  BY DEF TypeOK, Entry, Writer
<1>3. Append(writes[t], [status |-> s, by |-> w]) \in Seq(Entry)
  BY <1>1, <1>2, AppendProperties
<1> QED
  BY <1>2, <1>3 DEF Snapshot

\* _update_task
LEMMA UpdateTyped ==
  ASSUME TypeOK, NEW t \in TaskId, NEW s \in Status, NEW w \in Writer, UpdateTask(t, s, w)
  PROVE  /\ writes' \in [TaskId -> Seq(Entry)]
         /\ mem' \in [TaskId -> Status \cup {"absent"}]
         /\ mem' = mem \/ (mem[t] # "absent" /\ mem' = [mem EXCEPT ![t] = s])
         /\ mem[t] # "absent" => mem' = [mem EXCEPT ![t] = s]
<1>1. CASE mem[t] \in {"absent", s}
  BY <1>1 DEF UpdateTask, TypeOK, Entry, Writer
<1>2. CASE mem[t] \notin {"absent", s}
  BY <1>2, SnapshotTyped DEF UpdateTask, TypeOK
<1> QED
  BY <1>1, <1>2

\* The clean-up removes records, and only of tasks that ended.
LEMMA CleanedKeeps ==
  ASSUME NEW m \in [TaskId -> Status \cup {"absent"}], NEW busy, NEW c \in Cleaned(m, busy)
  PROVE  /\ c \in [TaskId -> Status \cup {"absent"}]
         /\ \A t \in TaskId : c[t] = m[t] \/ (c[t] = "absent" /\ m[t] \in Terminal)
<1>1. PICK E \in SUBSET {t \in TaskId : m[t] \in Terminal} :
        c = [t \in TaskId |-> IF t \in E THEN "absent" ELSE m[t]]
  BY DEF Cleaned
<1> QED
  BY <1>1

\* Statuses are active or terminal, never both; "absent" is neither.
LEMMA StatusSplit ==
  /\ Status = Active \cup Terminal /\ Active \cap Terminal = {}
  /\ "absent" \notin Status /\ "none" \notin Status
  BY DEF Status, Active, Terminal

LEMMA InitInv == Init => LInv
<1> SUFFICES ASSUME Init PROVE LInv
  OBVIOUS
<1>1. <<>> \in Seq([status : Status, by : {"worker", "request", "job"}])
  BY EmptySeq
<1>2. TypeOK
  BY <1>1, LimitAssumption, BoundAssumption DEF Init, TypeOK, WorkerPC, Status, Active, Terminal
<1>3. AllWorking = {}
  BY DEF Init, AllWorking, Working
<1>4. CapacityRespected
  BY <1>3, FS_EmptySet, LimitAssumption DEF CapacityRespected, AllWorking
<1> QED
  BY <1>2, <1>3, <1>4 DEF Init, LInv, Unstarted, WorkKeepsItsRecord, ActiveHasWorker,
                          OneWorkerPerUser, AllWorking, Active

-----------------------------------------------------------------------------
(* Steps that start no work *)

\* What no step but Start changes: nobody begins to work.  So much suffices for
\* OneWorkerPerUser and CapacityRespected.
NoneBegins ==
    /\ UNCHANGED owner
    /\ \A x \in TaskId : /\ wpc'[x] = "none" <=> wpc[x] = "none"
                         /\ Working(x)' => Working(x)

\* Records and workers still fit together.
Fits ==
    \A x \in TaskId :
        /\ Working(x)' => mem'[x] \in Active /\ ~reloaded'[x]
        /\ mem'[x] \in Active /\ jpc'[x] = "none" => Working(x)'

LEMMA QuietStepKeeps ==
  ASSUME LInv, TypeOK', NoneBegins, Fits
  PROVE  LInv'
<1>1. Unstarted' /\ WorkKeepsItsRecord' /\ ActiveHasWorker' /\ OneWorkerPerUser'
  BY DEF LInv, NoneBegins, Fits, Unstarted, WorkKeepsItsRecord, ActiveHasWorker, OneWorkerPerUser
<1>2. CapacityRespected'
  <2> DEFINE after == AllWorking'
  <2>1. after \subseteq AllWorking /\ AllWorking \subseteq TaskId
    BY DEF NoneBegins, AllWorking
  <2>2. IsFiniteSet(AllWorking)
    BY <2>1, TaskAssumption, FS_Subset
  <2>3. /\ IsFiniteSet(after) /\ Cardinality(after) <= Cardinality(AllWorking)
    BY <2>1, <2>2, FS_Subset
  <2>4. Cardinality(after) \in Nat /\ Cardinality(AllWorking) \in Nat
    BY <2>2, <2>3, FS_CardinalityType
  <2>5. Cardinality(AllWorking) <= MaxActive
    BY DEF LInv, CapacityRespected, AllWorking
  <2> QED
    BY <2>3, <2>4, <2>5, LimitAssumption DEF CapacityRespected, AllWorking
<1> QED
  BY <1>1, <1>2 DEF LInv

\* A worker goes on without a change of its record's status.
LEMMA WalkKeeps ==
  ASSUME LInv, TypeOK', NEW t \in TaskId, Working(t),
         NEW pc \in WorkerPC \ {"none", "ended"}, wpc' = [wpc EXCEPT ![t] = pc],
         UNCHANGED <<owner, mem, reloaded>>,
         \A x \in TaskId : jpc'[x] = "none" => jpc[x] = "none"
  PROVE  LInv'
<1>0. \A x \in TaskId : (wpc'[x] = "none" <=> wpc[x] = "none") /\ (Working(x)' <=> Working(x))
  <2>1. DOMAIN wpc = TaskId
    BY DEF LInv, TypeOK
  <2>2. wpc'[t] = pc /\ \A x \in TaskId \ {t} : wpc'[x] = wpc[x]
    BY <2>1
  <2> QED
    BY <2>2 DEF Working
<1>1. NoneBegins
  BY <1>0 DEF NoneBegins
<1>2. Fits
  BY <1>0 DEF LInv, Fits, WorkKeepsItsRecord, ActiveHasWorker
<1> QED
  BY <1>1, <1>2, QuietStepKeeps

\* A worker gives its record another active status, and goes on.
LEMMA UpdateKeeps ==
  ASSUME LInv, TypeOK', NEW t \in TaskId, Working(t),
         NEW pc \in WorkerPC \ {"none", "ended"}, wpc' = [wpc EXCEPT ![t] = pc],
         NEW s \in Active, UpdateTask(t, s, "worker"),
         UNCHANGED <<owner, reloaded, jpc>>
  PROVE  LInv'
<1>0. \A x \in TaskId : (wpc'[x] = "none" <=> wpc[x] = "none") /\ (Working(x)' <=> Working(x))
  <2>1. DOMAIN wpc = TaskId
    BY DEF LInv, TypeOK
  <2>2. wpc'[t] = pc /\ \A x \in TaskId \ {t} : wpc'[x] = wpc[x]
    BY <2>1
  <2> QED
    BY <2>2 DEF Working
<1>1. NoneBegins
  BY <1>0 DEF NoneBegins
<1>2. mem' = [mem EXCEPT ![t] = s]
  BY UpdateTyped, StatusSplit DEF LInv, WorkKeepsItsRecord, Writer
<1>3. Fits
  <2>1. mem' \in [TaskId -> Status \cup {"absent"}] /\ mem'[t] = s
        /\ \A x \in TaskId \ {t} : mem'[x] = mem[x]
    BY <1>2 DEF LInv, TypeOK, Status
  <2> QED
    BY <1>0, <2>1 DEF LInv, Fits, WorkKeepsItsRecord, ActiveHasWorker
<1> QED
  BY <1>1, <1>3, QuietStepKeeps

\* A worker ends with a terminal status.
LEMMA EndKeeps ==
  ASSUME LInv, TypeOK', NEW t \in TaskId, Working(t),
         wpc' = [wpc EXCEPT ![t] = "ended"],
         NEW s \in Terminal, mem' = [mem EXCEPT ![t] = s],
         UNCHANGED <<owner, reloaded, jpc>>
  PROVE  LInv'
<1>0. /\ \A x \in TaskId : wpc'[x] = "none" <=> wpc[x] = "none"
      /\ ~Working(t)' /\ \A x \in TaskId \ {t} : Working(x)' <=> Working(x)
      /\ mem'[t] = s /\ \A x \in TaskId \ {t} : mem'[x] = mem[x]
  BY DEF LInv, TypeOK, Working
<1>1. NoneBegins
  BY <1>0 DEF NoneBegins
<1>2. Fits
  BY <1>0, StatusSplit DEF LInv, Fits, WorkKeepsItsRecord, ActiveHasWorker
<1> QED
  BY <1>1, <1>2, QuietStepKeeps

\* _update_task of a worker at work reaches its record.
LEMMA UpdateReaches ==
  ASSUME LInv, NEW t \in TaskId, Working(t), NEW s \in Status, UpdateTask(t, s, "worker")
  PROVE  mem' = [mem EXCEPT ![t] = s]
  BY UpdateTyped, StatusSplit DEF LInv, WorkKeepsItsRecord, Writer

\* Nothing that matters to the invariant changes but what requests, job
\* threads and the store do to records.
LEMMA RecordKeeps ==
  ASSUME LInv, TypeOK', UNCHANGED <<owner, wpc, reloaded>>,
         \A x \in TaskId : jpc'[x] = "none" => jpc[x] = "none",
         NEW t \in TaskId,
         \/ UNCHANGED mem
         \/ /\ mem[t] # "absent" /\ (mem[t] \in Active \/ jpc[t] # "none")
            /\ \E s \in Active : mem' = [mem EXCEPT ![t] = s]
  PROVE  LInv'
<1>1. NoneBegins
  BY DEF NoneBegins, Working
<1>2. Fits
  <2> SUFFICES ASSUME NEW x \in TaskId
               PROVE  /\ Working(x)' => mem'[x] \in Active /\ ~reloaded'[x]
                      /\ mem'[x] \in Active /\ jpc'[x] = "none" => Working(x)'
    BY DEF Fits
  <2>1. Working(x)' <=> Working(x)
    BY DEF Working
  <2>2. /\ Working(x) => mem[x] \in Active /\ ~reloaded[x]
        /\ mem[x] \in Active /\ jpc[x] = "none" => Working(x)
    BY DEF LInv, WorkKeepsItsRecord, ActiveHasWorker
  <2>3. CASE UNCHANGED mem
    BY <2>1, <2>2, <2>3
  <2>4. CASE /\ mem[t] # "absent" /\ (mem[t] \in Active \/ jpc[t] # "none")
             /\ \E s \in Active : mem' = [mem EXCEPT ![t] = s]
    <3>1. PICK s \in Active : mem' = [mem EXCEPT ![t] = s]
      BY <2>4
    <3>2. mem'[x] = IF x = t THEN s ELSE mem[x]
      BY <3>1 DEF LInv, TypeOK
    <3> QED
      BY <2>1, <2>2, <2>4, <3>1, <3>2
  <2> QED
    BY <2>3, <2>4
<1> QED
  BY <1>1, <1>2, QuietStepKeeps

-----------------------------------------------------------------------------
(* Every step keeps the types *)

LEMMA TypeInit == Init => TypeInv
  BY InitInv DEF LInv, Init, TypeInv, CourseLeft, InLoop

\* A worker goes to pc, its record and the writes being typed.
LEMMA WorkerFrame ==
  ASSUME TypeInv, NEW t \in TaskId, NEW pc \in WorkerPC,
         pc \in InLoop => course[t] < NumCourses,
         wpc' = [wpc EXCEPT ![t] = pc],
         mem' \in [TaskId -> Status \cup {"absent"}], writes' \in [TaskId -> Seq(Entry)],
         UNCHANGED <<unlogged, owner, reloaded, running, stop, store, loading, course, failed, jpc,
                     failures, restarts>>
  PROVE  TypeInv'
<1>1. wpc' \in [TaskId -> WorkerPC]
  BY DEF TypeInv, TypeOK
<1>2. CourseLeft'
  BY DEF TypeInv, TypeOK, CourseLeft
<1>3. TypeOK'
  BY <1>1 DEF TypeInv, TypeOK, Entry, Writer
<1> QED
  BY <1>2, <1>3 DEF TypeInv

\* ... without a change of its record.
LEMMA WorkerMove ==
  ASSUME TypeInv, NEW t \in TaskId, NEW pc \in WorkerPC,
         pc \in InLoop => course[t] < NumCourses,
         wpc' = [wpc EXCEPT ![t] = pc],
         UNCHANGED <<mem, writes, unlogged, owner, reloaded, running, stop, store, loading, course,
                     failed, jpc, failures, restarts>>
  PROVE  TypeInv'
<1>1. mem \in [TaskId -> Status \cup {"absent"}] /\ writes \in [TaskId -> Seq(Entry)]
  BY DEF TypeInv, TypeOK, Entry, Writer
<1> QED
  BY <1>1, WorkerFrame

\* ... with _update_task.
LEMMA WorkerUpdate ==
  ASSUME TypeInv, NEW t \in TaskId, NEW pc \in WorkerPC, NEW s \in Status,
         pc \in InLoop => course[t] < NumCourses,
         wpc' = [wpc EXCEPT ![t] = pc], UpdateTask(t, s, "worker"),
         UNCHANGED <<unlogged, owner, reloaded, running, stop, store, loading, course, failed, jpc,
                     failures, restarts>>
  PROVE  TypeInv'
<1>1. mem' \in [TaskId -> Status \cup {"absent"}] /\ writes' \in [TaskId -> Seq(Entry)]
  BY UpdateTyped DEF TypeInv, Writer
<1> QED
  BY <1>1, WorkerFrame

\* The end of a course, which is counted.
LEMMA EndCourseTyped ==
  ASSUME TypeInv, NEW t \in TaskId, wpc[t] \in InLoop, NEW bad \in BOOLEAN, EndCourse(t, bad),
         UNCHANGED <<mem, writes, unlogged, owner, reloaded, running, stop, store, loading, jpc,
                     failures, restarts>>
  PROVE  TypeInv'
<1>1. course \in [TaskId -> 0 .. NumCourses] /\ course[t] < NumCourses /\ NumCourses \in Nat
      /\ wpc \in [TaskId -> WorkerPC] /\ failed \in [TaskId -> BOOLEAN]
  BY LimitAssumption DEF TypeInv, TypeOK, CourseLeft
<1>2. course' = [course EXCEPT ![t] = course[t] + 1] /\ course' \in [TaskId -> 0 .. NumCourses]
  BY <1>1 DEF EndCourse
<1>3. wpc' = [wpc EXCEPT ![t] = "course"] /\ wpc' \in [TaskId -> WorkerPC]
  BY <1>1 DEF EndCourse, Go, WorkerPC
<1>4. (failed[t] \/ bad) \in BOOLEAN /\ failed' = [failed EXCEPT ![t] = failed[t] \/ bad]
  BY <1>1 DEF EndCourse
<1>5. failed' \in [TaskId -> BOOLEAN]
  BY <1>1, <1>4
<1>6. CourseLeft'
  BY <1>1, <1>2, <1>3 DEF TypeInv, CourseLeft, InLoop
<1>7. TypeOK'
  <2>1. TypeOK
    BY DEF TypeInv
  <2>2. {reloaded, running, stop, failed}' \subseteq [TaskId -> BOOLEAN]
    BY <1>5, <2>1 DEF TypeOK
  <2> QED
    BY <1>2, <1>3, <2>1, <2>2 DEF TypeOK
<1> QED
  BY <1>6, <1>7 DEF TypeInv

LEMMA WorkerTyped ==
  ASSUME TypeInv, NEW t \in TaskId, WorkerStep(t)
  PROVE  TypeInv'
<1> USE DEF record, work, Go
<1>s. {"failed", "cancelled", "completed", "running", "paused"} \subseteq Status
  BY DEF Status, Active, Terminal
<1>l. wpc[t] \in InLoop => course[t] < NumCourses
  BY DEF TypeInv, CourseLeft
<1>p. /\ WorkerPC = InLoop \cup {"none", "admit", "admitted", "refused", "boot", "login", "course",
                                 "finish", "settle", "ended"}
      /\ InLoop \cap {"none", "admit", "admitted", "refused", "boot", "login", "course", "finish",
                      "settle", "ended"} = {}
  BY DEF WorkerPC, InLoop
<1>c. \A pc : Cancel(t) => UpdateTask(t, "cancelled", "worker") /\ wpc' = [wpc EXCEPT ![t] = "ended"]
  BY DEF Cancel
<1>1. CASE Spawn(t)
  BY <1>1, <1>p, WorkerMove DEF Spawn
<1>2. CASE SpawnFails(t)
  BY <1>2, <1>s, <1>p, WorkerUpdate DEF SpawnFails
<1>3. CASE Refuse(t)
  <2>1. writes' \in [TaskId -> Seq(Entry)]
    BY <1>3, <1>s, SnapshotTyped DEF Refuse, TypeInv, Writer
  <2>2. mem' \in [TaskId -> Status \cup {"absent"}]
    BY <1>3, <1>s DEF Refuse, TypeInv, TypeOK
  <2> QED
    BY <1>3, <2>1, <2>2, <1>p, WorkerFrame DEF Refuse
<1>4. CASE Boot(t)
  BY <1>4, <1>s, <1>p, WorkerUpdate DEF Boot
<1>5. CASE Login(t)
  BY <1>5, <1>s, <1>p, WorkerMove, WorkerUpdate DEF Login
<1>6. CASE NextCourse(t)
  <2>1. CASE course[t] = NumCourses
    BY <1>6, <2>1, <1>p, WorkerMove DEF NextCourse
  <2>2. CASE course[t] # NumCourses /\ stop[t]
    BY <1>6, <2>2, <1>s, <1>p, <1>c, WorkerUpdate DEF NextCourse
  <2>3. CASE course[t] # NumCourses /\ ~stop[t]
    <3>1. course[t] < NumCourses
      BY <2>3, LimitAssumption DEF TypeInv, TypeOK
    <3> QED
      BY <1>6, <2>3, <3>1, WorkerMove DEF NextCourse, WorkerPC
  <2> QED
    BY <2>1, <2>2, <2>3
<1>7. CASE Wait(t)
  BY <1>7, <1>l, WorkerMove DEF Wait, InLoop, WorkerPC
<1>8. CASE MarkPaused(t)
  BY <1>8, <1>s, <1>l, WorkerUpdate DEF MarkPaused, InLoop, WorkerPC
<1>9. CASE Waited(t)
  <2>1. CASE stop[t]
    BY <1>9, <2>1, <1>s, <1>p, <1>c, WorkerUpdate DEF Waited
  <2>2. CASE ~stop[t]
    BY <1>9, <2>2, <1>l, WorkerMove DEF Waited, At, InLoop, WorkerPC
  <2> QED
    BY <2>1, <2>2
<1>10. CASE BeginCourse(t)
  BY <1>10, <1>s, <1>l, WorkerUpdate DEF BeginCourse, At, InLoop, WorkerPC
<1>11. CASE FetchChapters(t)
  <2>1. wpc[t] \in InLoop
    BY <1>11 DEF FetchChapters, At, InLoop
  <2>2. CASE wpc' = [wpc EXCEPT ![t] = "learn"] /\ UNCHANGED <<course, failed>>
    BY <1>11, <2>1, <2>2, <1>l, WorkerMove DEF FetchChapters, WorkerPC
  <2>3. CASE EndCourse(t, TRUE)
    BY <1>11, <2>1, <2>3, EndCourseTyped DEF FetchChapters
  <2> QED
    BY <1>11, <2>2, <2>3 DEF FetchChapters
<1>12. CASE Callback(t)
  BY <1>12, <1>l, WorkerMove DEF Callback, At, InLoop, WorkerPC
<1>13. CASE CourseOver(t)
  <2>1. wpc[t] \in InLoop
    BY <1>13 DEF CourseOver, At, InLoop
  <2>2. CASE Cancel(t) /\ UNCHANGED <<course, failed>>
    BY <1>13, <2>2, <1>s, <1>p, <1>c, WorkerUpdate DEF CourseOver
  <2>3. ASSUME NEW bad \in BOOLEAN, EndCourse(t, bad), UNCHANGED <<mem, writes>> PROVE TypeInv'
    BY <1>13, <2>1, <2>3, EndCourseTyped DEF CourseOver
  <2> QED
    BY <1>13, <2>2, <2>3 DEF CourseOver
<1>14. CASE Finish(t)
  <2>1. CASE stop[t]
    BY <1>14, <2>1, <1>s, <1>p, <1>c, WorkerUpdate DEF Finish
  <2>2. CASE ~stop[t]
    BY <1>14, <2>2, <1>p, WorkerMove DEF Finish
  <2> QED
    BY <2>1, <2>2
<1>15. CASE Settle(t)
  BY <1>15, <1>s, <1>p, WorkerUpdate DEF Settle
<1> QED
  BY <1>1, <1>2, <1>3, <1>4, <1>5, <1>6, <1>7, <1>8, <1>9, <1>10, <1>11, <1>12, <1>13, <1>14,
     <1>15 DEF WorkerStep

\* A restart closes an interrupted record and keeps the outcome of another.
LEMMA MergedTyped ==
  ASSUME NEW s \in Status
  PROVE  Merged(s) \in Terminal
  BY StatusSplit DEF Merged, Terminal

\* What leaves the workers' loops alone keeps CourseLeft.
LEMMA CourseLeftKept ==
  ASSUME TypeInv, TypeOK', UNCHANGED course,
         \A x \in TaskId : wpc'[x] \in InLoop => wpc[x] \in InLoop
  PROVE  TypeInv'
  BY DEF TypeInv, CourseLeft

LEMMA OtherTyped ==
  ASSUME TypeInv, NEW t \in TaskId,
         RequestStep(t) \/ LeaveJobThread(t) \/ JobStep(t) \/ StoreStep(t)
  PROVE  TypeInv'
<1> USE DEF record, work
<1>t. TypeOK /\ writes \in [TaskId -> Seq(Entry)]
  BY DEF TypeInv, TypeOK, Entry, Writer
<1>1. CASE AppendLog(t)
  <2>1. writes' \in [TaskId -> Seq(Entry)]
    BY <1>1, <1>t, SnapshotTyped DEF AppendLog, Writer, TypeOK
  <2>2. unlogged' \in [TaskId -> 0 .. MaxWrites]
    <3>1. unlogged \in [TaskId -> 0 .. MaxWrites] /\ unlogged[t] > 0 /\ MaxWrites \in Nat
      BY <1>1, <1>t, LimitAssumption DEF AppendLog, TypeOK
    <3>2. unlogged[t] - 1 \in 0 .. MaxWrites
      BY <3>1
    <3> QED
      BY <1>1, <3>1, <3>2 DEF AppendLog
  <2>3. TypeOK'
    BY <1>1, <1>t, <2>1, <2>2 DEF AppendLog, TypeOK, Entry, Writer
  <2> QED
    BY <1>1, <2>3, CourseLeftKept DEF AppendLog
<1>2. CASE MergeRow(t)
  <2>1. loading[t] \in Status
    BY <1>2, <1>t DEF MergeRow, TypeOK
  <2>2. Merged(loading[t]) \in Status
    BY <2>1, MergedTyped, StatusSplit
  <2>3. mem' \in [TaskId -> Status \cup {"absent"}] /\ reloaded' \in [TaskId -> BOOLEAN]
    BY <1>2, <1>t, <2>2 DEF MergeRow, TypeOK
  <2>4. writes' \in [TaskId -> Seq(Entry)]
    BY <1>2, <1>t, SnapshotTyped, StatusSplit DEF MergeRow, Writer, Terminal
  <2>5. TypeOK'
    BY <1>2, <1>t, <2>3, <2>4 DEF MergeRow, TypeOK, Entry, Writer
  <2> QED
    BY <1>2, <2>5, CourseLeftKept DEF MergeRow
<1>3. CASE LeaveJobThread(t) \/ JobTick(t)
  <2>1. jpc' \in [TaskId -> {"none", "playing", "mark", "gone"}]
    <3>1. \E pc \in {"playing", "gone", "mark"} : jpc' = [jpc EXCEPT ![t] = pc]
      BY <1>3 DEF LeaveJobThread, JobTick
    <3>2. jpc \in [TaskId -> {"none", "playing", "mark", "gone"}]
      BY <1>t DEF TypeOK
    <3> QED
      BY <3>1, <3>2
  <2>2. UNCHANGED <<record, unlogged, store, writes, loading, work, failures, restarts>>
    BY <1>3 DEF LeaveJobThread, JobTick
  <2>3. TypeOK'
    BY <1>t, <2>1, <2>2 DEF TypeOK
  <2> QED
    BY <2>2, <2>3, CourseLeftKept
<1>5. CASE JobMarkPaused(t)
  <2>1. TypeOK'
    BY <1>5, <1>t, UpdateTyped, StatusSplit DEF JobMarkPaused, TypeOK, Entry, Writer, Active
  <2> QED
    BY <1>5, <2>1, CourseLeftKept DEF JobMarkPaused
<1>6. CASE StoreStep(t)
  <2>1. writes[t] \in Seq(Entry) /\ writes[t] # <<>>
    BY <1>6, <1>t DEF StoreStep, StoreWrite, StoreFails
  <2>2. Head(writes[t]) \in Entry /\ Tail(writes[t]) \in Seq(Entry)
    BY <2>1, HeadTailProperties
  <2>3. writes' = [writes EXCEPT ![t] = Tail(writes[t])] /\ writes' \in [TaskId -> Seq(Entry)]
    BY <1>6, <1>t, <2>2 DEF StoreStep, StoreWrite, StoreFails
  <2>4. store' \in [TaskId -> Status \cup {"none"}]
    <3>1. Head(writes[t]).status \in Status
      BY <2>2 DEF Entry
    <3> QED
      BY <1>6, <1>t, <3>1 DEF StoreStep, StoreWrite, StoreFails, TypeOK
  <2>5. /\ wpc' = wpc \/ wpc' = [wpc EXCEPT ![t] = "admitted"] \/ wpc' = [wpc EXCEPT ![t] = "refused"]
        /\ wpc \in [TaskId -> WorkerPC]
    BY <1>6, <1>t DEF StoreStep, StoreWrite, StoreFails, Admission, TypeOK
  <2>6. /\ wpc' \in [TaskId -> WorkerPC]
        /\ \A x \in TaskId : wpc'[x] \in InLoop => wpc[x] \in InLoop
    BY <2>5 DEF WorkerPC, InLoop
  <2>7. failures' \in 0 .. MaxFailures
    <3>1. failures \in 0 .. MaxFailures /\ MaxFailures \in Nat
      BY <1>t, BoundAssumption DEF TypeOK
    <3>2. UNCHANGED failures \/ (failures < MaxFailures /\ failures' = failures + 1)
      BY <1>6 DEF StoreStep, StoreWrite, StoreFails
    <3> QED
      BY <3>1, <3>2
  <2>8. UNCHANGED <<record, unlogged, loading, course, failed, jpc, restarts>>
    BY <1>6 DEF StoreStep, StoreWrite, StoreFails
  <2>9. TypeOK'
    BY <1>t, <2>3, <2>4, <2>6, <2>7, <2>8 DEF TypeOK, Entry, Writer
  <2> QED
    BY <2>6, <2>8, <2>9, CourseLeftKept
<1> QED
  BY <1>1, <1>2, <1>3, <1>5, <1>6 DEF RequestStep, JobStep

LEMMA RequestTyped ==
  ASSUME TypeInv, NEW t \in TaskId, Request(t)
  PROVE  TypeInv'
<1> USE DEF record, work
<1>t. TypeOK
  BY DEF TypeInv
<1>1. CASE Start(t)
  <2>1. PICK u \in User, m \in Cleaned(mem, Writing) :
          /\ mem' \in Cleaned([m EXCEPT ![t] = "pending"], Writing)
          /\ owner' = [owner EXCEPT ![t] = u]
    BY <1>1 DEF Start
  <2>2. m \in [TaskId -> Status \cup {"absent"}]
    BY <1>t, CleanedKeeps DEF TypeOK
  <2>3. [m EXCEPT ![t] = "pending"] \in [TaskId -> Status \cup {"absent"}]
    BY <2>2 DEF Status, Active
  <2>4. mem' \in [TaskId -> Status \cup {"absent"}]
    BY <2>1, <2>3, CleanedKeeps
  <2>5. writes' \in [TaskId -> Seq(Entry)]
    BY <1>1, <1>t, SnapshotTyped, StatusSplit DEF Start, Writer, Active
  <2>6. /\ owner' \in [TaskId -> User \cup {Nobody}] /\ reloaded' \in [TaskId -> BOOLEAN]
        /\ wpc' = [wpc EXCEPT ![t] = "admit"] /\ wpc' \in [TaskId -> WorkerPC]
    BY <1>1, <1>t, <2>1 DEF Start, TypeOK, WorkerPC
  <2>7. UNCHANGED <<unlogged, running, stop, store, loading, course, failed, jpc, failures, restarts>>
    BY <1>1 DEF Start
  <2>8. TypeOK'
    BY <1>t, <2>4, <2>5, <2>6, <2>7 DEF TypeOK, Entry, Writer
  <2>9. \A x \in TaskId : wpc'[x] \in InLoop => wpc[x] \in InLoop
    BY <1>t, <2>6 DEF InLoop, TypeOK
  <2> QED
    BY <2>7, <2>8, <2>9, CourseLeftKept
<1>2. CASE Pause(t) \/ Resume(t) \/ Stop(t)
  <2>1. /\ mem' \in [TaskId -> Status \cup {"absent"}]
        /\ running' \in [TaskId -> BOOLEAN] /\ stop' \in [TaskId -> BOOLEAN]
    <3>1. \/ mem' = mem
          \/ \E s \in {"paused", "running", "cancelling"} : mem' = [mem EXCEPT ![t] = s]
      BY <1>2 DEF Pause, Resume, Stop
    <3>2. mem \in [TaskId -> Status \cup {"absent"}]
      BY <1>t DEF TypeOK
    <3>3. mem' \in [TaskId -> Status \cup {"absent"}]
      BY <3>1, <3>2 DEF Status, Active
    <3>4. running \in [TaskId -> BOOLEAN] /\ stop \in [TaskId -> BOOLEAN]
      BY <1>t DEF TypeOK
    <3>5. /\ running' = running \/ \E b \in BOOLEAN : running' = [running EXCEPT ![t] = b]
          /\ stop' = stop \/ \E b \in BOOLEAN : stop' = [stop EXCEPT ![t] = b]
      BY <1>2 DEF Pause, Resume, Stop, Set
    <3> QED
      BY <3>3, <3>4, <3>5
  <2>2. /\ unlogged \in [TaskId -> 0 .. MaxWrites] /\ writes[t] \in Seq(Entry)
        /\ Len(writes[t]) + unlogged[t] < MaxWrites
        /\ unlogged' = [unlogged EXCEPT ![t] = unlogged[t] + 1]
    BY <1>2, <1>t DEF Pause, Resume, Stop, Accepts, LogLater, TypeOK, Entry, Writer
  <2>3. Len(writes[t]) \in Nat
    BY <2>2, LenProperties
  <2>4. unlogged[t] + 1 \in 0 .. MaxWrites
    BY <2>2, <2>3, LimitAssumption
  <2>5. unlogged' \in [TaskId -> 0 .. MaxWrites]
    BY <2>2, <2>4
  <2>6. UNCHANGED <<owner, reloaded, store, writes, loading, work, jpc, failures, restarts>>
    BY <1>2 DEF Pause, Resume, Stop, LogLater
  <2>7. TypeOK'
    BY <1>t, <2>1, <2>5, <2>6 DEF TypeOK
  <2> QED
    BY <2>6, <2>7, CourseLeftKept
<1>3. CASE LoadRow(t)
  <2>1. TypeOK'
    BY <1>3, <1>t DEF LoadRow, TypeOK
  <2> QED
    BY <1>3, <2>1, CourseLeftKept DEF LoadRow
<1> QED
  BY <1>1, <1>2, <1>3 DEF Request

\* What a restart finds in the rows.
LEMMA RestartFinds ==
  ASSUME TypeOK, Restart
  PROVE  /\ mem' \in [TaskId -> Terminal \cup {"absent"}]
         /\ store' \in [TaskId -> Status \cup {"none"}]
         /\ failures' \in 0 .. MaxFailures
<1> DEFINE row(x) == IF store[x] = "none" THEN "absent" ELSE Merged(store[x])
           told == [x \in TaskId |-> row(x)]
           interrupted == {x \in TaskId : store[x] \in Active}
<1>1. PICK lost \in SUBSET interrupted :
        /\ failures + Cardinality(lost) <= MaxFailures
        /\ failures' = failures + Cardinality(lost)
        /\ mem' \in Cleaned(told, {})
        /\ store' = [x \in TaskId |-> IF x \in interrupted \ lost THEN "failed" ELSE store[x]]
  BY DEF Restart
<1>2. told \in [TaskId -> Terminal \cup {"absent"}]
  BY MergedTyped DEF TypeOK
<1>3. told \in [TaskId -> Status \cup {"absent"}]
  BY <1>2, StatusSplit
<1>4. mem' \in [TaskId -> Terminal \cup {"absent"}]
  <2> HIDE DEF told
  <2>1. /\ mem' \in [TaskId -> Status \cup {"absent"}]
        /\ \A x \in TaskId : mem'[x] = told[x] \/ mem'[x] = "absent"
    BY <1>1, <1>3, CleanedKeeps
  <2> QED
    BY <1>2, <2>1
<1>5. store' \in [TaskId -> Status \cup {"none"}]
  BY <1>1, StatusSplit DEF TypeOK, Terminal
<1>6. Cardinality(lost) \in Nat
  BY TaskAssumption, FS_Subset, FS_CardinalityType
<1>7. failures' \in 0 .. MaxFailures
  BY <1>1, <1>6, BoundAssumption DEF TypeOK
<1> QED
  BY <1>4, <1>5, <1>7

LEMMA TypeKept == TypeInv /\ [Next]_vars => TypeInv'
<1> SUFFICES ASSUME TypeInv, [Next]_vars PROVE TypeInv'
  OBVIOUS
<1>t. TypeOK
  BY DEF TypeInv
<1>1. CASE \E t \in TaskId : Request(t) \/ RequestStep(t) \/ WorkerStep(t)
                               \/ LeaveJobThread(t) \/ JobStep(t) \/ StoreStep(t)
  BY <1>1, RequestTyped, WorkerTyped, OtherTyped
<1>2. CASE Browse
  <2>1. mem' \in [TaskId -> Status \cup {"absent"}]
    BY <1>2, <1>t, CleanedKeeps DEF Browse, TypeOK
  <2>2. TypeOK'
    BY <1>2, <1>t, <2>1 DEF Browse, TypeOK, work
  <2> QED
    BY <1>2, <2>2, CourseLeftKept DEF Browse, work
<1>3. CASE Restart
  <2>1. mem' \in [TaskId -> Status \cup {"absent"}]
    BY <1>3, <1>t, RestartFinds, StatusSplit
  <2>2. writes' \in [TaskId -> Seq(Entry)]
    BY <1>3, EmptySeq DEF Restart
  <2>3. restarts' \in 0 .. MaxRestarts
    BY <1>3, <1>t, BoundAssumption DEF Restart, TypeOK
  <2>4. unlogged' \in [TaskId -> 0 .. MaxWrites]
    BY <1>3, LimitAssumption DEF Restart
  <2>5. /\ wpc' = [x \in TaskId |-> IF owner[x] # Nobody THEN "ended" ELSE "none"]
        /\ jpc' \in [TaskId -> {"none", "playing", "mark", "gone"}]
        /\ reloaded' \in [TaskId -> BOOLEAN] /\ loading' \in [TaskId -> Status \cup {"none"}]
    BY <1>3, <1>t DEF Restart, TypeOK
  <2>6. wpc' \in [TaskId -> WorkerPC] /\ \A x \in TaskId : wpc'[x] \notin InLoop
    BY <2>5 DEF WorkerPC, InLoop
  <2>7. UNCHANGED <<owner, running, stop, course, failed>>
    BY <1>3 DEF Restart
  <2>8. store' \in [TaskId -> Status \cup {"none"}] /\ failures' \in 0 .. MaxFailures
    BY <1>3, <1>t, RestartFinds
  <2>9. TypeOK'
    <3>1. /\ owner' \in [TaskId -> User \cup {Nobody}] /\ course' \in [TaskId -> 0 .. NumCourses]
          /\ {reloaded', running', stop', failed'} \subseteq [TaskId -> BOOLEAN]
      BY <1>t, <2>5, <2>7 DEF TypeOK
    <3> QED
      BY <2>1, <2>2, <2>3, <2>4, <2>5, <2>6, <2>8, <3>1 DEF TypeOK, Entry, Writer
  <2> QED
    BY <2>6, <2>7, <2>9, CourseLeftKept
<1>4. CASE UNCHANGED vars
  BY <1>4 DEF vars, record, work, TypeInv, TypeOK, CourseLeft
<1> QED
  BY <1>1, <1>2, <1>3, <1>4 DEF Next

\* Every variable keeps its type (the records and rows of learning_manager.py).
THEOREM LearningTypes == Spec => []TypeOK
<1>1. TypeInv => TypeOK
  BY DEF TypeInv
<1> QED
  BY TypeInit, TypeKept, <1>1, PTL DEF Spec

-----------------------------------------------------------------------------
(* Every step keeps the invariant *)

LEMMA StartKeeps ==
  ASSUME LInv, TypeOK', NEW t \in TaskId, Start(t)
  PROVE  LInv'
<1>1. PICK u \in User, m \in Cleaned(mem, Writing) :
        /\ ~HasActive(m, u)
        /\ CountActive(m) < MaxActive
        /\ mem' \in Cleaned([m EXCEPT ![t] = "pending"], Writing)
        /\ owner' = [owner EXCEPT ![t] = u]
  BY DEF Start
<1> DEFINE m2 == [m EXCEPT ![t] = "pending"]
           active == {x \in TaskId : m[x] \in Active}
<1>2. /\ m \in [TaskId -> Status \cup {"absent"}]
      /\ \A x \in TaskId : m[x] = mem[x] \/ (m[x] = "absent" /\ mem[x] \in Terminal)
  BY CleanedKeeps DEF LInv, TypeOK
<1>3. m2 \in [TaskId -> Status \cup {"absent"}] /\ m2[t] = "pending"
      /\ \A x \in TaskId \ {t} : m2[x] = m[x]
  BY <1>2 DEF Status, Active
<1>4. \A x \in TaskId : mem'[x] = m2[x] \/ (mem'[x] = "absent" /\ m2[x] \in Terminal)
  <2> HIDE DEF m2
  <2> QED
    BY <1>1, <1>3, CleanedKeeps DEF m2
<1>5. /\ wpc[t] = "none" /\ wpc' = [wpc EXCEPT ![t] = "admit"]
      /\ reloaded' = [reloaded EXCEPT ![t] = FALSE] /\ UNCHANGED jpc
      /\ wpc \in [TaskId -> WorkerPC] /\ reloaded \in [TaskId -> BOOLEAN]
      /\ owner \in [TaskId -> User \cup {Nobody}]
  BY DEF Start, LInv, Unstarted, TypeOK
<1>6. \A x \in TaskId : /\ mem'[x] \in Active /\ x # t => mem[x] \in Active
                        /\ mem[x] \in Active /\ x # t => mem'[x] = mem[x]
                        /\ mem[x] \in Active => m[x] \in Active
  BY <1>2, <1>3, <1>4, StatusSplit
<1>7. mem'[t] = "pending" /\ mem'[t] \in Active
  BY <1>3, <1>4 DEF Terminal, Active
<1>8. \A x \in TaskId : /\ x # t => (Working(x)' <=> Working(x))
                        /\ Working(t)' /\ ~Working(t)
  BY <1>5 DEF Working
<1>9. WorkKeepsItsRecord' /\ ActiveHasWorker'
  BY <1>5, <1>6, <1>7, <1>8 DEF LInv, WorkKeepsItsRecord, ActiveHasWorker
<1>10. Unstarted'
  BY <1>1, <1>5, NobodyAssumption DEF LInv, Unstarted
<1>11. \A x \in TaskId : Working(x) => owner[x] # u
  BY <1>1, <1>6 DEF HasActive, LInv, WorkKeepsItsRecord
<1>12. OneWorkerPerUser'
  <2> SUFFICES ASSUME NEW x \in TaskId, NEW y \in TaskId, Working(x)', Working(y)',
                      owner'[x] = owner'[y], x # y
               PROVE  FALSE
    BY DEF OneWorkerPerUser
  <2>1. owner'[t] = u /\ \A z \in TaskId : z # t => owner'[z] = owner[z]
    BY <1>1, <1>5
  <2>2. CASE x # t /\ y # t
    BY <2>1, <2>2, <1>8 DEF LInv, OneWorkerPerUser
  <2>3. CASE x = t
    BY <2>1, <2>3, <1>8, <1>11
  <2>4. CASE y = t
    BY <2>1, <2>4, <1>8, <1>11
  <2> QED
    BY <2>2, <2>3, <2>4
<1>13. CapacityRespected'
  <2> DEFINE after == AllWorking'
  <2>1. AllWorking \subseteq active /\ active \subseteq TaskId
    BY <1>6 DEF AllWorking, LInv, WorkKeepsItsRecord
  <2>2. IsFiniteSet(active) /\ IsFiniteSet(AllWorking)
    BY <2>1, TaskAssumption, FS_Subset
  <2>3. Cardinality(AllWorking) <= Cardinality(active)
    BY <2>1, <2>2, FS_Subset
  <2>4. Cardinality(active) < MaxActive
    BY <1>1 DEF CountActive
  <2>5. after = AllWorking \cup {t} /\ t \notin AllWorking
    BY <1>8 DEF AllWorking
  <2>6. Cardinality(after) = Cardinality(AllWorking) + 1
    BY <2>2, <2>5, FS_AddElement
  <2>7. Cardinality(AllWorking) \in Nat /\ Cardinality(active) \in Nat
    BY <2>2, FS_CardinalityType
  <2>8. Cardinality(after) <= MaxActive
    <3> HIDE DEF after, active
    <3> QED
      BY <2>3, <2>4, <2>6, <2>7, LimitAssumption
  <2> QED
    BY <2>8 DEF CapacityRespected, AllWorking
<1> QED
  BY <1>9, <1>10, <1>12, <1>13 DEF LInv

LEMMA WorkerKeeps ==
  ASSUME LInv, TypeOK', NEW t \in TaskId, WorkerStep(t)
  PROVE  LInv'
<1> USE DEF record, work
<1>t. wpc \in [TaskId -> WorkerPC] /\ mem \in [TaskId -> Status \cup {"absent"}]
  BY DEF LInv, TypeOK
<1>s. /\ "failed" \in Terminal /\ "cancelled" \in Terminal /\ "completed" \in Terminal
      /\ "running" \in Active /\ "paused" \in Active
      /\ Active \subseteq Status /\ Terminal \subseteq Status
  BY DEF Active, Terminal, Status
\* Every worker step is of one of three kinds.
<1>k. \/ /\ Working(t) /\ UNCHANGED <<owner, mem, reloaded>>
         /\ \E pc \in WorkerPC \ {"none", "ended"} : wpc' = [wpc EXCEPT ![t] = pc]
         /\ \A x \in TaskId : jpc'[x] = "none" => jpc[x] = "none"
      \/ /\ Working(t) /\ UNCHANGED <<owner, reloaded, jpc>>
         /\ \E pc \in WorkerPC \ {"none", "ended"} : wpc' = [wpc EXCEPT ![t] = pc]
         /\ \E s \in Active : UpdateTask(t, s, "worker")
      \/ /\ Working(t) /\ UNCHANGED <<owner, reloaded, jpc>>
         /\ wpc' = [wpc EXCEPT ![t] = "ended"]
         /\ \E s \in Terminal : UpdateTask(t, s, "worker") \/ mem' = [mem EXCEPT ![t] = s]
  <2>1. CASE Spawn(t)
    BY <2>1 DEF Spawn, Working, WorkerPC
  <2>2. CASE SpawnFails(t)
    BY <2>2, <1>s DEF SpawnFails, Working
  <2>3. CASE Refuse(t)
    BY <2>3, <1>s DEF Refuse, Working
  <2>4. CASE Boot(t)
    BY <2>4, <1>s DEF Boot, At, Go, Working, WorkerPC
  <2>5. CASE Login(t)
    BY <2>5, <1>s DEF Login, At, Go, Working, WorkerPC
  <2>6. CASE NextCourse(t)
    BY <2>6, <1>s DEF NextCourse, Cancel, At, Go, Working, WorkerPC
  <2>7. CASE Wait(t)
    BY <2>7 DEF Wait, Go, Working, WorkerPC
  <2>8. CASE MarkPaused(t)
    BY <2>8, <1>s DEF MarkPaused, Go, Working, WorkerPC
  <2>9. CASE Waited(t)
    BY <2>9, <1>s DEF Waited, Cancel, At, Go, Working, WorkerPC
  <2>10. CASE BeginCourse(t)
    BY <2>10, <1>s DEF BeginCourse, At, Go, Working, WorkerPC
  <2>11. CASE FetchChapters(t)
    BY <2>11 DEF FetchChapters, EndCourse, At, Go, Working, WorkerPC
  <2>12. CASE Callback(t)
    BY <2>12 DEF Callback, At, Go, Working, WorkerPC
  <2>13. CASE CourseOver(t)
    BY <2>13, <1>s DEF CourseOver, Cancel, EndCourse, At, Go, Working, WorkerPC
  <2>14. CASE Finish(t)
    BY <2>14, <1>s DEF Finish, Cancel, At, Go, Working, WorkerPC
  <2>15. CASE Settle(t)
    BY <2>15, <1>s DEF Settle, At, Go, Working
  <2> QED
    BY <2>1, <2>2, <2>3, <2>4, <2>5, <2>6, <2>7, <2>8, <2>9, <2>10, <2>11, <2>12, <2>13, <2>14,
       <2>15 DEF WorkerStep
<1> QED
  BY <1>k, <1>s, WalkKeeps, UpdateKeeps, EndKeeps, UpdateReaches

\* Requests, rows, job threads and the store.
LEMMA OtherKeeps ==
  ASSUME LInv, TypeOK', NEW t \in TaskId,
         \/ Pause(t) \/ Resume(t) \/ Stop(t) \/ LoadRow(t)
         \/ RequestStep(t) \/ LeaveJobThread(t) \/ JobStep(t) \/ StoreStep(t)
  PROVE  LInv'
<1> USE DEF record, work
<1>t. mem \in [TaskId -> Status \cup {"absent"}] /\ jpc \in [TaskId -> {"none", "playing", "mark", "gone"}]
      /\ wpc \in [TaskId -> WorkerPC] /\ reloaded \in [TaskId -> BOOLEAN]
  BY DEF LInv, TypeOK
<1>1. CASE Pause(t) \/ Resume(t) \/ Stop(t)
  <2>1. UNCHANGED <<owner, wpc, reloaded, jpc>> /\ mem[t] # "absent"
    BY <1>1 DEF Pause, Resume, Stop, Accepts
  <2>2. \/ UNCHANGED mem
        \/ mem[t] \in Active /\ \E s \in Active : mem' = [mem EXCEPT ![t] = s]
    BY <1>1, <1>t, <2>1, StatusSplit DEF Pause, Resume, Stop, Active
  <2> QED
    BY <2>1, <2>2, RecordKeeps
<1>2. CASE LoadRow(t) \/ AppendLog(t) \/ LeaveJobThread(t) \/ JobTick(t)
  <2>1. /\ UNCHANGED <<owner, wpc, reloaded, mem>>
        /\ \A x \in TaskId : jpc'[x] = "none" => jpc[x] = "none"
    BY <1>2, <1>t DEF LoadRow, AppendLog, LeaveJobThread, JobTick
  <2> QED
    BY <2>1, RecordKeeps
<1>3. CASE JobMarkPaused(t)
  <2>1. /\ UNCHANGED <<owner, wpc, reloaded>> /\ jpc[t] # "none"
        /\ \A x \in TaskId : jpc'[x] = "none" => jpc[x] = "none"
    BY <1>3, <1>t DEF JobMarkPaused
  <2>2. UNCHANGED mem \/ (mem[t] # "absent" /\ mem' = [mem EXCEPT ![t] = "paused"])
    BY <1>3 DEF JobMarkPaused, UpdateTask
  <2> QED
    BY <2>1, <2>2, RecordKeeps DEF Active
<1>4. CASE MergeRow(t)
  <2>1. CASE mem[t] # "absent"
    <3>1. UNCHANGED <<owner, wpc, reloaded, mem, jpc>>
      BY <1>4, <2>1 DEF MergeRow
    <3> QED
      BY <3>1, RecordKeeps
  <2>2. CASE mem[t] = "absent"
    <3>1. Merged(loading[t]) \in Terminal
      BY <1>4, MergedTyped DEF MergeRow, LInv, TypeOK
    <3>2. /\ UNCHANGED <<owner, wpc, jpc>> /\ mem' = [mem EXCEPT ![t] = Merged(loading[t])]
          /\ reloaded' = [reloaded EXCEPT ![t] = TRUE]
      BY <1>4, <2>2 DEF MergeRow
    <3>3. ~Working(t)
      BY <2>2, StatusSplit DEF LInv, WorkKeepsItsRecord
    <3>4. NoneBegins
      BY <3>2 DEF NoneBegins, Working
    <3>5. \A x \in TaskId : Working(x)' <=> Working(x)
      BY <3>2 DEF Working
    <3>6. Fits
      BY <1>t, <3>1, <3>2, <3>3, <3>5, StatusSplit DEF LInv, Fits, WorkKeepsItsRecord, ActiveHasWorker
    <3> QED
      BY <3>4, <3>6, QuietStepKeeps
  <2> QED
    BY <2>1, <2>2
<1>5. CASE StoreStep(t)
  <2>1. UNCHANGED <<owner, mem, reloaded, jpc>>
    BY <1>5 DEF StoreStep, StoreWrite, StoreFails
  <2>2. \/ UNCHANGED wpc
        \/ Working(t) /\ \E pc \in WorkerPC \ {"none", "ended"} : wpc' = [wpc EXCEPT ![t] = pc]
    BY <1>5 DEF StoreStep, StoreWrite, StoreFails, Admission, Working, WorkerPC
  <2> QED
    BY <2>1, <2>2, RecordKeeps, WalkKeeps
<1> QED
  BY <1>1, <1>2, <1>3, <1>4, <1>5 DEF RequestStep, JobStep

LEMMA BrowseKeeps ==
  ASSUME LInv, TypeOK', Browse
  PROVE  LInv'
<1>1. \A x \in TaskId : mem'[x] = mem[x] \/ (mem'[x] = "absent" /\ mem[x] \in Terminal)
  BY CleanedKeeps DEF Browse, LInv, TypeOK
<1>2. UNCHANGED <<owner, wpc, reloaded, jpc>>
  BY DEF Browse, work
<1>3. NoneBegins
  BY <1>2 DEF NoneBegins, Working
<1>4. Fits
  BY <1>1, <1>2, StatusSplit DEF LInv, Fits, Working, WorkKeepsItsRecord, ActiveHasWorker
<1> QED
  BY <1>3, <1>4, QuietStepKeeps

LEMMA RestartKeeps ==
  ASSUME LInv, TypeOK', Restart
  PROVE  LInv'
<1>1. \A x \in TaskId : mem'[x] \notin Active
  BY RestartFinds, StatusSplit DEF LInv
<1>2. UNCHANGED owner /\ \A x \in TaskId : wpc'[x] = IF owner[x] # Nobody THEN "ended" ELSE "none"
  BY DEF Restart
<1>3. \A x \in TaskId : ~Working(x)'
  BY <1>2 DEF Working
<1>4. NoneBegins
  BY <1>2, <1>3 DEF NoneBegins, LInv, Unstarted
<1> QED
  BY <1>1, <1>3, <1>4, QuietStepKeeps DEF Fits

LEMMA NextKeeps == LInv /\ TypeOK' /\ [Next]_vars => LInv'
<1> SUFFICES ASSUME LInv, TypeOK', [Next]_vars PROVE LInv'
  OBVIOUS
<1>2. CASE \E t \in TaskId : Request(t) \/ RequestStep(t) \/ WorkerStep(t)
                               \/ LeaveJobThread(t) \/ JobStep(t) \/ StoreStep(t)
  BY <1>2, StartKeeps, WorkerKeeps, OtherKeeps DEF Request
<1>3. CASE Browse
  BY <1>3, BrowseKeeps
<1>4. CASE Restart
  BY <1>4, RestartKeeps
<1>5. CASE UNCHANGED vars
  <2>1. UNCHANGED <<owner, mem, reloaded, wpc, jpc>>
    BY <1>5 DEF vars, record, work
  <2>2. NoneBegins /\ Fits
    BY <2>1 DEF LInv, NoneBegins, Fits, WorkKeepsItsRecord, ActiveHasWorker, Working
  <2> QED
    BY <2>2, QuietStepKeeps
<1> QED
  BY <1>2, <1>3, <1>4, <1>5 DEF Next

THEOREM LearningInvariant == Spec => []LInv
<1> QED
  BY InitInv, NextKeeps, LearningTypes, PTL DEF Spec

-----------------------------------------------------------------------------
(* The promises *)

\* At most one task of a user is worked on (TaskAlreadyActiveError in
\* start_task), whatever is evicted, reloaded, left behind or restarted.
THEOREM OneTaskPerUser == Spec => []OneWorkerPerUser
<1>1. LInv => OneWorkerPerUser
  BY DEF LInv
<1> QED
  BY <1>1, LearningInvariant, PTL

\* No more than MaxActive tasks are worked on (TaskCapacityError in start_task).
THEOREM Capacity == Spec => []CapacityRespected
<1>1. LInv => CapacityRespected
  BY DEF LInv
<1> QED
  BY <1>1, LearningInvariant, PTL

\* cleanup_task_records and the rows of the store leave the record of a task at
\* work alone.
THEOREM RecordKept == Spec => []WorkKeepsItsRecord
<1>1. LInv => WorkKeepsItsRecord
  BY DEF LInv
<1> QED
  BY <1>1, LearningInvariant, PTL

\* No task locks its user out: one shown as active has a worker, or a job
\* thread that process_chapter left behind.
THEOREM NobodyLockedOut == Spec => []ActiveHasWorker
<1>1. LInv => ActiveHasWorker
  BY DEF LInv
<1> QED
  BY <1>1, LearningInvariant, PTL

-----------------------------------------------------------------------------
(* Rows and records *)

\* The end of task t is final: a terminal status in its row or in a snapshot
\* on its way is the status of every later snapshot and of its record.
EndIsFinal(t) ==
    /\ store[t] \in Terminal => mem[t] \in {"absent", store[t]}
    /\ \A i \in DOMAIN writes[t] :
          /\ writes[t][i].status \in Terminal => mem[t] = writes[t][i].status
          /\ store[t] \in Terminal => writes[t][i].status = store[t]
          /\ \A j \in DOMAIN writes[t] :
                i < j /\ writes[t][i].status \in Terminal => writes[t][j].status = writes[t][i].status

\* The newest snapshot of t, once no request has its log line yet to append,
\* says what the record says.
Current(t) ==
    mem[t] # "absent" /\ unlogged[t] = 0 =>
        IF writes[t] # <<>> THEN writes[t][Len(writes[t])].status = mem[t]
                            ELSE ~reloaded[t] /\ failures = 0 => store[t] = mem[t]

\* A task never started has no record and no row; one without a record has
\* nothing on its way; a row that is being loaded stays as it was read.
Coherent(t) ==
    /\ owner[t] = Nobody => mem[t] = "absent" /\ store[t] = "none"
    /\ mem[t] = "absent" => writes[t] = <<>> /\ unlogged[t] = 0
    /\ loading[t] # "none" => mem[t] = "absent" /\ loading[t] = store[t]

RowAt(t) == Coherent(t) /\ Current(t) /\ (jpc[t] = "none" => EndIsFinal(t))

RowInv == LInv /\ \A t \in TaskId : RowAt(t)

\* Nothing of x that rows and records depend on changes, but that the clean-up
\* may take the record.
AtRest(x) ==
    /\ owner'[x] = owner[x] /\ store'[x] = store[x] /\ writes'[x] = writes[x]
    /\ loading'[x] = loading[x] /\ unlogged'[x] = unlogged[x] /\ reloaded'[x] = reloaded[x]
    /\ jpc'[x] = "none" => jpc[x] = "none"
    /\ failures' = 0 => failures = 0
    /\ mem'[x] = mem[x] \/ (mem'[x] = "absent" /\ mem[x] \in Terminal /\ x \notin Writing)

LEMMA RestAt ==
  ASSUME TypeOK, NEW x \in TaskId, RowAt(x), AtRest(x)
  PROVE  RowAt(x)'
<1>1. Coherent(x)'
  BY StatusSplit DEF TypeOK, AtRest, RowAt, Coherent, Writing
<1>2. Current(x)'
  BY StatusSplit DEF AtRest, RowAt, Current
<1>3. CASE jpc'[x] = "none"
  <2>1. EndIsFinal(x) /\ (mem'[x] # mem[x] => writes[x] = <<>>)
    BY <1>3 DEF AtRest, RowAt, Writing
  <2>2. (mem'[x] = mem[x] \/ mem'[x] = "absent") /\ writes'[x] = writes[x] /\ store'[x] = store[x]
    BY DEF AtRest
  <2>3. EndIsFinal(x)'
    <3>1. CASE mem'[x] = mem[x]
      BY <2>1, <2>2, <3>1 DEF EndIsFinal
    <3>2. CASE mem'[x] # mem[x]
      <4>1. DOMAIN writes'[x] = {}
        BY <2>1, <2>2, <3>2
      <4> QED
        BY <2>2, <3>2, <4>1 DEF EndIsFinal
    <3> QED
      BY <3>1, <3>2
  <2> QED
    BY <1>1, <1>2, <2>3 DEF RowAt
<1> QED
  BY <1>1, <1>2, <1>3 DEF RowAt

\* A snapshot of the record's new status s is reserved.
LEMMA AppendAt ==
  ASSUME TypeOK, NEW x \in TaskId, RowAt(x), NEW s \in Status, NEW w \in Writer,
         mem[x] # "absent", mem'[x] = s,
         writes'[x] = Append(writes[x], [status |-> s, by |-> w]),
         jpc'[x] = "none" => jpc[x] = "none" /\ (mem[x] \in Active \/ mem[x] = s),
         owner'[x] = owner[x], store'[x] = store[x], loading'[x] = loading[x]
  PROVE  RowAt(x)'
<1> DEFINE q == writes[x]
           e == [status |-> s, by |-> w]
<1>1. q \in Seq(Entry) /\ e \in Entry
  BY DEF TypeOK, Entry, Writer
<1>2. /\ Append(q, e) # <<>> /\ Len(Append(q, e)) = Len(q) + 1
      /\ Append(q, e)[Len(q) + 1] = e
      /\ \A i \in 1 .. Len(q) : Append(q, e)[i] = q[i]
      /\ Len(q) \in Nat /\ DOMAIN q = 1 .. Len(q)
      /\ DOMAIN Append(q, e) = 1 .. Len(q) + 1
  BY <1>1, AppendProperties, LenProperties
<1>3. Coherent(x)' /\ Current(x)'
  BY <1>2, StatusSplit DEF RowAt, Coherent, Current
<1>4. CASE jpc'[x] = "none"
  <2>1. /\ store[x] \in Terminal => store[x] = s
        /\ \A i \in DOMAIN q : q[i].status \in Terminal => q[i].status = s
    BY <1>4, StatusSplit DEF RowAt, EndIsFinal
  <2>2. \A i \in DOMAIN q : store[x] \in Terminal => q[i].status = store[x]
    BY <1>4 DEF RowAt, EndIsFinal
  <2>3. \A i, j \in DOMAIN q : i < j /\ q[i].status \in Terminal => q[j].status = q[i].status
    BY <1>4 DEF RowAt, EndIsFinal
  <2>4. \A i \in DOMAIN writes'[x] : writes'[x][i] = IF i = Len(q) + 1 THEN e ELSE q[i]
    BY <1>2
  <2>5. DOMAIN writes'[x] = 1 .. Len(q) + 1
    BY <1>2
  <2> HIDE DEF q
  <2>6. \A i \in DOMAIN writes'[x] :
          /\ writes'[x][i].status \in Terminal => mem'[x] = writes'[x][i].status
          /\ store'[x] \in Terminal => writes'[x][i].status = store'[x]
    BY <1>2, <2>1, <2>2, <2>4, <2>5
  <2>7. \A i, j \in DOMAIN writes'[x] :
          i < j /\ writes'[x][i].status \in Terminal => writes'[x][j].status = writes'[x][i].status
    BY <1>2, <2>1, <2>3, <2>4, <2>5
  <2> QED
    BY <1>3, <2>1, <2>6, <2>7 DEF RowAt, EndIsFinal
<1> QED
  BY <1>3, <1>4 DEF RowAt

\* A request changes the record and has its log line yet to append.
LEMMA ChangeAt ==
  ASSUME TypeOK, NEW x \in TaskId, RowAt(x),
         mem[x] # "absent", mem'[x] # "absent", mem'[x] = mem[x] \/ mem[x] \in Active,
         unlogged'[x] # 0,
         UNCHANGED <<owner, store, writes, loading, jpc>>
  PROVE  RowAt(x)'
<1>1. Coherent(x)' /\ Current(x)'
  BY DEF RowAt, Coherent, Current
<1>2. jpc'[x] = "none" => EndIsFinal(x)'
  BY StatusSplit DEF RowAt, EndIsFinal
<1> QED
  BY <1>1, <1>2 DEF RowAt

\* The oldest snapshot has left; its status is in the row, or the write failed.
LEMMA WriteAt ==
  ASSUME TypeOK, NEW x \in TaskId, RowAt(x), writes[x] # <<>>, writes'[x] = Tail(writes[x]),
         store'[x] = Head(writes[x]).status \/ (store'[x] = store[x] /\ failures' # 0),
         failures' = 0 => failures = 0,
         UNCHANGED <<owner, mem, loading, unlogged, reloaded, jpc>>
  PROVE  RowAt(x)'
<1> DEFINE q == writes[x]
<1>1. q \in Seq(Entry)
  BY DEF TypeOK, Entry, Writer
<1>2. /\ Len(q) \in Nat \ {0} /\ DOMAIN q = 1 .. Len(q) /\ Head(q) = q[1]
      /\ Tail(q) \in Seq(Entry) /\ Len(Tail(q)) = Len(q) - 1
      /\ DOMAIN Tail(q) = 1 .. Len(q) - 1
      /\ \A i \in 1 .. Len(q) - 1 : Tail(q)[i] = q[i + 1]
  BY <1>1, HeadTailProperties, LenProperties, EmptySeq
<1>3. Coherent(x)'
  BY DEF RowAt, Coherent
<1>4. Current(x)'
  <2> SUFFICES ASSUME mem[x] # "absent", unlogged[x] = 0
               PROVE  IF writes'[x] # <<>> THEN writes'[x][Len(writes'[x])].status = mem[x]
                      ELSE ~reloaded[x] /\ failures' = 0 => store'[x] = mem[x]
    BY DEF Current
  <2>1. q[Len(q)].status = mem[x]
    BY DEF RowAt, Current
  <2>2. CASE Len(q) = 1
    <3>1. Tail(q) = <<>>
      BY <1>2, <2>2, EmptySeq
    <3>2. writes'[x] = <<>> /\ q[1].status = mem[x]
      BY <2>1, <2>2, <3>1
    <3> QED
      BY <1>2, <3>2
  <2>3. CASE Len(q) # 1
    <3>1. Len(q) - 1 \in 1 .. Len(q) - 1 /\ Len(Tail(q)) # 0
      <4> HIDE DEF q
      <4>1. Len(q) \in Nat \ {0} /\ Len(Tail(q)) = Len(q) - 1
        BY <1>2
      <4> QED
        BY <2>3, <4>1
    <3>2. Tail(q)[Len(q) - 1] = q[(Len(q) - 1) + 1] /\ (Len(q) - 1) + 1 = Len(q)
      BY <1>2, <3>1
    <3>3. Tail(q) # <<>>
      BY <3>1, EmptySeq
    <3> QED
      BY <1>2, <2>1, <3>2, <3>3
  <2> QED
    BY <2>2, <2>3
<1>5. CASE jpc'[x] = "none"
  <2>1. EndIsFinal(x)
    BY <1>5 DEF RowAt
  <2>2. \A i \in DOMAIN q : q[i].status \in Terminal => mem[x] = q[i].status
    BY <2>1 DEF EndIsFinal
  <2>3. \A i \in DOMAIN q : store[x] \in Terminal => q[i].status = store[x]
    BY <2>1 DEF EndIsFinal
  <2>4. \A i, j \in DOMAIN q : i < j /\ q[i].status \in Terminal => q[j].status = q[i].status
    BY <2>1 DEF EndIsFinal
  <2>5. DOMAIN writes'[x] = 1 .. Len(q) - 1 /\ \A i \in DOMAIN writes'[x] : writes'[x][i] = q[i + 1]
    BY <1>2
  <2>6. store'[x] = q[1].status \/ store'[x] = store[x]
    BY <1>2
  <2> HIDE DEF q
  <2>7. \A i \in DOMAIN writes'[x] : i \in 1 .. Len(q) /\ i + 1 \in DOMAIN q /\ 1 < i + 1 /\ 1 \in DOMAIN q
    BY <1>2, <2>5
  <2>8. store'[x] \in Terminal => mem[x] \in {"absent", store'[x]}
    BY <1>2, <2>1, <2>2, <2>6 DEF EndIsFinal
  <2>9. \A i \in DOMAIN writes'[x] :
          /\ writes'[x][i].status \in Terminal => mem[x] = writes'[x][i].status
          /\ store'[x] \in Terminal => writes'[x][i].status = store'[x]
    BY <2>2, <2>3, <2>4, <2>5, <2>6, <2>7
  <2>10. \A i, j \in DOMAIN writes'[x] :
          i < j /\ writes'[x][i].status \in Terminal => writes'[x][j].status = writes'[x][i].status
    <3> SUFFICES ASSUME NEW i \in DOMAIN writes'[x], NEW j \in DOMAIN writes'[x], i < j,
                        writes'[x][i].status \in Terminal
                 PROVE  writes'[x][j].status = writes'[x][i].status
      OBVIOUS
    <3>1. i \in Int /\ j \in Int /\ i + 1 < j + 1
      BY <1>2, <2>5
    <3>2. writes'[x][i] = q[i + 1] /\ writes'[x][j] = q[j + 1]
      BY <2>5
    <3>3. i + 1 \in DOMAIN q /\ j + 1 \in DOMAIN q
      BY <2>7
    <3> QED
      BY <2>4, <3>1, <3>2, <3>3
  <2>11. EndIsFinal(x)'
    BY <2>8, <2>9, <2>10 DEF EndIsFinal
  <2> QED
    BY <1>3, <1>4, <2>11 DEF RowAt
<1> QED
  BY <1>3, <1>4, <1>5 DEF RowAt

-----------------------------------------------------------------------------
(* Every step keeps rows and records together *)

\* The clean-up takes no record with snapshots on their way.
LEMMA CleanedRests ==
  ASSUME NEW m \in [TaskId -> Status \cup {"absent"}], NEW busy, NEW c \in Cleaned(m, busy)
  PROVE  /\ c \in [TaskId -> Status \cup {"absent"}]
         /\ \A t \in TaskId : c[t] = m[t] \/ (c[t] = "absent" /\ m[t] \in Terminal /\ t \notin busy)
<1>1. PICK E \in SUBSET {t \in TaskId \ busy : m[t] \in Terminal} :
        c = [t \in TaskId |-> IF t \in E THEN "absent" ELSE m[t]]
  BY DEF Cleaned
<1> QED
  BY <1>1

\* Starting a task leaves the others as they are, but for a clean-up.
LEMMA StartShape ==
  ASSUME TypeOK, NEW t \in TaskId, Start(t)
  PROVE  /\ mem'[t] = "pending" /\ ~reloaded'[t]
         /\ UNCHANGED <<store, jpc, failures>>
         /\ \A x \in TaskId \ {t} : AtRest(x)
         /\ \E u \in User, m \in [TaskId -> Status \cup {"absent"}] :
               /\ owner' = [owner EXCEPT ![t] = u]
               /\ ~HasActive(m, u) /\ CountActive(m) < MaxActive
               /\ \A x \in TaskId : m[x] = mem[x] \/ (m[x] = "absent" /\ mem[x] \in Terminal)
<1>1. PICK u \in User, m \in Cleaned(mem, Writing) :
        /\ ~HasActive(m, u) /\ CountActive(m) < MaxActive
        /\ mem' \in Cleaned([m EXCEPT ![t] = "pending"], Writing)
        /\ owner' = [owner EXCEPT ![t] = u]
  BY DEF Start
<1> DEFINE m2 == [m EXCEPT ![t] = "pending"]
<1>m. mem \in [TaskId -> Status \cup {"absent"}]
  BY DEF TypeOK
<1>2. /\ m \in [TaskId -> Status \cup {"absent"}]
      /\ \A y \in TaskId : m[y] = mem[y] \/ (m[y] = "absent" /\ mem[y] \in Terminal /\ y \notin Writing)
  BY <1>m, CleanedRests
<1>3. m2 \in [TaskId -> Status \cup {"absent"}] /\ m2[t] = "pending"
      /\ \A y \in TaskId \ {t} : m2[y] = m[y]
  BY <1>2 DEF Status, Active
<1>4. \A y \in TaskId : mem'[y] = m2[y] \/ (mem'[y] = "absent" /\ m2[y] \in Terminal /\ y \notin Writing)
  <2>1. mem' \in Cleaned(m2, Writing)
    BY <1>1
  <2> HIDE DEF m2
  <2> QED
    BY <1>3, <2>1, CleanedRests
<1>5. /\ UNCHANGED <<unlogged, store, loading, jpc, failures>>
      /\ writes' = [writes EXCEPT ![t] = Append(writes[t], [status |-> "pending", by |-> "worker"])]
      /\ reloaded' = [reloaded EXCEPT ![t] = FALSE]
  BY DEF Start, Snapshot
<1>6. writes \in [TaskId -> Seq(Entry)] /\ reloaded \in [TaskId -> BOOLEAN]
      /\ owner \in [TaskId -> User \cup {Nobody}]
  BY DEF TypeOK, Entry, Writer
<1>7. mem'[t] = "pending" /\ ~reloaded'[t]
  BY <1>3, <1>4, <1>5, <1>6 DEF Terminal
<1>8. ASSUME NEW x \in TaskId \ {t} PROVE AtRest(x)
  <2>1. mem'[x] = mem[x] \/ (mem'[x] = "absent" /\ mem[x] \in Terminal /\ x \notin Writing)
    BY <1>2, <1>3, <1>4, StatusSplit
  <2>2. owner'[x] = owner[x] /\ writes'[x] = writes[x] /\ reloaded'[x] = reloaded[x]
    BY <1>1, <1>5, <1>6
  <2> QED
    BY <1>5, <2>1, <2>2 DEF AtRest
<1> QED
  BY <1>1, <1>2, <1>5, <1>7, <1>8

\* What a worker's step does to its record, the other tasks at rest.
LEMMA WorkerShape ==
  ASSUME LInv, NEW t \in TaskId, WorkerStep(t)
  PROVE  /\ mem[t] \in Active /\ ~reloaded[t]
         /\ UNCHANGED <<owner, reloaded, store, loading, unlogged, jpc, failures>>
         /\ \/ UNCHANGED <<mem, writes>>
            \/ \E s \in Status :
                  /\ mem' = [mem EXCEPT ![t] = s]
                  /\ writes' = [writes EXCEPT ![t] = Append(writes[t], [status |-> s, by |-> "worker"])]
         /\ \A x \in TaskId \ {t} : AtRest(x)
<1> USE DEF record, work
<1>t. writes \in [TaskId -> Seq(Entry)] /\ mem \in [TaskId -> Status \cup {"absent"}]
  BY DEF LInv, TypeOK, Entry, Writer
<1>s. {"failed", "cancelled", "completed", "running", "paused"} \subseteq Status
  BY DEF Status, Active, Terminal
<1>k. /\ Working(t) /\ UNCHANGED <<owner, reloaded, store, loading, unlogged, jpc, failures>>
      /\ \/ UNCHANGED <<mem, writes>>
         \/ \E s \in Status : UpdateTask(t, s, "worker")
         \/ mem' = [mem EXCEPT ![t] = "failed"] /\ Snapshot(t, "failed", "worker")
  <2>1. CASE Spawn(t) \/ SpawnFails(t) \/ Refuse(t)
    BY <2>1, <1>s DEF Spawn, SpawnFails, Refuse, Working
  <2>2. CASE Boot(t) \/ Login(t)
    BY <2>2, <1>s DEF Boot, Login, At, Working
  <2>3. CASE NextCourse(t)
    BY <2>3, <1>s DEF NextCourse, Cancel, At, Working
  <2>4. CASE Wait(t) \/ MarkPaused(t)
    BY <2>4, <1>s DEF Wait, MarkPaused, Working
  <2>5. CASE Waited(t) \/ BeginCourse(t)
    BY <2>5, <1>s DEF Waited, BeginCourse, Cancel, At, Working
  <2>6. CASE FetchChapters(t) \/ Callback(t)
    BY <2>6, <1>s DEF FetchChapters, Callback, At, Working
  <2>7. CASE CourseOver(t)
    BY <2>7, <1>s DEF CourseOver, Cancel, At, Working
  <2>8. CASE Finish(t) \/ Settle(t)
    BY <2>8, <1>s DEF Finish, Settle, Cancel, At, Working
  <2> QED
    BY <2>1, <2>2, <2>3, <2>4, <2>5, <2>6, <2>7, <2>8 DEF WorkerStep
<1>1. mem[t] \in Active /\ ~reloaded[t]
  BY <1>k DEF LInv, WorkKeepsItsRecord
<1>2. \/ UNCHANGED <<mem, writes>>
      \/ \E s \in Status : /\ mem' = [mem EXCEPT ![t] = s]
                           /\ writes' = [writes EXCEPT ![t] = Append(writes[t], [status |-> s, by |-> "worker"])]
  BY <1>k, <1>s DEF UpdateTask, Snapshot
<1>3. ASSUME NEW x \in TaskId \ {t} PROVE AtRest(x)
  BY <1>t, <1>k, <1>2 DEF AtRest
<1> QED
  BY <1>k, <1>1, <1>2, <1>3

\* A request touches the record under the lock, which it finds active if it
\* changes its status.
LEMMA RequestShape ==
  ASSUME TypeOK, NEW t \in TaskId, Pause(t) \/ Resume(t) \/ Stop(t)
  PROVE  /\ UNCHANGED <<owner, store, writes, reloaded, jpc, failures>>
         /\ mem[t] # "absent"
         /\ UNCHANGED mem \/ (mem[t] \in Active /\ \E s \in Active : mem' = [mem EXCEPT ![t] = s])
<1>1. mem[t] # "absent"
      /\ (UNCHANGED mem \/ (mem[t] \notin Terminal /\ \E s \in Active : mem' = [mem EXCEPT ![t] = s]))
  BY DEF Pause, Resume, Stop, Accepts, Active
<1>2. mem[t] \notin Terminal /\ mem[t] # "absent" => mem[t] \in Active
  BY StatusSplit DEF TypeOK
<1> QED
  BY <1>1, <1>2 DEF Pause, Resume, Stop, LogLater, work

\* The oldest snapshot of t leaves, with the status of its row or with a failure.
LEMMA StoreShape ==
  ASSUME TypeOK, NEW t \in TaskId, StoreStep(t)
  PROVE  /\ UNCHANGED <<owner, mem, reloaded, unlogged, loading, jpc>>
         /\ writes[t] # <<>> /\ writes'[t] = Tail(writes[t])
         /\ store'[t] \in {store[t], Head(writes[t]).status}
         /\ (failures' # 0) \in {failures # 0, TRUE}
<1>f. failures \in Nat
  BY BoundAssumption DEF TypeOK
<1>1. store \in [TaskId -> Status \cup {"none"}] /\ writes \in [TaskId -> Seq(Entry)]
  BY DEF TypeOK, Entry, Writer
<1>2. UNCHANGED <<owner, mem, reloaded, unlogged, loading, jpc>> /\ writes[t] # <<>>
  BY DEF StoreStep, StoreWrite, StoreFails, record
<1>3. writes'[t] = Tail(writes[t]) /\ store'[t] \in {store[t], Head(writes[t]).status}
  BY <1>1 DEF StoreStep, StoreWrite, StoreFails
<1>4. failures' = failures \/ failures' = failures + 1
  BY DEF StoreStep, StoreWrite, StoreFails
<1>5. (failures' # 0) = (failures # 0) \/ failures' # 0
  BY <1>f, <1>4
<1> QED
  BY <1>2, <1>3, <1>5
\* What the other steps do to the task they are about, the others at rest.
LEMMA OtherRests ==
  ASSUME TypeOK, NEW t \in TaskId, NEW x \in TaskId \ {t},
         \/ Pause(t) \/ Resume(t) \/ Stop(t) \/ LoadRow(t)
         \/ RequestStep(t) \/ LeaveJobThread(t) \/ JobStep(t) \/ StoreStep(t)
  PROVE  AtRest(x)
<1> USE DEF record, work
<1>t. /\ writes \in [TaskId -> Seq(Entry)] /\ reloaded \in [TaskId -> BOOLEAN]
      /\ mem \in [TaskId -> Status \cup {"absent"}] /\ store \in [TaskId -> Status \cup {"none"}]
      /\ loading \in [TaskId -> Status \cup {"none"}] /\ unlogged \in [TaskId -> 0 .. MaxWrites]
      /\ jpc \in [TaskId -> {"none", "playing", "mark", "gone"}]
  BY DEF TypeOK, Entry, Writer
<1>1. CASE Pause(t) \/ Resume(t) \/ Stop(t) \/ LoadRow(t)
  <2>1. /\ UNCHANGED <<owner, store, writes, reloaded, jpc, failures>>
        /\ unlogged'[x] = unlogged[x] /\ mem'[x] = mem[x] /\ loading'[x] = loading[x]
    BY <1>1, <1>t DEF Pause, Resume, Stop, LoadRow, LogLater
  <2> QED
    BY <2>1 DEF AtRest
<1>2. CASE AppendLog(t)
  BY <1>2, <1>t DEF AppendLog, Snapshot, AtRest
<1>3. CASE MergeRow(t)
  BY <1>3, <1>t DEF MergeRow, Snapshot, AtRest
<1>4. CASE LeaveJobThread(t)
  BY <1>4, <1>t DEF LeaveJobThread, AtRest
<1>5. CASE JobStep(t)
  BY <1>5, <1>t DEF JobStep, JobTick, JobMarkPaused, UpdateTask, Snapshot, AtRest
<1>6. CASE StoreStep(t)
  <2>1. UNCHANGED <<owner, mem, loading, unlogged, reloaded, jpc>> /\ (failures' = 0 => failures = 0)
    BY <1>6, StoreShape
  <2>2. /\ writes' = [writes EXCEPT ![t] = Tail(@)]
        /\ store' \in {store, [store EXCEPT ![t] = Head(writes[t]).status]}
    BY <1>6 DEF StoreStep, StoreWrite, StoreFails
  <2>3. writes'[x] = writes[x] /\ store'[x] = store[x]
    BY <1>t, <2>2
  <2> QED
    BY <2>1, <2>3 DEF AtRest
<1> QED
  BY <1>1, <1>2, <1>3, <1>4, <1>5, <1>6 DEF RequestStep

LEMMA RowStart ==
  ASSUME RowInv, NEW t \in TaskId, Start(t), NEW x \in TaskId
  PROVE  RowAt(x)'
<1>t. TypeOK /\ RowAt(x) /\ RowAt(t)
  BY DEF RowInv, LInv
<1>1. CASE x # t
  BY <1>t, <1>1, StartShape, RestAt
<1>2. CASE x = t
  <2>1. mem'[t] = "pending" /\ owner'[t] # Nobody
    <3>1. \E u \in User : owner' = [owner EXCEPT ![t] = u]
      BY DEF Start
    <3>2. owner \in [TaskId -> User \cup {Nobody}]
      BY <1>t DEF TypeOK
    <3> QED
      BY <1>t, <3>1, <3>2, StartShape, NobodyAssumption
  <2>2. /\ writes[t] = <<>> /\ unlogged[t] = 0 /\ store[t] = "none" /\ loading[t] = "none"
        /\ UNCHANGED <<unlogged, store, loading, jpc, failures>>
    BY <1>t DEF Start, RowAt, Coherent
  <2>3. writes'[t] = <<[status |-> "pending", by |-> "worker"]>>
    <3>1. writes \in [TaskId -> Seq(Entry)]
      BY <1>t DEF TypeOK, Entry, Writer
    <3> QED
      BY <2>2, <3>1 DEF Start, Snapshot
  <2> DEFINE e == [status |-> "pending", by |-> "worker"]
  <2>4. <<e>> # <<>> /\ Len(<<e>>) = 1 /\ DOMAIN <<e>> = {1} /\ <<e>>[1] = e /\ e.status = "pending"
    OBVIOUS
  <2> HIDE DEF e
  <2>5. Coherent(t)' /\ Current(t)'
    BY <2>1, <2>2, <2>3, <2>4 DEF Coherent, Current, e
  <2>6. EndIsFinal(t)'
    BY <2>2, <2>3, <2>4 DEF EndIsFinal, e, Terminal
  <2> QED
    BY <1>2, <2>5, <2>6 DEF RowAt
<1> QED
  BY <1>1, <1>2

LEMMA RowWorker ==
  ASSUME RowInv, NEW t \in TaskId, WorkerStep(t), NEW x \in TaskId
  PROVE  RowAt(x)'
<1>t. TypeOK /\ LInv /\ RowAt(x) /\ writes \in [TaskId -> Seq(Entry)] /\ mem \in [TaskId -> Status \cup {"absent"}]
  BY DEF RowInv, LInv, TypeOK, Entry, Writer
<1>1. /\ mem[t] \in Active /\ UNCHANGED <<owner, reloaded, store, loading, unlogged, jpc, failures>>
      /\ \/ UNCHANGED <<mem, writes>>
         \/ \E s \in Status :
               /\ mem' = [mem EXCEPT ![t] = s]
               /\ writes' = [writes EXCEPT ![t] = Append(writes[t], [status |-> s, by |-> "worker"])]
      /\ \A y \in TaskId \ {t} : AtRest(y)
  BY <1>t, WorkerShape
<1>2. CASE UNCHANGED <<mem, writes>> \/ x # t
  <2>1. AtRest(x)
    BY <1>1, <1>2 DEF AtRest
  <2> QED
    BY <1>t, <2>1, RestAt
<1>3. CASE ~UNCHANGED <<mem, writes>> /\ x = t
  <2>1. PICK s \in Status :
          /\ mem' = [mem EXCEPT ![t] = s]
          /\ writes' = [writes EXCEPT ![t] = Append(writes[t], [status |-> s, by |-> "worker"])]
    BY <1>1, <1>3
  <2>2. mem'[x] = s /\ writes'[x] = Append(writes[x], [status |-> s, by |-> "worker"])
    BY <1>t, <1>3, <2>1
  <2> QED
    BY <1>t, <1>1, <1>3, <2>2, AppendAt, StatusSplit DEF Writer
<1> QED
  BY <1>2, <1>3

LEMMA RowOther ==
  ASSUME RowInv, NEW t \in TaskId, NEW x \in TaskId,
         \/ Pause(t) \/ Resume(t) \/ Stop(t) \/ LoadRow(t)
         \/ RequestStep(t) \/ LeaveJobThread(t) \/ JobStep(t) \/ StoreStep(t)
  PROVE  RowAt(x)'
<1> USE DEF record, work
<1>r. TypeOK /\ RowAt(x) /\ RowAt(t)
  BY DEF RowInv, LInv
<1>t. TypeOK /\ RowAt(x) /\ RowAt(t) /\ writes \in [TaskId -> Seq(Entry)]
      /\ mem \in [TaskId -> Status \cup {"absent"}] /\ store \in [TaskId -> Status \cup {"none"}]
      /\ loading \in [TaskId -> Status \cup {"none"}] /\ unlogged \in [TaskId -> 0 .. MaxWrites]
      /\ reloaded \in [TaskId -> BOOLEAN] /\ jpc \in [TaskId -> {"none", "playing", "mark", "gone"}]
  BY <1>r DEF TypeOK, Entry, Writer
<1>f. failures \in Nat
  BY <1>r, BoundAssumption DEF TypeOK
<1>1. CASE Pause(t) \/ Resume(t) \/ Stop(t)
  <2>1. /\ UNCHANGED <<owner, store, writes, loading, reloaded, jpc, failures>>
        /\ unlogged' = [unlogged EXCEPT ![t] = unlogged[t] + 1] /\ mem[t] # "absent"
        /\ \/ UNCHANGED mem
           \/ mem[t] \notin Terminal /\ \E s \in Active : mem' = [mem EXCEPT ![t] = s]
    BY <1>1 DEF Pause, Resume, Stop, Accepts, LogLater, Active
  <2>2. CASE x # t
    BY <1>t, <1>1, <2>2, OtherRests, RestAt
  <2>3. CASE x = t
    <3>1. mem'[x] # "absent" /\ (mem'[x] = mem[x] \/ mem[x] \in Active)
      BY <1>t, <2>1, <2>3, StatusSplit
    <3>2. unlogged'[x] # 0
      <4>1. unlogged[t] \in Nat
        BY <1>t, LimitAssumption
      <4> QED
        BY <1>t, <2>1, <2>3, <4>1
    <3> QED
      BY <1>t, <2>1, <2>3, <3>1, <3>2, ChangeAt
  <2> QED
    BY <2>2, <2>3
<1>2. CASE LoadRow(t)
  <2>1. /\ mem[t] = "absent" /\ store[t] # "none" /\ loading' = [loading EXCEPT ![t] = store[t]]
        /\ UNCHANGED <<owner, mem, reloaded, unlogged, store, writes, jpc, failures>>
    BY <1>2 DEF LoadRow
  <2>2. Coherent(x)' /\ Current(x)' /\ (jpc'[x] = "none" => EndIsFinal(x)')
    BY <1>t, <2>1 DEF RowAt, Coherent, Current, EndIsFinal
  <2> QED
    BY <2>2 DEF RowAt
<1>3. CASE AppendLog(t)
  <2>1. mem[t] # "absent"
    BY <1>3, <1>t DEF AppendLog, RowAt, Coherent
  <2>2. /\ UNCHANGED <<owner, mem, reloaded, store, loading, jpc, failures>>
        /\ unlogged' = [unlogged EXCEPT ![t] = unlogged[t] - 1]
        /\ writes' = [writes EXCEPT ![t] = Append(writes[t], [status |-> mem[t], by |-> "request"])]
    BY <1>3, <2>1 DEF AppendLog, Snapshot
  <2>3. CASE x # t
    BY <1>t, <1>3, <2>3, OtherRests, RestAt DEF RequestStep
  <2>4. CASE x = t
    <3>1. mem'[x] = mem[x] /\ mem[x] \in Status
          /\ writes'[x] = Append(writes[x], [status |-> mem[x], by |-> "request"])
      BY <1>t, <2>1, <2>2, <2>4
    <3> QED
      BY <1>t, <2>1, <2>2, <2>4, <3>1, AppendAt DEF Writer
  <2> QED
    BY <2>3, <2>4
<1>4. CASE MergeRow(t)
  <2>1. /\ mem[t] = "absent" /\ loading[t] = store[t] /\ loading[t] \in Status
        /\ writes[t] = <<>> /\ unlogged[t] = 0 /\ owner[t] # Nobody
    BY <1>4, <1>t DEF MergeRow, RowAt, Coherent
  <2>2. /\ loading' = [loading EXCEPT ![t] = "none"] /\ mem' = [mem EXCEPT ![t] = Merged(loading[t])]
        /\ reloaded' = [reloaded EXCEPT ![t] = TRUE]
        /\ UNCHANGED <<owner, unlogged, store, jpc, failures>>
        /\ IF loading[t] \in Active THEN Snapshot(t, "failed", "request") ELSE UNCHANGED writes
    BY <1>4, <2>1 DEF MergeRow
  <2>3. CASE x # t
    BY <1>t, <1>4, <2>3, OtherRests, RestAt DEF RequestStep
  <2>4. CASE x = t /\ loading[t] \in Active
    <3> DEFINE e == [status |-> "failed", by |-> "request"]
    <3>1. mem'[t] = "failed" /\ writes'[t] = <<e>> /\ reloaded'[t] /\ loading'[t] = "none"
      BY <1>t, <2>1, <2>2, <2>4 DEF Merged, Snapshot
    <3>2. <<e>> # <<>> /\ Len(<<e>>) = 1 /\ DOMAIN <<e>> = {1} /\ <<e>>[1] = e /\ e.status = "failed"
      OBVIOUS
    <3> HIDE DEF e
    <3>3. Coherent(t)' /\ Current(t)'
      BY <2>1, <2>2, <3>1, <3>2 DEF Coherent, Current
    <3>4. EndIsFinal(t)'
      BY <2>1, <2>2, <2>4, <3>1, <3>2, StatusSplit DEF EndIsFinal
    <3> QED
      BY <2>4, <3>3, <3>4 DEF RowAt
  <2>5. CASE x = t /\ loading[t] \notin Active
    <3>1. mem'[t] = store[t] /\ mem'[t] # "absent" /\ writes'[t] = <<>> /\ reloaded'[t] /\ loading'[t] = "none"
      BY <1>t, <2>1, <2>2, <2>5, StatusSplit DEF Merged
    <3>2. Coherent(t)' /\ Current(t)'
      BY <2>1, <2>2, <3>1 DEF Coherent, Current
    <3>3. DOMAIN writes'[t] = {}
      BY <3>1
    <3>4. EndIsFinal(t)'
      BY <2>2, <3>1, <3>3 DEF EndIsFinal
    <3> QED
      BY <2>5, <3>2, <3>4 DEF RowAt
  <2> QED
    BY <2>3, <2>4, <2>5
<1>5. CASE LeaveJobThread(t) \/ JobTick(t)
  <2>1. /\ UNCHANGED <<owner, mem, reloaded, unlogged, store, writes, loading, failures>>
        /\ jpc'[x] = "none" => jpc[x] = "none"
    BY <1>5, <1>t DEF LeaveJobThread, JobTick
  <2>2. AtRest(x)
    BY <2>1 DEF AtRest
  <2> QED
    BY <1>t, <2>2, RestAt
<1>6. CASE JobMarkPaused(t)
  <2>1. /\ UNCHANGED <<owner, reloaded, unlogged, store, loading, failures>> /\ jpc[t] = "mark"
        /\ jpc' = [jpc EXCEPT ![t] = "playing"]
        /\ \/ UNCHANGED <<mem, writes>>
           \/ /\ mem[t] # "absent" /\ mem' = [mem EXCEPT ![t] = "paused"]
              /\ writes' = [writes EXCEPT ![t] = Append(writes[t], [status |-> "paused", by |-> "job"])]
    BY <1>6 DEF JobMarkPaused, UpdateTask, Snapshot
  <2>2. CASE UNCHANGED <<mem, writes>> \/ x # t
    <3>1. AtRest(x)
      BY <1>t, <2>1, <2>2 DEF AtRest
    <3> QED
      BY <1>t, <3>1, RestAt
  <2>3. CASE ~UNCHANGED <<mem, writes>> /\ x = t
    <3>1. mem[x] # "absent" /\ mem'[x] = "paused" /\ jpc'[x] # "none"
          /\ writes'[x] = Append(writes[x], [status |-> "paused", by |-> "job"])
      BY <1>t, <2>1, <2>3
    <3> QED
      BY <1>t, <2>1, <3>1, AppendAt DEF Writer, Status, Active
  <2> QED
    BY <2>2, <2>3
<1>7. CASE StoreStep(t)
  <2>1. /\ writes[t] # <<>> /\ writes' = [writes EXCEPT ![t] = Tail(writes[t])]
        /\ UNCHANGED <<owner, mem, reloaded, unlogged, loading, jpc>>
        /\ \/ store' = [store EXCEPT ![t] = Head(writes[t]).status] /\ UNCHANGED failures
           \/ /\ store' \in {store, [store EXCEPT ![t] = Head(writes[t]).status]}
              /\ failures' = failures + 1
    BY <1>7 DEF StoreStep, StoreWrite, StoreFails
  <2>2. failures' # 0 \/ UNCHANGED failures
    BY <1>f, <2>1
  <2>3. CASE x # t
    BY <1>t, <1>7, <2>3, OtherRests, RestAt
  <2>4. CASE x = t
    <3>1. /\ writes[x] # <<>> /\ writes'[x] = Tail(writes[x])
          /\ store'[x] = Head(writes[x]).status \/ (store'[x] = store[x] /\ failures' # 0)
      BY <1>t, <1>f, <2>1, <2>4
    <3> QED
      BY <1>t, <2>1, <2>2, <3>1, WriteAt
  <2> QED
    BY <2>3, <2>4
<1> QED
  BY <1>1, <1>2, <1>3, <1>4, <1>5, <1>6, <1>7 DEF RequestStep, JobStep

LEMMA RowRestart ==
  ASSUME RowInv, Restart, NEW x \in TaskId
  PROVE  RowAt(x)' /\ (store[x] \in Terminal => store'[x] = store[x])
<1> DEFINE row(y) == IF store[y] = "none" THEN "absent" ELSE Merged(store[y])
           told == [y \in TaskId |-> row(y)]
           interrupted == {y \in TaskId : store[y] \in Active}
<1>t. TypeOK /\ RowAt(x)
  BY DEF RowInv, LInv
<1>1. PICK lost \in SUBSET interrupted :
        /\ mem' \in Cleaned(told, {})
        /\ store' = [y \in TaskId |-> IF y \in interrupted \ lost THEN "failed" ELSE store[y]]
  BY DEF Restart
<1>2. told \in [TaskId -> Status \cup {"absent"}]
  BY <1>t, MergedTyped, StatusSplit DEF TypeOK
<1>3. mem'[x] = row(x) \/ mem'[x] = "absent"
  <2> HIDE DEF told
  <2>1. \A y \in TaskId : mem'[y] = told[y] \/ mem'[y] = "absent"
    BY <1>1, <1>2, CleanedKeeps
  <2> QED
    BY <2>1 DEF told
<1>4. /\ reloaded'[x] /\ unlogged'[x] = 0 /\ writes'[x] = <<>> /\ loading'[x] = "none"
      /\ UNCHANGED owner
  BY DEF Restart
<1>5. store'[x] = IF x \in interrupted \ lost THEN "failed" ELSE store[x]
  BY <1>1
<1>6. store[x] \in Terminal => store'[x] = store[x]
  BY <1>5, StatusSplit
<1>7. Coherent(x)'
  BY <1>t, <1>3, <1>4, <1>5 DEF RowAt, Coherent, Active
<1>8. Current(x)'
  BY <1>4 DEF Current
<1>9. EndIsFinal(x)'
  <2>1. DOMAIN writes'[x] = {}
    BY <1>4
  <2>2. store'[x] \in Terminal => mem'[x] \in {"absent", store'[x]}
    BY <1>3, <1>5, StatusSplit DEF Merged, Active
  <2> QED
    BY <2>1, <2>2 DEF EndIsFinal
<1> QED
  BY <1>6, <1>7, <1>8, <1>9 DEF RowAt

LEMMA RowInit == Init => RowInv
<1> SUFFICES ASSUME Init, NEW x \in TaskId PROVE RowAt(x)
  BY InitInv DEF RowInv
<1>1. /\ owner[x] = Nobody /\ mem[x] = "absent" /\ store[x] = "none" /\ writes[x] = <<>>
      /\ unlogged[x] = 0 /\ loading[x] = "none"
  BY DEF Init
<1>2. DOMAIN writes[x] = {}
  BY <1>1
<1> QED
  BY <1>1, <1>2 DEF RowAt, Coherent, Current, EndIsFinal, Terminal

LEMMA RowKept == RowInv /\ TypeOK' /\ [Next]_vars => RowInv'
<1> SUFFICES ASSUME RowInv, TypeOK', [Next]_vars PROVE RowInv'
  OBVIOUS
<1>1. LInv'
  BY NextKeeps DEF RowInv
<1>2. ASSUME NEW x \in TaskId PROVE RowAt(x)'
  <2>1. CASE \E t \in TaskId : Request(t) \/ RequestStep(t) \/ WorkerStep(t)
                                 \/ LeaveJobThread(t) \/ JobStep(t) \/ StoreStep(t)
    BY <2>1, RowStart, RowWorker, RowOther DEF Request
  <2>2. CASE Browse
    <3>1. mem \in [TaskId -> Status \cup {"absent"}] /\ TypeOK /\ RowAt(x)
      BY DEF RowInv, LInv, TypeOK
    <3>2. mem'[x] = mem[x] \/ (mem'[x] = "absent" /\ mem[x] \in Terminal /\ x \notin Writing)
      BY <2>2, <3>1, CleanedRests DEF Browse
    <3>3. UNCHANGED <<owner, store, writes, loading, unlogged, reloaded, jpc, failures>>
      BY <2>2 DEF Browse
    <3>4. AtRest(x)
      BY <3>2, <3>3 DEF AtRest
    <3> QED
      BY <3>1, <3>4, RestAt
  <2>3. CASE Restart
    BY <2>3, RowRestart
  <2>4. CASE UNCHANGED vars
    <3>1. AtRest(x)
      BY <2>4 DEF vars, record, AtRest
    <3> QED
      BY <3>1, RestAt DEF RowInv, LInv
  <2> QED
    BY <2>1, <2>2, <2>3, <2>4 DEF Next
<1> QED
  BY <1>1, <1>2 DEF RowInv

THEOREM RowsFollowRecords == Spec => []RowInv
<1> QED
  BY RowInit, RowKept, LearningTypes, PTL DEF Spec

\* Once the snapshots of a task are through and no write failed, its row says
\* what its record says (_update_task, _append_task_log and the writes of
\* _persist_task_snapshot, in whatever order their threads get there).
THEOREM RowCatchesUp == Spec => []StoreCatchesUp
<1>1. RowInv => StoreCatchesUp
  <2> SUFFICES ASSUME RowInv, NEW t \in TaskId, mem[t] # "absent", ~reloaded[t], t \notin Writing,
                      failures = 0
               PROVE  store[t] = mem[t]
    BY DEF StoreCatchesUp
  <2>1. unlogged[t] \in Nat
    BY LimitAssumption DEF RowInv, LInv, TypeOK
  <2>2. writes[t] = <<>> /\ unlogged[t] = 0
    BY <2>1 DEF Writing
  <2> QED
    BY <2>2 DEF RowInv, RowAt, Current
<1> QED
  BY <1>1, RowsFollowRecords, PTL

\* The snapshot at the head of the queue says what a finished row says.
LEMMA FinalWrite ==
  ASSUME RowInv, NEW t \in TaskId, store[t] \in Terminal, jpc[t] = "none", writes[t] # <<>>
  PROVE  Head(writes[t]).status = store[t]
<1>1. writes[t] \in Seq(Entry) /\ EndIsFinal(t)
  BY DEF RowInv, LInv, TypeOK, Entry, Writer, RowAt
<1>2. 1 \in DOMAIN writes[t] /\ Head(writes[t]) = writes[t][1]
  BY <1>1, HeadTailProperties, LenProperties, EmptySeq
<1> QED
  BY <1>1, <1>2 DEF EndIsFinal

\* A finished row is never changed again by a late snapshot, a reload or a
\* restart, unless a job thread was left behind.
THEOREM OutcomeKept == Spec => OutcomeDurable
<1> DEFINE Stays == \A t \in TaskId : store[t] \in Terminal /\ jpc[t] = "none" => store'[t] = store[t]
<1>1. RowInv /\ [Next]_vars => [Stays]_vars
  <2> SUFFICES ASSUME RowInv, Next, NEW t \in TaskId, store[t] \in Terminal, jpc[t] = "none"
               PROVE  store'[t] = store[t]
    BY DEF Stays
  <2> USE DEF record, work
  <2>1. CASE \E x \in TaskId : Request(x) \/ RequestStep(x) \/ LeaveJobThread(x) \/ JobStep(x)
    BY <2>1 DEF Request, Start, Pause, Resume, Stop, LoadRow, RequestStep, AppendLog, MergeRow,
                LeaveJobThread, JobStep, JobTick, JobMarkPaused
  <2>2. CASE \E x \in TaskId : WorkerStep(x)
    BY <2>2 DEF WorkerStep, Spawn, SpawnFails, Refuse, Boot, Login, NextCourse, Wait, MarkPaused,
                Waited, BeginCourse, FetchChapters, Callback, CourseOver, Finish, Settle
  <2>3. CASE \E x \in TaskId : StoreStep(x)
    <3>1. PICK x \in TaskId : /\ writes[x] # <<>>
                              /\ store' \in {store, [store EXCEPT ![x] = Head(writes[x]).status]}
      BY <2>3 DEF StoreStep, StoreWrite, StoreFails
    <3>2. store'[t] = store[t] \/ (x = t /\ store'[t] = Head(writes[t]).status)
      BY <3>1 DEF RowInv, LInv, TypeOK
    <3> QED
      BY <3>1, <3>2, FinalWrite
  <2>4. CASE Browse
    BY <2>4 DEF Browse
  <2>5. CASE Restart
    BY <2>5, RowRestart
  <2> QED
    BY <2>1, <2>2, <2>3, <2>4, <2>5 DEF Next
<1> QED
  BY <1>1, RowsFollowRecords, PTL DEF Spec, OutcomeDurable

-----------------------------------------------------------------------------
(* The life of a task, as TaskLife.tla tells it *)

\* A record that came from the store says what its row says, as a reader of the
\* row would have it, and so does every snapshot of it.
Echo(t) ==
    reloaded[t] /\ mem[t] # "absent" /\ jpc[t] = "none" =>
        /\ store[t] # "none" /\ mem[t] = Merged(store[t])
        /\ \A i \in DOMAIN writes[t] : writes[t][i].status = mem[t]

LifeInv == RowInv /\ \A t \in TaskId : Echo(t)

\* What is merged has ended, and is merged again as it is.
LEMMA MergedEnds ==
  ASSUME NEW s \in Status
  PROVE  /\ Merged(s) \in Terminal /\ Merged(s) \notin {"absent", "none"}
         /\ s \in Terminal => Merged(s) = s
         /\ s \in Active => Merged(s) = "failed"
  BY StatusSplit DEF Merged, Terminal

LEMMA EchoInit == Init => \A t \in TaskId : Echo(t)
  BY DEF Init, Echo

LEMMA EchoRests ==
  ASSUME NEW x \in TaskId, Echo(x), AtRest(x)
  PROVE  Echo(x)'
  BY DEF Echo, AtRest

\* What a restart tells of each task: what its row told, or nothing.
LEMMA RestartTells ==
  ASSUME TypeOK, Restart, NEW x \in TaskId
  PROVE  /\ mem'[x] \in {"absent", IF store[x] = "none" THEN "absent" ELSE Merged(store[x])}
         /\ store'[x] = store[x] \/ (store[x] \in Active /\ store'[x] = "failed")
         /\ store'[x] = "none" <=> store[x] = "none"
         /\ store[x] # "none" => Merged(store'[x]) = Merged(store[x])
         /\ DOMAIN writes'[x] = {}
         /\ jpc'[x] = "none" <=> jpc[x] = "none"
<1> DEFINE row(y) == IF store[y] = "none" THEN "absent" ELSE Merged(store[y])
           told == [y \in TaskId |-> row(y)]
           interrupted == {y \in TaskId : store[y] \in Active}
<1>1. PICK lost \in SUBSET interrupted :
        /\ mem' \in Cleaned(told, {})
        /\ store' = [y \in TaskId |-> IF y \in interrupted \ lost THEN "failed" ELSE store[y]]
  BY DEF Restart
<1>2. told \in [TaskId -> Status \cup {"absent"}]
  BY MergedTyped, StatusSplit DEF TypeOK
<1>3. mem'[x] \in {"absent", row(x)}
  <2>1. mem' \in Cleaned(told, {})
    BY <1>1
  <2> HIDE DEF told
  <2>2. \A y \in TaskId : mem'[y] = told[y] \/ mem'[y] = "absent"
    BY <1>2, <2>1, CleanedKeeps
  <2> QED
    BY <2>2 DEF told
<1>4. store'[x] = store[x] \/ (store[x] \in Active /\ store'[x] = "failed")
  BY <1>1
<1>5. store[x] \in Active => Merged(store[x]) = "failed" /\ Merged("failed") = "failed"
  BY StatusSplit DEF Merged, Terminal
<1>6. store'[x] = "none" <=> store[x] = "none"
  BY <1>4, StatusSplit
<1>7. DOMAIN writes'[x] = {} /\ (jpc'[x] = "none" <=> jpc[x] = "none")
  BY DEF Restart
<1> QED
  BY <1>3, <1>4, <1>5, <1>6, <1>7

\* The writes that a restart loses count as failures.
LEMMA RestartCounts ==
  ASSUME TypeOK, Restart
  PROVE  (failures' # 0) \in {failures # 0, TRUE}
<1>1. PICK lost \in SUBSET TaskId : failures' = failures + Cardinality(lost)
  BY DEF Restart
<1>2. Cardinality(lost) \in Nat
  BY TaskAssumption, FS_Subset, FS_CardinalityType
<1>3. failures \in Nat
  BY BoundAssumption DEF TypeOK
<1>4. (failures' # 0) = (failures # 0) \/ failures' # 0
  BY <1>1, <1>2, <1>3
<1> QED
  BY <1>4

\* Every step keeps a reloaded record in tune with its row.
LEMMA EchoKept ==
  ASSUME LifeInv, NEW x \in TaskId, Next
  PROVE  Echo(x)'
<1> USE DEF record, work
<1>t. TypeOK /\ RowAt(x) /\ Echo(x) /\ mem \in [TaskId -> Status \cup {"absent"}]
      /\ store \in [TaskId -> Status \cup {"none"}] /\ writes \in [TaskId -> Seq(Entry)]
      /\ reloaded \in [TaskId -> BOOLEAN]
  BY DEF LifeInv, RowInv, LInv, TypeOK, Entry, Writer
<1>j. jpc \in [TaskId -> {"none", "playing", "mark", "gone"}]
      /\ loading \in [TaskId -> Status \cup {"none"}]
  BY <1>t DEF TypeOK
<1>1. ASSUME NEW t \in TaskId, Start(t) PROVE Echo(x)'
  <2>1. CASE x = t
    BY <1>t, <1>1, <2>1, StartShape DEF Echo
  <2>2. CASE x # t
    BY <1>t, <1>1, <2>2, StartShape, EchoRests
  <2> QED
    BY <2>1, <2>2
<1>2. ASSUME NEW t \in TaskId, WorkerStep(t) PROVE Echo(x)'
  <2>i. LInv
    BY DEF LifeInv, RowInv
  <2>1. CASE x = t
    BY <1>2, <2>1, <2>i, WorkerShape DEF Echo
  <2>2. CASE x # t
    BY <1>t, <1>2, <2>2, <2>i, WorkerShape, EchoRests
  <2> QED
    BY <2>1, <2>2
<1>3. ASSUME NEW t \in TaskId,
             \/ Pause(t) \/ Resume(t) \/ Stop(t) \/ LoadRow(t)
             \/ RequestStep(t) \/ LeaveJobThread(t) \/ JobStep(t) \/ StoreStep(t)
      PROVE  Echo(x)'
  <2>1. CASE x # t
    BY <1>t, <1>3, <2>1, OtherRests, EchoRests
  <2> SUFFICES ASSUME x = t, reloaded'[x], mem'[x] # "absent", jpc'[x] = "none"
               PROVE  /\ store'[x] # "none" /\ mem'[x] = Merged(store'[x])
                      /\ \A i \in DOMAIN writes'[x] : writes'[x][i].status = mem'[x]
    BY <2>1 DEF Echo
  <2>2. CASE Pause(t) \/ Resume(t) \/ Stop(t)
    <3>1. /\ UNCHANGED <<store, writes, reloaded, jpc>> /\ mem[t] # "absent"
          /\ UNCHANGED mem \/ mem[t] \in Active
      BY <1>t, <2>2, RequestShape
    <3>2. store[x] \in Status /\ mem[x] = Merged(store[x]) /\ Merged(store[x]) \notin Active
      BY <1>t, <3>1, MergedEnds, StatusSplit DEF Echo
    <3> QED
      BY <1>t, <3>1, <3>2 DEF Echo
  <2>3. CASE LoadRow(t) \/ LeaveJobThread(t)
    BY <1>t, <1>j, <2>3 DEF LoadRow, LeaveJobThread, Echo
  <2>4. CASE AppendLog(t)
    <3>1. /\ UNCHANGED <<mem, reloaded, store, jpc>>
          /\ writes' = [writes EXCEPT ![t] = Append(writes[t], [status |-> mem[t], by |-> "request"])]
      BY <2>4 DEF AppendLog, Snapshot
    <3>2. /\ store[x] # "none" /\ mem[x] = Merged(store[x]) /\ mem[x] \in Status
          /\ \A i \in DOMAIN writes[x] : writes[x][i].status = mem[x]
      BY <1>t, <3>1 DEF Echo
    <3> DEFINE q == writes[x]
               e == [status |-> mem[x], by |-> "request"]
    <3>3. q \in Seq(Entry) /\ e \in Entry
      BY <1>t, <3>2 DEF Entry, Writer
    <3>4. writes'[x] = Append(q, e) /\ e.status = mem[x]
      BY <1>t, <3>1
    <3> HIDE DEF q, e
    <3>5. \A i \in DOMAIN Append(q, e) : Append(q, e)[i] = e \/ (i \in DOMAIN q /\ Append(q, e)[i] = q[i])
      BY <3>3, AppendProperties, LenProperties
    <3>6. \A i \in DOMAIN writes'[x] : writes'[x][i].status = mem[x]
      BY <3>2, <3>4, <3>5 DEF q
    <3> QED
      BY <3>1, <3>2, <3>6
  <2>5. CASE MergeRow(t)
    <3>1. /\ mem[t] = "absent" /\ loading[t] = store[t] /\ loading[t] \in Status /\ writes[t] = <<>>
      BY <1>t, <1>j, <2>5 DEF MergeRow, RowAt, Coherent
    <3>2. /\ mem' = [mem EXCEPT ![t] = Merged(loading[t])] /\ UNCHANGED store
          /\ IF loading[t] \in Active THEN Snapshot(t, "failed", "request") ELSE UNCHANGED writes
      BY <2>5, <3>1 DEF MergeRow
    <3>3. mem'[x] = Merged(store'[x]) /\ store'[x] # "none"
      BY <1>t, <3>1, <3>2, StatusSplit
    <3>4. CASE loading[t] \in Active
      <4>1. writes'[x] = <<[status |-> "failed", by |-> "request"]>> /\ mem'[x] = "failed"
        BY <1>t, <3>1, <3>2, <3>4 DEF Snapshot, Merged
      <4> QED
        BY <3>3, <4>1
    <3>5. CASE loading[t] \notin Active
      <4>1. DOMAIN writes'[x] = {}
        BY <3>1, <3>2, <3>5
      <4> QED
        BY <3>3, <4>1
    <3> QED
      BY <3>4, <3>5
  <2>6. CASE JobStep(t)
    BY <1>j, <2>6 DEF JobStep, JobTick, JobMarkPaused
  <2>7. CASE StoreStep(t)
    <3>1. /\ UNCHANGED <<mem, reloaded, jpc>> /\ writes[x] # <<>> /\ writes'[x] = Tail(writes[x])
          /\ store'[x] \in {store[x], Head(writes[x]).status}
      BY <1>t, <2>7, StoreShape
    <3>2. /\ store[x] \in Status /\ mem[x] = Merged(store[x])
          /\ \A i \in DOMAIN writes[x] : writes[x][i].status = mem[x]
      BY <1>t, <3>1 DEF Echo
    <3>3. mem[x] \in Terminal /\ Merged(mem[x]) = mem[x]
      BY <3>2, MergedEnds, StatusSplit
    <3> DEFINE q == writes[x]
    <3>4. q \in Seq(Entry) /\ q # <<>>
      BY <1>t, <3>1
    <3> HIDE DEF q
    <3>5. /\ 1 \in DOMAIN q /\ Head(q) = q[1]
          /\ \A i \in DOMAIN Tail(q) : i + 1 \in DOMAIN q /\ Tail(q)[i] = q[i + 1]
      BY <3>4, HeadTailProperties, LenProperties, EmptySeq
    <3>6. Head(q).status = mem[x] /\ \A i \in DOMAIN Tail(q) : Tail(q)[i].status = mem[x]
      BY <3>2, <3>5 DEF q
    <3>7. store'[x] # "none" /\ mem[x] = Merged(store'[x])
      BY <3>1, <3>2, <3>3, <3>6, StatusSplit DEF q
    <3> QED
      BY <3>1, <3>6, <3>7 DEF q
  <2> QED
    BY <1>3, <2>2, <2>3, <2>4, <2>5, <2>6, <2>7 DEF RequestStep
<1>4. CASE Browse
  <2>1. mem'[x] = mem[x] \/ mem'[x] = "absent"
    BY <1>t, <1>4, CleanedRests DEF Browse
  <2>2. UNCHANGED <<reloaded, store, writes, jpc>>
    BY <1>4 DEF Browse
  <2> QED
    BY <1>t, <2>1, <2>2 DEF Echo
<1>5. CASE Restart
  BY <1>t, <1>5, RestartTells DEF Echo
<1> QED
  BY <1>1, <1>2, <1>3, <1>4, <1>5 DEF Next, Request
-----------------------------------------------------------------------------
(* Every step is one of the life *)

\* What is told of a task.
LEMMA Looks ==
  ASSUME NEW x \in TaskId
  PROVE  /\ Shown[x] = IF mem[x] # "absent" THEN mem[x]
                       ELSE IF store[x] = "none" THEN "none" ELSE Merged(store[x])
         /\ Shown'[x] = IF mem'[x] # "absent" THEN mem'[x]
                        ELSE IF store'[x] = "none" THEN "none" ELSE Merged(store'[x])
         /\ Kept[x] = (IF store[x] \in Terminal THEN store[x] ELSE "none")
         /\ Kept'[x] = (IF store'[x] \in Terminal THEN store'[x] ELSE "none")
  BY DEF Shown, Kept

LEMMA LifeStatuses == Life!Unfinished = Active /\ Life!Finished = Terminal
  BY DEF Life!Unfinished, Life!Finished, Active, Terminal

\* A task is shown as unfinished if its record is active.
LEMMA UnfinishedIsActive ==
  ASSUME TypeOK, NEW x \in TaskId
  PROVE  Shown[x] \in Active <=> mem[x] \in Active
<1>1. store[x] \in Status \cup {"none"} /\ mem[x] \in Status \cup {"absent"}
  BY DEF TypeOK
<1>2. store[x] # "none" => Merged(store[x]) \in Terminal
  BY <1>1, MergedEnds
<1> QED
  BY <1>1, <1>2, Looks, StatusSplit DEF Active

\* The clean-up of a record is not to be seen, unless the end it had was lost.
LEMMA RestIsUnseen ==
  ASSUME LifeInv, NEW x \in TaskId, AtRest(x), jpc'[x] = jpc[x]
  PROVE  Life!Rests(x)
<1> SUFFICES ASSUME jpc[x] = "none" PROVE Life!Same(x) \/ Life!Lost(x)
  BY DEF Life!Rests
<1>t. /\ RowAt(x) /\ Echo(x) /\ store[x] \in Status \cup {"none"} /\ mem[x] \in Status \cup {"absent"}
      /\ unlogged[x] \in Nat
  BY LimitAssumption DEF LifeInv, RowInv, LInv, TypeOK
<1>1. store'[x] = store[x] /\ Kept'[x] = Kept[x]
  BY Looks DEF AtRest
<1>2. CASE mem'[x] = mem[x]
  BY <1>1, <1>2, Looks DEF Life!Same
<1>3. CASE mem'[x] # mem[x]
  <2>1. mem'[x] = "absent" /\ mem[x] \in Terminal /\ writes[x] = <<>> /\ unlogged[x] = 0
    BY <1>t, <1>3 DEF AtRest, Writing
  <2>2. Shown[x] = mem[x] /\ mem[x] # "absent"
    BY <2>1, Looks, StatusSplit
  <2>3. CASE reloaded[x]
    <3>1. store[x] # "none" /\ mem[x] = Merged(store[x])
      BY <2>2, <2>3, <1>t DEF Echo
    <3> QED
      BY <1>1, <2>1, <2>2, <3>1, Looks DEF Life!Same
  <2>4. CASE ~reloaded[x] /\ store[x] \in Terminal
    <3>1. store[x] = mem[x] /\ Merged(store[x]) = store[x]
      BY <1>t, <2>2, <2>4, MergedEnds, StatusSplit DEF RowAt, EndIsFinal
    <3>2. Shown'[x] = Shown[x]
      BY <1>1, <2>1, <2>2, <2>4, <3>1, Looks, StatusSplit
    <3> QED
      BY <1>1, <3>2 DEF Life!Same
  <2>5. CASE ~reloaded[x] /\ store[x] \notin Terminal
    <3>1. failures # 0
      BY <1>t, <2>1, <2>2, <2>5 DEF RowAt, Current
    <3>2. Shown'[x] \in {"failed", "none"}
      BY <1>t, <1>1, <2>1, <2>5, Looks, MergedEnds, StatusSplit
    <3>3. Kept[x] = "none" /\ Kept'[x] = "none" /\ Shown[x] \in Terminal
      BY <1>1, <2>1, <2>2, <2>5, Looks
    <3> QED
      BY <3>1, <3>2, <3>3, LifeStatuses DEF Life!Lost
  <2> QED
    BY <2>3, <2>4, <2>5
<1> QED
  BY <1>2, <1>3

LEMMA LifeInit == Init => Life!Init
<1> SUFFICES ASSUME Init PROVE Life!Init
  OBVIOUS
<1>1. \A x \in TaskId : mem[x] = "absent" /\ store[x] = "none" /\ jpc[x] = "none"
  BY DEF Init
<1>2. Shown = [x \in TaskId |-> "none"] /\ Kept = [x \in TaskId |-> "none"]
  BY <1>1 DEF Shown, Kept, Terminal
<1> QED
  BY <1>1, <1>2 DEF Init, Life!Init

\* Both modules count with the same Cardinality.
LEMMA LifeCounts == \A S : Life!Cardinality(S) = Cardinality(S)
  BY DEF Life!Cardinality, Cardinality

LEMMA LifeStart ==
  ASSUME LifeInv, NEW t \in TaskId, Start(t)
  PROVE  \E u \in User : Life!Begin(t, u)
<1>t. TypeOK /\ RowAt(t) /\ mem \in [TaskId -> Status \cup {"absent"}]
  BY DEF LifeInv, RowInv, LInv, TypeOK
<1>1. /\ mem'[t] = "pending" /\ UNCHANGED <<store, jpc, failures>> /\ \A x \in TaskId \ {t} : AtRest(x)
      /\ owner[t] = Nobody
  BY <1>t, StartShape DEF Start
<1>2. PICK u \in User, m \in [TaskId -> Status \cup {"absent"}] :
        /\ owner' = [owner EXCEPT ![t] = u]
        /\ ~HasActive(m, u) /\ CountActive(m) < MaxActive
        /\ \A x \in TaskId : m[x] = mem[x] \/ (m[x] = "absent" /\ mem[x] \in Terminal)
  BY <1>t, StartShape
<1>3. mem[t] = "absent" /\ store[t] = "none"
  BY <1>t, <1>1 DEF RowAt, Coherent
<1>4. \A x \in TaskId : Shown[x] \in Active <=> m[x] \in Active
  BY <1>t, <1>2, UnfinishedIsActive, StatusSplit DEF Active
<1>5. ~ \E x \in TaskId : owner[x] = u /\ Shown[x] \in Active
  BY <1>2, <1>4 DEF HasActive
<1>6. {x \in TaskId : Shown[x] \in Active} = {x \in TaskId : m[x] \in Active}
  BY <1>4
<1>7. Cardinality({x \in TaskId : Shown[x] \in Active}) < MaxActive
  BY <1>2, <1>6 DEF CountActive
<1>8. Shown[t] = "none" /\ Shown'[t] = "pending" /\ Kept'[t] = "none"
  BY <1>1, <1>3, Looks DEF Terminal
<1>9. \A x \in TaskId \ {t} : Life!Rests(x)
  BY <1>1, RestIsUnseen
<1>10. Life!OthersRest(t)
  BY <1>9 DEF Life!OthersRest
<1>11. Life!Begin(t, u)
  BY <1>1, <1>2, <1>5, <1>7, <1>8, <1>10, LifeStatuses, LifeCounts DEF Life!Begin
<1> QED
  BY <1>11

\* Where record and row stay as they are, there is nothing to be seen.
LEMMA LifeStutters ==
  ASSUME UNCHANGED <<owner, mem, store, failures>>,
         {x \in TaskId : jpc[x] # "none"}' = {x \in TaskId : jpc[x] # "none"}
  PROVE  UNCHANGED Life!vars
  BY DEF Life!vars, Shown, Kept

\* An active record gets another status.
LEMMA LifeMoves ==
  ASSUME LifeInv, NEW t \in TaskId, UNCHANGED <<owner, store, jpc, failures>>,
         \A x \in TaskId \ {t} : AtRest(x),
         UNCHANGED mem \/ (mem[t] \in Active /\ \E s \in Status : mem' = [mem EXCEPT ![t] = s])
  PROVE  [Life!Next]_Life!vars
<1>1. CASE UNCHANGED mem
  BY <1>1, LifeStutters
<1>2. CASE mem[t] \in Active /\ \E s \in Status : mem' = [mem EXCEPT ![t] = s]
  <2>1. mem \in [TaskId -> Status \cup {"absent"}]
    BY DEF LifeInv, RowInv, LInv, TypeOK
  <2>2. mem[t] \in Active /\ mem'[t] \in Status
    BY <1>2, <2>1
  <2>3. Shown[t] \in Active /\ Shown'[t] \in Status /\ Kept'[t] = Kept[t]
    BY <2>2, Looks, StatusSplit
  <2>4. \A x \in TaskId \ {t} : Life!Rests(x)
    BY RestIsUnseen
  <2>5. Life!Move(t)
    BY <2>3, <2>4, LifeStatuses DEF Life!Move, Life!OthersRest, Status
  <2> QED
    BY <2>5 DEF Life!Next
<1> QED
  BY <1>1, <1>2

\* A snapshot leaves: if it tells of an end, that end is kept.
LEMMA LifeStores ==
  ASSUME LifeInv, NEW t \in TaskId, StoreStep(t)
  PROVE  Life!Next
<1>t. /\ TypeOK /\ RowAt(t) /\ writes[t] \in Seq(Entry) /\ store[t] \in Status \cup {"none"}
      /\ mem[t] \in Status \cup {"absent"}
  BY DEF LifeInv, RowInv, LInv, TypeOK, Entry, Writer
<1>1. /\ UNCHANGED <<owner, mem, reloaded, jpc>>
      /\ writes[t] # <<>> /\ store'[t] \in {store[t], Head(writes[t]).status}
      /\ (failures' # 0) \in {failures # 0, TRUE}
  BY <1>t, StoreShape
<1>2. \A x \in TaskId \ {t} : Life!Rests(x)
  BY <1>t, <1>1, OtherRests, RestIsUnseen
<1>3. mem[t] # "absent"
  BY <1>t, <1>1 DEF RowAt, Coherent
<1>4. Shown[t] = mem[t] /\ Shown'[t] = mem[t]
  BY <1>1, <1>3, Looks
<1>5. Life!Rests(t) => Life!Rest
  BY <1>1, <1>2 DEF Life!Rest
<1>6. CASE jpc[t] # "none" \/ store'[t] = store[t]
  BY <1>1, <1>4, <1>5, <1>6, Looks DEF Life!Next, Life!Rests, Life!Same
<1>7. CASE jpc[t] = "none" /\ store'[t] # store[t]
  <2>1. 1 \in DOMAIN writes[t] /\ Head(writes[t]) = writes[t][1]
    BY <1>t, <1>1, HeadTailProperties, LenProperties, EmptySeq
  <2>2. /\ store[t] \notin Terminal
        /\ store'[t] \in Terminal => store'[t] = mem[t]
    BY <1>t, <1>1, <1>7, <2>1 DEF RowAt, EndIsFinal
  <2>3. CASE store'[t] \in Terminal
    <3>1. Life!Keep(t)
      BY <1>1, <1>2, <1>4, <2>2, <2>3, Looks, LifeStatuses DEF Life!Keep, Life!OthersRest
    <3> QED
      BY <3>1 DEF Life!Next
  <2>4. CASE store'[t] \notin Terminal
    BY <1>4, <1>5, <2>2, <2>4, Looks DEF Life!Next, Life!Rests, Life!Same
  <2> QED
    BY <2>3, <2>4
<1> QED
  BY <1>6, <1>7

\* What comes up again are the rows.
LEMMA LifeCrashes ==
  ASSUME LifeInv, Restart
  PROVE  Life!Crash
<1>t. TypeOK
  BY DEF LifeInv, RowInv, LInv
<1>1. /\ UNCHANGED owner /\ (failures' # 0) \in {failures # 0, TRUE}
      /\ {x \in TaskId : jpc[x] # "none"}' = {x \in TaskId : jpc[x] # "none"}
  BY <1>t, RestartTells, RestartCounts DEF Restart
<1>2. ASSUME NEW x \in TaskId, jpc[x] = "none"
      PROVE  \/ Life!Same(x) /\ Shown[x] \notin Active
             \/ Kept[x] = "none" /\ Shown[x] # "none" /\ Shown'[x] = "none" /\ Kept'[x] = "none"
             \/ /\ Kept[x] = "none" /\ Shown[x] # "none"
                /\ Shown'[x] = "failed" /\ Kept'[x] \in {"none", "failed"}
  <2>t. RowAt(x) /\ mem[x] \in Status \cup {"absent"} /\ store[x] \in Status \cup {"none"}
    BY <1>t DEF LifeInv, RowInv, TypeOK
  <2>r. /\ mem'[x] \in {"absent", IF store[x] = "none" THEN "absent" ELSE Merged(store[x])}
        /\ store'[x] = store[x] \/ (store[x] \in Active /\ store'[x] = "failed")
        /\ store'[x] = "none" <=> store[x] = "none"
        /\ store[x] # "none" => Merged(store'[x]) = Merged(store[x])
    BY <1>t, RestartTells
  <2>n. Shown'[x] = IF store[x] = "none" THEN "none" ELSE Merged(store[x])
    BY <2>t, <2>r, Looks, MergedEnds
  <2>1. CASE store[x] = "none"
    <3>1. Shown'[x] = "none" /\ Kept[x] = "none" /\ Kept'[x] = "none"
      BY <2>n, <2>r, <2>1, Looks DEF Terminal
    <3> QED
      BY <3>1 DEF Life!Same, Active
  <2>2. CASE store[x] \in Terminal
    <3>1. Merged(store[x]) = store[x] /\ store'[x] = store[x] /\ mem[x] \in {"absent", store[x]}
      BY <1>2, <2>t, <2>r, <2>2, MergedEnds, StatusSplit DEF RowAt, EndIsFinal
    <3>2. Shown[x] = store[x] /\ Shown'[x] = store[x] /\ Kept'[x] = Kept[x]
      BY <2>n, <2>2, <3>1, Looks, StatusSplit
    <3> QED
      BY <2>2, <3>2, StatusSplit DEF Life!Same
  <2>3. CASE store[x] \in Active
    <3>1. Merged(store[x]) = "failed" /\ store[x] # "none" /\ store[x] \notin Terminal
      BY <2>3, MergedEnds, StatusSplit
    <3>2. Shown[x] # "none" /\ Kept[x] = "none" /\ Shown'[x] = "failed"
      BY <2>n, <2>t, <3>1, Looks, StatusSplit
    <3>3. Kept'[x] \in {"none", "failed"}
      BY <2>r, <3>1, Looks
    <3> QED
      BY <3>2, <3>3
  <2> QED
    BY <2>t, <2>1, <2>2, <2>3, StatusSplit
<1> QED
  BY <1>1, <1>2, LifeStatuses DEF Life!Crash

LEMMA LifeStep == LifeInv /\ [Next]_vars => [Life!Next]_Life!vars
<1> SUFFICES ASSUME LifeInv, [Next]_vars PROVE [Life!Next]_Life!vars
  OBVIOUS
<1> USE DEF record, work
<1>t. TypeOK /\ LInv /\ \A x \in TaskId : RowAt(x)
  BY DEF LifeInv, RowInv, LInv
<1>1. ASSUME NEW t \in TaskId, Start(t) PROVE Life!Next
  BY <1>1, LifeStart DEF Life!Next
<1>2. ASSUME NEW t \in TaskId, WorkerStep(t) PROVE [Life!Next]_Life!vars
  <2>1. mem[t] \in Active /\ UNCHANGED <<owner, store, jpc, failures>>
        /\ \A x \in TaskId \ {t} : AtRest(x)
    BY <1>t, <1>2, WorkerShape
  <2>2. UNCHANGED mem \/ \E s \in Status : mem' = [mem EXCEPT ![t] = s]
    BY <1>t, <1>2, WorkerShape
  <2> QED
    BY <2>1, <2>2, LifeMoves
<1>3. ASSUME NEW t \in TaskId, Pause(t) \/ Resume(t) \/ Stop(t) PROVE [Life!Next]_Life!vars
  <2>1. UNCHANGED <<owner, store, jpc, failures>> /\ \A x \in TaskId \ {t} : AtRest(x)
    BY <1>t, <1>3, RequestShape, OtherRests
  <2>2. UNCHANGED mem \/ (mem[t] \in Active /\ \E s \in Status : mem' = [mem EXCEPT ![t] = s])
    BY <1>t, <1>3, RequestShape, StatusSplit
  <2> QED
    BY <2>1, <2>2, LifeMoves
<1>4. ASSUME NEW t \in TaskId, LoadRow(t) \/ AppendLog(t) PROVE UNCHANGED Life!vars
  BY <1>4, LifeStutters DEF LoadRow, AppendLog
<1>5. ASSUME NEW t \in TaskId, MergeRow(t) PROVE UNCHANGED Life!vars
  <2>1. mem \in [TaskId -> Status \cup {"absent"}] /\ store \in [TaskId -> Status \cup {"none"}]
    BY <1>t DEF TypeOK
  <2>2. mem[t] = "absent" /\ loading[t] = store[t] /\ store[t] # "none"
    BY <1>t, <1>5 DEF MergeRow, RowAt, Coherent
  <2>3. mem' = [mem EXCEPT ![t] = Merged(store[t])] /\ UNCHANGED <<owner, store, jpc, failures>>
    BY <1>5, <2>2 DEF MergeRow
  <2>4. Merged(store[t]) # "absent"
    BY <2>1, <2>2, MergedEnds
  <2>5. \A x \in TaskId : Shown'[x] = Shown[x]
    BY <2>1, <2>2, <2>3, <2>4, Looks
  <2>6. Shown' = Shown /\ Kept' = Kept
    BY <2>3, <2>5 DEF Shown, Kept
  <2> QED
    BY <2>3, <2>6 DEF Life!vars
<1>6. ASSUME NEW t \in TaskId, LeaveJobThread(t) \/ JobMarkPaused(t) PROVE Life!Haunt(t)
  <2>1. UNCHANGED <<owner, failures>> /\ \A x \in TaskId \ {t} : AtRest(x) /\ jpc'[x] = jpc[x]
    BY <1>t, <1>6, OtherRests DEF JobStep, LeaveJobThread, JobMarkPaused, TypeOK
  <2>2. jpc'[t] # "none"
    BY <1>t, <1>6 DEF LeaveJobThread, JobMarkPaused, TypeOK
  <2>3. {x \in TaskId : jpc[x] # "none"}' = {x \in TaskId : jpc[x] # "none"} \cup {t}
    BY <2>1, <2>2
  <2>4. \A x \in TaskId \ {t} : Life!Rests(x)
    BY <2>1, RestIsUnseen
  <2> QED
    BY <2>1, <2>3, <2>4 DEF Life!Haunt, Life!OthersRest
<1>7. ASSUME NEW t \in TaskId, JobTick(t) PROVE UNCHANGED Life!vars
  <2>1. UNCHANGED <<owner, mem, store, failures>>
        /\ \A x \in TaskId : jpc'[x] # "none" <=> jpc[x] # "none"
    BY <1>t, <1>7 DEF JobTick, TypeOK
  <2> QED
    BY <2>1, LifeStutters
<1>8. CASE Browse
  <2>1. mem \in [TaskId -> Status \cup {"absent"}]
    BY <1>t DEF TypeOK
  <2>2. \A x \in TaskId :
          mem'[x] = mem[x] \/ (mem'[x] = "absent" /\ mem[x] \in Terminal /\ x \notin Writing)
    BY <1>8, <2>1, CleanedRests DEF Browse
  <2>3. UNCHANGED <<owner, store, writes, loading, unlogged, reloaded, jpc, failures>>
    BY <1>8 DEF Browse
  <2>4. \A x \in TaskId : Life!Rests(x)
    BY <2>2, <2>3, RestIsUnseen DEF AtRest
  <2>5. Life!Rest
    BY <2>3, <2>4 DEF Life!Rest
  <2> QED
    BY <2>5 DEF Life!Next
<1>9. CASE UNCHANGED vars
  BY <1>9, LifeStutters DEF vars
<1>10. CASE \E t \in TaskId : Request(t)
  <2>1. PICK t \in TaskId : Start(t) \/ Pause(t) \/ Resume(t) \/ Stop(t) \/ LoadRow(t)
    BY <1>10 DEF Request
  <2> QED
    BY <2>1, <1>1, <1>3, <1>4
<1>11. CASE \E t \in TaskId : RequestStep(t) \/ WorkerStep(t)
  <2>1. PICK t \in TaskId : AppendLog(t) \/ MergeRow(t) \/ WorkerStep(t)
    BY <1>11 DEF RequestStep
  <2> QED
    BY <2>1, <1>2, <1>4, <1>5
<1>12. CASE \E t \in TaskId : LeaveJobThread(t) \/ JobStep(t)
  <2>1. PICK t \in TaskId : LeaveJobThread(t) \/ JobTick(t) \/ JobMarkPaused(t)
    BY <1>12 DEF JobStep
  <2>2. Life!Haunt(t) => Life!Next
    BY DEF Life!Next
  <2> QED
    BY <2>1, <2>2, <1>6, <1>7
<1>13. CASE \E t \in TaskId : StoreStep(t)
  BY <1>13, LifeStores
<1>14. CASE Restart
  BY <1>14, LifeCrashes DEF Life!Next
<1> QED
  BY <1>8, <1>9, <1>10, <1>11, <1>12, <1>13, <1>14 DEF Next

\* What the users of a learning task rely on (TaskLife.tla) is what
\* ChaoxingLearningManager does, whatever its threads, clean-ups, writes and
\* restarts do meanwhile.
THEOREM LifeKept == Spec => LivesAsPromised
<1>1. Init => LifeInv
  BY RowInit, EchoInit DEF LifeInv
<1>2. LifeInv /\ TypeOK' /\ [Next]_vars => LifeInv'
  <2> SUFFICES ASSUME LifeInv, TypeOK', [Next]_vars PROVE LifeInv'
    OBVIOUS
  <2>1. RowInv'
    BY RowKept DEF LifeInv
  <2>2. CASE Next
    BY <2>1, <2>2, EchoKept DEF LifeInv
  <2>3. CASE UNCHANGED vars
    BY <2>1, <2>3 DEF LifeInv, Echo, vars, record
  <2> QED
    BY <2>2, <2>3
<1> QED
  BY <1>1, <1>2, LearningTypes, LifeInit, LifeStep, PTL DEF Spec, LivesAsPromised, Life!Spec

-----------------------------------------------------------------------------
(* The rate limiter *)

Busy == {t \in Thread : request[t] # Limiter!Idle}
AtDb == {t \in Thread : request[t].at = "db"}

\* The requests a client was let through by the table: the first ones of each
\* window, up to the limit.
Passed(c) == {p \in Limiter!Windows \X (1 .. Limit) : p[2] <= rows[c][p[1]]}

\* The passes that are left of the client's window in memory.
Left(c) == IF c \in DOMAIN cache THEN Limit - cache[c].count ELSE 0

\* A client was let through by the table or in memory, no oftener than either says.
PassesCounted ==
    \A c \in Client : admitted[c] + Left(c) <= Cardinality(Passed(c)) + Limit * entries[c]

\* Nothing is counted twice for a request; one under way is not counted yet.
CallsCounted ==
    \A c \in Client :
        /\ \A w \in Limiter!Windows : rows[c][w] + Cardinality(AtDb) <= calls
        /\ entries[c] + Cardinality(Busy) <= calls
        /\ admitted[c] + Cardinality(Busy) <= calls

\* A request adds a client to the memory at most; it arrived since the last
\* clean-up or was under way then.
MemoryCounted ==
    /\ IsFiniteSet(DOMAIN cache)
    /\ Cardinality(DOMAIN cache) + Cardinality(Busy)
        <= MaxCache + (calls % Interval) + Cardinality(Thread)

\* A request counts for its sender, at a time that has been.
OwnName == \A t \in Thread : request[t] # Limiter!Idle =>
    request[t].client = request[t].sender /\ request[t].now <= time

LimiterInv ==
    /\ Limiter!TypeOK /\ request \in [Thread -> Limiter!Requests]
    /\ OwnName /\ PassesCounted /\ CallsCounted /\ MemoryCounted

LEMMA Remainder ==
  ASSUME NEW x \in Nat, NEW i \in Nat \ {0}
  PROVE  /\ x % i \in 0 .. i - 1
         /\ x \div i \in Nat
         /\ x = i * (x \div i) + (x % i)
  OBVIOUS

LEMMA NextRemainder ==
  ASSUME NEW x \in Nat, NEW i \in Nat \ {0}
  PROVE  (x + 1) % i = 0 \/ (x + 1) % i = (x % i) + 1
<1> DEFINE q == x \div i
           r == x % i
           p == (x + 1) \div i
           s == (x + 1) % i
<1>1. r \in 0 .. i - 1 /\ q \in Nat /\ x = i * q + r
  BY Remainder
<1>2. s \in 0 .. i - 1 /\ p \in Nat /\ x + 1 = i * p + s
  <2>1. x + 1 \in Nat
    OBVIOUS
  <2> QED
    BY <2>1, Remainder
<1> HIDE DEF q, r, p, s
<1>3. i * (p - q) = r + 1 - s
  BY <1>1, <1>2
<1>4. CASE p = q
  BY <1>1, <1>2, <1>3, <1>4 DEF s, r
<1>5. CASE p > q
  <2>1. i * (p - q) >= i
    BY <1>1, <1>2, <1>5
  <2> QED
    BY <1>1, <1>2, <1>3, <2>1 DEF s
<1>6. CASE p < q
  <2>1. i * (p - q) <= 0 - i
    BY <1>1, <1>2, <1>6
  <2> QED
    BY <1>1, <1>2, <1>3, <2>1
<1> QED
  BY <1>1, <1>2, <1>4, <1>5, <1>6

LEMMA WindowStarts ==
  ASSUME NEW t \in 0 .. MaxTime
  PROVE  Limiter!WindowOf(t) \in Limiter!Windows
<1>0. Window \in Nat \ {0} /\ MaxTime \in Nat /\ t \in Nat
  BY LimiterAssumption
<1>1. t \div Window \in Nat /\ t = Window * (t \div Window) + (t % Window) /\ t % Window \in 0 .. Window - 1
  BY <1>0, Remainder
<1> DEFINE s == (t \div Window) * Window
<1>2. s \in 0 .. MaxTime
  BY <1>0, <1>1
<1>3. s % Window = 0
  BY <1>0, <1>1
<1> QED
  BY <1>2, <1>3 DEF Limiter!WindowOf, Limiter!Windows

LEMMA OwnHop ==
  ASSUME NEW c \in Client, NEW hops \in Limiter!Chains(c)
  PROVE  Limiter!ClientHop(hops) = c
<1> DEFINE Untrusted == {i \in DOMAIN hops : hops[i] # Proxy}
           Ends(n) == /\ DOMAIN hops \subseteq Int /\ n \in Int /\ hops[n] = c
                      /\ \A k \in DOMAIN hops : k > n => hops[k] = Proxy
<1>0. c # Proxy
  BY LimiterAssumption
<1>1. PICK claim \in {<<>>} \cup {<<a>> : a \in Limiter!Addresses}, own \in {<<>>, <<Proxy>>} :
        hops = claim \o <<c>> \o own
  BY DEF Limiter!Chains
<1>2. \E n \in DOMAIN hops : Ends(n)
  <2> DEFINE S == Limiter!Addresses
             n == Len(claim) + 1
  <2>1. /\ claim \in Seq(S) /\ <<c>> \in Seq(S) /\ own \in Seq(S)
        /\ Len(<<c>>) = 1 /\ <<c>>[1] = c
        /\ \A k \in 1 .. Len(own) : own[k] = Proxy
    <3>1. c \in S /\ Proxy \in S
      BY DEF Limiter!Addresses
    <3>2. claim \in Seq(S) /\ <<c>> \in Seq(S) /\ Len(<<c>>) = 1 /\ <<c>>[1] = c
      <4>1. CASE claim = <<>>
        BY <3>1, <4>1
      <4>2. ASSUME NEW a \in S, claim = <<a>> PROVE claim \in Seq(S)
        BY <4>2
      <4> QED
        BY <3>1, <4>1, <4>2
    <3>3. own \in Seq(S) /\ \A k \in 1 .. Len(own) : own[k] = Proxy
      <4>1. CASE own = <<>>
        BY <4>1
      <4>2. CASE own = <<Proxy>>
        BY <3>1, <4>2
      <4> QED
        BY <4>1, <4>2
    <3> QED
      BY <3>2, <3>3
  <2>2. /\ claim \o <<c>> \in Seq(S) /\ Len(claim) \in Nat /\ Len(claim \o <<c>>) = n
        /\ (claim \o <<c>>)[n] = c
    <3> HIDE DEF S
    <3>1. Len(claim) \in Nat
      BY <2>1, LenProperties
    <3> QED
      BY <2>1, <3>1, ConcatProperties
  <2>3. /\ hops \in Seq(S) /\ Len(hops) = n + Len(own) /\ Len(own) \in Nat
        /\ \A k \in 1 .. n + Len(own) :
              hops[k] = IF k <= n THEN (claim \o <<c>>)[k] ELSE own[k - n]
    <3> HIDE DEF S, n
    <3>1. Len(own) \in Nat
      BY <2>1, LenProperties
    <3> QED
      <4> DEFINE front == claim \o <<c>>
      <4>1. front \in Seq(S) /\ Len(front) = n
        BY <2>2
      <4>2. hops = front \o own
        BY <1>1
      <4> HIDE DEF front
      <4>3. /\ front \o own \in Seq(S) /\ Len(front \o own) = Len(front) + Len(own)
            /\ \A k \in 1 .. Len(front) + Len(own) : (front \o own)[k] =
                  IF k <= Len(front) THEN front[k] ELSE own[k - Len(front)]
        BY <2>1, <4>1, ConcatProperties
      <4>4. /\ hops \in Seq(S) /\ Len(hops) = n + Len(own)
            /\ \A k \in 1 .. n + Len(own) : hops[k] = IF k <= n THEN front[k] ELSE own[k - n]
        BY <4>1, <4>2, <4>3
      <4> QED
        BY <3>1, <4>4 DEF front
  <2>4. DOMAIN hops = 1 .. n + Len(own) /\ n \in Nat /\ n \in DOMAIN hops
    BY <2>2, <2>3, LenProperties
  <2>5. \A k \in DOMAIN hops : k > n => hops[k] = Proxy
    BY <2>1, <2>2, <2>3, <2>4
  <2> QED
    BY <2>2, <2>3, <2>4, <2>5
<1>3. PICK n \in DOMAIN hops : /\ DOMAIN hops \subseteq Int /\ n \in Int /\ hops[n] = c
                               /\ \A k \in DOMAIN hops : k > n => hops[k] = Proxy
  BY <1>2
<1>4. n \in Untrusted /\ \A k \in Untrusted : k <= n
  BY <1>0, <1>3
<1>5. \A m \in Untrusted : (\A k \in Untrusted : k <= m) => m = n
  BY <1>3, <1>4
<1>6. (CHOOSE i \in Untrusted : \A k \in Untrusted : k <= i) = n
  BY <1>4, <1>5
<1> QED
  BY <1>3, <1>6 DEF Limiter!ClientHop

LEMMA LimiterConstants ==
  /\ IsFiniteSet(Thread) /\ Cardinality(Thread) \in Nat
  /\ Limit \in Nat /\ Limit >= 1 /\ Window \in Nat /\ Window >= 1 /\ Interval \in Nat /\ Interval >= 1
  /\ MaxCache \in Nat /\ MaxTime \in Nat /\ MaxCalls \in Nat
  /\ IsFiniteSet(Limiter!Windows)
<1>1. IsFiniteSet(Thread) /\ Cardinality(Thread) \in Nat
  BY LimiterAssumption, FS_CardinalityType
<1>2. /\ Limit \in Nat /\ Limit >= 1 /\ Window \in Nat /\ Window >= 1 /\ Interval \in Nat /\ Interval >= 1
      /\ MaxCache \in Nat /\ MaxTime \in Nat /\ MaxCalls \in Nat
  BY LimiterAssumption
<1>3. IsFiniteSet(Limiter!Windows)
  <2>1. Limiter!Windows \in SUBSET (0 .. MaxTime) /\ 0 \in Int /\ MaxTime \in Int
    BY <1>2 DEF Limiter!Windows
  <2> QED
    BY <2>1, FS_Interval, FS_Subset
<1> QED
  BY <1>1, <1>2, <1>3

\* How a step of a request changes the numbers of requests under way.
LEMMA RequestMoves ==
  ASSUME request \in [Thread -> Limiter!Requests], NEW t \in Thread, NEW r,
         request' = [request EXCEPT ![t] = r]
  PROVE  /\ Cardinality(Busy) \in Nat /\ Cardinality(AtDb) \in Nat
         /\ Cardinality(Busy) <= Cardinality(Thread)
         /\ Cardinality(Busy') <= Cardinality(Thread)
         /\ request[t] = Limiter!Idle /\ r # Limiter!Idle /\ r.at = "db" =>
              /\ Cardinality(Busy') = Cardinality(Busy) + 1
              /\ Cardinality(AtDb') = Cardinality(AtDb) + 1
         /\ request[t].at = "db" /\ r = Limiter!Idle =>
              /\ Cardinality(Busy') = Cardinality(Busy) - 1
              /\ Cardinality(AtDb') = Cardinality(AtDb) - 1
         /\ request[t].at = "db" /\ r # Limiter!Idle /\ r.at = "memory" =>
              /\ Cardinality(Busy') = Cardinality(Busy)
              /\ Cardinality(AtDb') = Cardinality(AtDb) - 1
         /\ request[t].at = "memory" /\ r = Limiter!Idle =>
              /\ Cardinality(Busy') = Cardinality(Busy) - 1
              /\ Cardinality(AtDb') = Cardinality(AtDb)
<1>1. /\ Busy \in SUBSET Thread /\ AtDb \in SUBSET Thread /\ Busy' \in SUBSET Thread
      /\ IsFiniteSet(Busy) /\ IsFiniteSet(AtDb)
      /\ Cardinality(Busy) \in Nat /\ Cardinality(AtDb) \in Nat
      /\ Cardinality(Busy) <= Cardinality(Thread) /\ Cardinality(Busy') <= Cardinality(Thread)
  <2>1. Busy \in SUBSET Thread /\ AtDb \in SUBSET Thread /\ Busy' \in SUBSET Thread
    BY DEF Busy, AtDb
  <2> QED
    BY <2>1, LimiterConstants, FS_Subset, FS_CardinalityType
<1>2. Busy' = IF r = Limiter!Idle THEN Busy \ {t} ELSE Busy \cup {t}
  BY DEF Busy
<1>3. AtDb' = IF r.at = "db" THEN AtDb \cup {t} ELSE AtDb \ {t}
  BY DEF AtDb
<1>4. /\ Limiter!Idle.at = "idle"
      /\ t \in Busy <=> request[t] # Limiter!Idle
      /\ t \in AtDb <=> request[t].at = "db"
  BY DEF Busy, AtDb, Limiter!Idle
<1>5. \A S : IsFiniteSet(S) =>
        /\ Cardinality(S \cup {t}) = IF t \in S THEN Cardinality(S) ELSE Cardinality(S) + 1
        /\ Cardinality(S \ {t}) = IF t \in S THEN Cardinality(S) - 1 ELSE Cardinality(S)
  BY FS_AddElement, FS_RemoveElement
<1> QED
  BY <1>1, <1>2, <1>3, <1>4, <1>5

LEMMA PassedFinite ==
  ASSUME NEW c \in Client
  PROVE  IsFiniteSet(Passed(c)) /\ Cardinality(Passed(c)) \in Nat
<1>1. IsFiniteSet(1 .. Limit) /\ IsFiniteSet(Limiter!Windows)
  BY LimiterConstants, FS_Interval
<1>2. IsFiniteSet(Limiter!Windows \X (1 .. Limit))
  BY <1>1, FS_Product
<1>3. Passed(c) \in SUBSET (Limiter!Windows \X (1 .. Limit))
  BY DEF Passed
<1> QED
  BY <1>2, <1>3, FS_Subset, FS_CardinalityType

\* A row counted up lets its client pass once more, below the limit.
LEMMA PassedGrows ==
  ASSUME rows \in [Client -> [Limiter!Windows -> 0 .. MaxCalls]],
         NEW c \in Client, NEW w \in Limiter!Windows, rows' = [rows EXCEPT ![c][w] = @ + 1],
         NEW d \in Client
  PROVE  /\ Cardinality(Passed(d)) \in Nat /\ Cardinality(Passed(d)') \in Nat
         /\ Cardinality(Passed(d)) <= Cardinality(Passed(d)')
         /\ d = c /\ rows[c][w] + 1 <= Limit => Cardinality(Passed(d)') = Cardinality(Passed(d)) + 1
<1>1. /\ rows'[c][w] = rows[c][w] + 1 /\ rows[c][w] \in Nat
      /\ \A v \in Limiter!Windows : rows[d][v] \in Nat /\ rows'[d][v] \in Nat /\ rows[d][v] <= rows'[d][v]
      /\ \A v \in Limiter!Windows : d # c \/ v # w => rows'[d][v] = rows[d][v]
  BY LimiterConstants
<1>2. IsFiniteSet(Limiter!Windows \X (1 .. Limit))
  <2>1. IsFiniteSet(1 .. Limit) /\ IsFiniteSet(Limiter!Windows)
    BY LimiterConstants, FS_Interval
  <2> QED
    BY <2>1, FS_Product
<1>3. /\ Passed(d) \in SUBSET (Limiter!Windows \X (1 .. Limit))
      /\ Passed(d)' \in SUBSET (Limiter!Windows \X (1 .. Limit))
      /\ Passed(d) \in SUBSET (Passed(d)')
  <2>1. \A p \in Limiter!Windows \X (1 .. Limit) : p[1] \in Limiter!Windows /\ p[2] \in Nat
    OBVIOUS
  <2>2. \A p \in Limiter!Windows \X (1 .. Limit) : p[2] <= rows[d][p[1]] => p[2] <= rows'[d][p[1]]
    BY <1>1, <2>1
  <2> QED
    BY <2>2 DEF Passed
<1>4. /\ IsFiniteSet(Passed(d)) /\ IsFiniteSet(Passed(d)')
      /\ Cardinality(Passed(d)) \in Nat /\ Cardinality(Passed(d)') \in Nat
      /\ Cardinality(Passed(d)) <= Cardinality(Passed(d)')
  BY <1>2, <1>3, FS_Subset, FS_CardinalityType
<1>5. CASE d = c /\ rows[c][w] + 1 <= Limit
  <2> DEFINE e == <<w, rows[c][w] + 1>>
  <2>1. e \in Limiter!Windows \X (1 .. Limit) /\ e \notin Passed(d)
    BY <1>1, <1>5, LimiterConstants DEF Passed
  <2>2. \A p \in Limiter!Windows \X (1 .. Limit) :
          p[2] <= rows'[d][p[1]] <=> p[2] <= rows[d][p[1]] \/ p = e
    <3> SUFFICES ASSUME NEW v \in Limiter!Windows, NEW i \in 1 .. Limit
                 PROVE  i <= rows'[d][v] <=> i <= rows[d][v] \/ (v = w /\ i = rows[c][w] + 1)
      OBVIOUS
    <3>1. CASE v = w
      <4>1. rows'[d][v] = rows[c][w] + 1 /\ rows[d][v] = rows[c][w] /\ rows[c][w] \in Nat
        BY <1>1, <1>5, <3>1
      <4>2. \A x \in Nat, j \in Int : j <= x + 1 <=> j <= x \/ j = x + 1
        OBVIOUS
      <4>3. i \in Int
        BY LimiterConstants
      <4> QED
        BY <3>1, <4>1, <4>2, <4>3
    <3>2. CASE v # w
      BY <1>1, <3>2
    <3> QED
      BY <3>1, <3>2
  <2>3. Passed(d)' = Passed(d) \cup {e}
    BY <2>1, <2>2 DEF Passed
  <2> QED
    BY <1>4, <2>1, <2>3, FS_AddElement
<1> QED
  BY <1>4, <1>5

LEMMA PassesOfWindows ==
  ASSUME LimiterInv, NEW c \in Client
  PROVE  LET W == {w \in Limiter!Windows : rows[c][w] > 0} IN
         /\ Cardinality(W) \in Nat
         /\ Cardinality(Passed(c)) <= Limit * Cardinality(W)
<1> DEFINE W == {w \in Limiter!Windows : rows[c][w] > 0}
<1>1. IsFiniteSet(W)
  BY LimiterConstants, FS_Subset
<1>2. IsFiniteSet(1 .. Limit) /\ Cardinality(1 .. Limit) = Limit
  BY LimiterConstants, FS_Interval
<1>3. IsFiniteSet(W \X (1 .. Limit)) /\ Cardinality(W \X (1 .. Limit)) = Cardinality(W) * Limit
  <2> HIDE DEF W
  <2> QED
    BY <1>1, <1>2, FS_Product
<1>4. Passed(c) \in SUBSET (W \X (1 .. Limit))
  <2>1. \A v \in Limiter!Windows, i \in 1 .. Limit : i <= rows[c][v] => rows[c][v] > 0
    BY LimiterConstants DEF LimiterInv, Limiter!TypeOK
  <2> QED
    BY <2>1 DEF Passed
<1>5. Cardinality(Passed(c)) <= Cardinality(W) * Limit /\ Cardinality(W) \in Nat
  BY <1>1, <1>3, <1>4, FS_Subset, FS_CardinalityType
<1> QED
  BY <1>5, LimiterConstants

-----------------------------------------------------------------------------
(* The steps of the limiter *)

LEMMA LimiterStarts ==
  ASSUME Limiter!Init
  PROVE  LimiterInv
<1>0. /\ time = 0 /\ calls = 0 /\ cache = <<>> /\ request = [t \in Thread |-> Limiter!Idle]
      /\ rows = [c \in Client |-> [w \in Limiter!Windows |-> 0]]
      /\ entries = [c \in Client |-> 0] /\ admitted = [c \in Client |-> 0]
  BY DEF Limiter!Init
<1>1. Busy = {} /\ AtDb = {} /\ DOMAIN cache = {}
  <2>1. Limiter!Idle.at = "idle"
    BY DEF Limiter!Idle
  <2> QED
    BY <1>0, <2>1 DEF Busy, AtDb
<1>2. IsFiniteSet({}) /\ Cardinality({}) = 0
  BY FS_EmptySet
<1>3. Limiter!TypeOK /\ request \in [Thread -> Limiter!Requests]
  BY <1>0, <1>1, LimiterConstants DEF Limiter!TypeOK, Limiter!Requests
<1>4. OwnName
  BY <1>0 DEF OwnName
<1>5. PassesCounted
  <2> SUFFICES ASSUME NEW c \in Client
               PROVE  admitted[c] + Left(c) <= Cardinality(Passed(c)) + Limit * entries[c]
    BY DEF PassesCounted
  <2>1. Passed(c) = {}
    BY <1>0, LimiterConstants DEF Passed
  <2>2. admitted[c] = 0 /\ Left(c) = 0 /\ entries[c] = 0
    BY <1>0, <1>1 DEF Left
  <2> QED
    BY <1>2, <2>1, <2>2, LimiterConstants
<1>6. CallsCounted
  BY <1>0, <1>1, <1>2 DEF CallsCounted
<1>7. MemoryCounted
  <2>1. calls % Interval \in 0 .. Interval - 1
    BY <1>0, LimiterConstants, Remainder
  <2> QED
    BY <1>1, <1>2, <2>1, LimiterConstants DEF MemoryCounted
<1> QED
  BY <1>3, <1>4, <1>5, <1>6, <1>7 DEF LimiterInv

LEMMA TimePasses ==
  ASSUME LimiterInv, Limiter!Tick
  PROVE  LimiterInv'
<1>1. /\ time' = time + 1 /\ time' \in 0 .. MaxTime /\ time \in Nat
      /\ UNCHANGED <<calls, rows, cache, request, entries, admitted>>
  BY LimiterConstants DEF LimiterInv, Limiter!TypeOK, Limiter!Tick
<1>2. Limiter!TypeOK' /\ (request \in [Thread -> Limiter!Requests])'
  BY <1>1 DEF LimiterInv, Limiter!TypeOK
<1>3. OwnName'
  <2>1. \A t \in Thread : request[t] # Limiter!Idle => request[t].now \in Int
    BY DEF LimiterInv, Limiter!Requests
  <2> QED
    BY <1>1, <2>1 DEF LimiterInv, OwnName
<1>4. PassesCounted' /\ CallsCounted' /\ MemoryCounted'
  BY <1>1 DEF LimiterInv, PassesCounted, CallsCounted, MemoryCounted, Passed, Left, Busy, AtDb
<1> QED
  BY <1>2, <1>3, <1>4 DEF LimiterInv

\* The facts of the invariant that a step starts from.
LEMMA LimiterFacts ==
  ASSUME LimiterInv, NEW t \in Thread
  PROVE  /\ time \in 0 .. MaxTime /\ calls \in 0 .. MaxCalls
         /\ rows \in [Client -> [Limiter!Windows -> 0 .. MaxCalls]]
         /\ DOMAIN cache \subseteq Client
         /\ \A c \in DOMAIN cache : cache[c].count \in 0 .. Limit /\ cache[c].start \in 0 .. MaxTime
         /\ request \in [Thread -> Limiter!Requests]
         /\ entries \in [Client -> 0 .. MaxCalls] /\ admitted \in [Client -> 0 .. MaxCalls]
         /\ IsFiniteSet(DOMAIN cache) /\ Cardinality(DOMAIN cache) \in Nat
         /\ request[t].at \in {"db", "memory"} =>
              /\ request[t] # Limiter!Idle
              /\ request[t].client \in Client /\ request[t].client = request[t].sender
              /\ request[t].now \in 0 .. MaxTime /\ request[t].now <= time
<1>1. Limiter!TypeOK /\ request \in [Thread -> Limiter!Requests] /\ OwnName
  BY DEF LimiterInv
<1>2. IsFiniteSet(DOMAIN cache) /\ Cardinality(DOMAIN cache) \in Nat
  BY FS_CardinalityType DEF LimiterInv, MemoryCounted
<1>3. \A c \in DOMAIN cache : cache[c].count \in 0 .. Limit /\ cache[c].start \in 0 .. MaxTime
  BY <1>1 DEF Limiter!TypeOK
<1>4. ASSUME request[t].at \in {"db", "memory"}
      PROVE  request[t] # Limiter!Idle /\ request[t].client \in Client /\ request[t].now \in 0 .. MaxTime
  <2>1. request[t] # Limiter!Idle
    BY <1>4 DEF Limiter!Idle
  <2> QED
    BY <1>1, <2>1 DEF Limiter!Requests
<1>5. /\ time \in 0 .. MaxTime /\ calls \in 0 .. MaxCalls
      /\ rows \in [Client -> [Limiter!Windows -> 0 .. MaxCalls]]
      /\ DOMAIN cache \subseteq Client
      /\ entries \in [Client -> 0 .. MaxCalls] /\ admitted \in [Client -> 0 .. MaxCalls]
  BY <1>1 DEF Limiter!TypeOK
<1> QED
  BY <1>1, <1>2, <1>3, <1>4, <1>5 DEF OwnName

\* A clean-up forgets clients and nothing else, until few enough are left.
LEMMA CleanUp ==
  ASSUME IsFiniteSet(DOMAIN cache), cache' \in Limiter!AfterCleanup
  PROVE  /\ DOMAIN cache' \subseteq DOMAIN cache
         /\ \A c \in DOMAIN cache' : cache'[c] = cache[c]
         /\ Cardinality(DOMAIN cache') <= MaxCache
<1> DEFINE live == {c \in DOMAIN cache : ~Limiter!Expired(cache[c].start, time)}
           Few(K) == Cardinality(K) <= MaxCache /\ K \in SUBSET live
<1>1. \A K : Limiter!KeepOnly(K) = [c \in K |-> cache[c]]
  BY DEF Limiter!KeepOnly
<1>2. \A S : Limiter!Cardinality(S) = Cardinality(S)
  BY DEF Limiter!Cardinality, Cardinality
<1>3. \E K : Few(K) /\ cache' = [c \in K |-> cache[c]]
  <2>1. CASE Cardinality(live) <= MaxCache
    <3>1. cache' \in {Limiter!KeepOnly(live)}
      BY <1>2, <2>1 DEF Limiter!AfterCleanup
    <3> QED
      BY <1>1, <2>1, <3>1
  <2>2. CASE ~ (Cardinality(live) <= MaxCache)
    <3>1. cache' \in {Limiter!KeepOnly(K) : K \in {K \in SUBSET live :
            /\ Limiter!Cardinality(K) = MaxCache
            /\ \A c \in K, d \in live \ K : cache[d].start <= cache[c].start}}
      BY <1>2, <2>2 DEF Limiter!AfterCleanup
    <3>2. PICK K \in SUBSET live : Cardinality(K) = MaxCache /\ cache' = Limiter!KeepOnly(K)
      <4> HIDE DEF live
      <4> QED
        BY <1>2, <3>1
    <3>3. Cardinality(K) <= MaxCache
      BY <3>2, LimiterConstants
    <3> QED
      BY <1>1, <3>2, <3>3
  <2> QED
    BY <2>1, <2>2
<1>4. PICK K : Few(K) /\ cache' = [c \in K |-> cache[c]]
  BY <1>3
<1> QED
  BY <1>4

LEMMA RequestArrives ==
  ASSUME LimiterInv, NEW t \in Thread, NEW c \in Client, NEW client \in Client, client = c,
         Limiter!Arrive(t, c, client)
  PROVE  LimiterInv'
<1> DEFINE r == [at |-> "db", sender |-> c, client |-> client, now |-> time]
<1>1. /\ request[t] = Limiter!Idle /\ calls < MaxCalls /\ calls' = calls + 1
      /\ request' = [request EXCEPT ![t] = r]
      /\ UNCHANGED <<time, rows, entries, admitted>>
      /\ IF calls' % Interval = 0 THEN cache' \in Limiter!AfterCleanup ELSE UNCHANGED cache
  BY DEF Limiter!Arrive
<1>2. /\ time \in 0 .. MaxTime /\ calls \in 0 .. MaxCalls
      /\ rows \in [Client -> [Limiter!Windows -> 0 .. MaxCalls]]
      /\ DOMAIN cache \subseteq Client
      /\ \A d \in DOMAIN cache : cache[d].count \in 0 .. Limit
      /\ request \in [Thread -> Limiter!Requests]
      /\ entries \in [Client -> 0 .. MaxCalls] /\ admitted \in [Client -> 0 .. MaxCalls]
      /\ IsFiniteSet(DOMAIN cache) /\ Cardinality(DOMAIN cache) \in Nat
  BY LimiterFacts
<1>3. /\ DOMAIN cache' \subseteq DOMAIN cache
      /\ \A d \in DOMAIN cache' : cache'[d] = cache[d]
      /\ calls' % Interval = 0 => Cardinality(DOMAIN cache') <= MaxCache
      /\ calls' % Interval # 0 => cache' = cache
  BY <1>1, <1>2, CleanUp
<1>4. r # Limiter!Idle /\ r.at = "db" /\ r \in Limiter!Requests
  BY <1>2 DEF Limiter!Idle, Limiter!Requests
<1>5. /\ Cardinality(Busy) \in Nat /\ Cardinality(AtDb) \in Nat
      /\ Cardinality(Busy') <= Cardinality(Thread)
      /\ Cardinality(Busy') = Cardinality(Busy) + 1
      /\ Cardinality(AtDb') = Cardinality(AtDb) + 1
  <2> HIDE DEF r
  <2> QED
    BY <1>1, <1>2, <1>4, RequestMoves
<1>6. Limiter!TypeOK' /\ (request \in [Thread -> Limiter!Requests])'
  <2>1. (request \in [Thread -> Limiter!Requests])'
    BY <1>1, <1>2, <1>4
  <2>2. calls' \in 0 .. MaxCalls
    BY <1>1, <1>2, LimiterConstants
  <2>3. \A d \in DOMAIN cache : cache[d] \in [count : 0 .. Limit, start : 0 .. MaxTime]
    BY DEF LimiterInv, Limiter!TypeOK
  <2> HIDE DEF r
  <2> QED
    BY <1>1, <1>2, <1>3, <2>1, <2>2, <2>3 DEF Limiter!TypeOK
<1>7. OwnName'
  <2>1. \A u \in Thread : u # t => request'[u] = request[u]
    BY <1>1, <1>2
  <2>2. request'[t].client = request'[t].sender /\ request'[t].now = time /\ time <= time
    BY <1>1, <1>2
  <2> HIDE DEF r
  <2> QED
    BY <1>1, <2>1, <2>2 DEF OwnName, LimiterInv
<1>8. PassesCounted'
  <2> SUFFICES ASSUME NEW d \in Client
               PROVE  (admitted[d] + Left(d) <= Cardinality(Passed(d)) + Limit * entries[d])'
    BY DEF PassesCounted
  <2>1. admitted[d] + Left(d) <= Cardinality(Passed(d)) + Limit * entries[d]
    BY DEF LimiterInv, PassesCounted
  <2>2. Passed(d)' = Passed(d)
    BY <1>1 DEF Passed
  <2>3. Left(d) \in Nat /\ Left(d)' \in Nat /\ Left(d)' <= Left(d)
    BY <1>2, <1>3, LimiterConstants DEF Left
  <2>4. Cardinality(Passed(d)) \in Nat
    BY <1>2, PassedFinite
  <2>5. admitted[d] \in Nat /\ Limit * entries[d] \in Nat
    BY <1>2, LimiterConstants
  <2> QED
    BY <1>1, <2>1, <2>2, <2>3, <2>4, <2>5
<1>9. CallsCounted'
  <2> SUFFICES ASSUME NEW d \in Client
               PROVE  /\ \A w \in Limiter!Windows : rows[d][w] + Cardinality(AtDb') <= calls'
                      /\ entries[d] + Cardinality(Busy') <= calls'
                      /\ admitted[d] + Cardinality(Busy') <= calls'
    BY <1>1 DEF CallsCounted
  <2>1. /\ \A w \in Limiter!Windows : rows[d][w] + Cardinality(AtDb) <= calls
        /\ entries[d] + Cardinality(Busy) <= calls
        /\ admitted[d] + Cardinality(Busy) <= calls
    BY DEF LimiterInv, CallsCounted
  <2>2. /\ \A w \in Limiter!Windows : rows[d][w] \in Nat
        /\ entries[d] \in Nat /\ admitted[d] \in Nat /\ calls \in Nat
    BY <1>2
  <2>3. calls' = calls + 1
    BY <1>1
  <2> HIDE DEF r
  <2> QED
    BY <1>5, <2>1, <2>2, <2>3
<1>10. MemoryCounted'
  <2>1. /\ Cardinality(DOMAIN cache) + Cardinality(Busy)
             <= MaxCache + (calls % Interval) + Cardinality(Thread)
        /\ Cardinality(Thread) \in Nat /\ MaxCache \in Nat
    BY LimiterConstants DEF LimiterInv, MemoryCounted
  <2>2. /\ (calls' % Interval = 0 \/ calls' % Interval = (calls % Interval) + 1)
        /\ calls % Interval \in Nat
    <3>1. calls \in Nat /\ Interval \in Nat \ {0} /\ calls' = calls + 1
      BY <1>1, <1>2, LimiterConstants
    <3>2. (calls + 1) % Interval = 0 \/ (calls + 1) % Interval = (calls % Interval) + 1
      BY <3>1, NextRemainder
    <3>3. calls % Interval \in 0 .. Interval - 1
      BY <3>1, Remainder
    <3> QED
      BY <3>1, <3>2, <3>3
  <2>3. IsFiniteSet(DOMAIN cache') /\ Cardinality(DOMAIN cache') \in Nat
    BY <1>2, <1>3, FS_Subset, FS_CardinalityType
  <2> HIDE DEF r
  <2>4. CASE calls' % Interval = 0
    <3>1. Cardinality(DOMAIN cache') + Cardinality(Busy')
            <= MaxCache + (calls' % Interval) + Cardinality(Thread)
      BY <1>3, <1>5, <2>1, <2>3, <2>4
    <3> QED
      BY <2>3, <3>1 DEF MemoryCounted
  <2>5. CASE calls' % Interval # 0
    <3>1. DOMAIN cache' = DOMAIN cache
      BY <1>3, <2>5
    <3>2. Cardinality(DOMAIN cache') + Cardinality(Busy')
            <= MaxCache + (calls' % Interval) + Cardinality(Thread)
      BY <1>2, <1>5, <2>1, <2>2, <2>5, <3>1
    <3> QED
      BY <2>3, <3>2 DEF MemoryCounted
  <2> QED
    BY <2>4, <2>5
<1> QED
  BY <1>6, <1>7, <1>8, <1>9, <1>10 DEF LimiterInv

LEMMA TableCounts ==
  ASSUME LimiterInv, NEW t \in Thread, Limiter!CheckInDb(t)
  PROVE  LimiterInv'
<1> DEFINE c == request[t].client
           w == Limiter!WindowOf(request[t].now)
           counted == [rows EXCEPT ![c][w] = @ + 1]
           m == [request[t] EXCEPT !.at = "memory"]
           let == [admitted EXCEPT ![c] = @ + 1]
<1>1. /\ request[t].at = "db" /\ UNCHANGED <<time, calls, cache, entries>>
      /\ \/ /\ rows' = counted
            /\ request' = [request EXCEPT ![t] = Limiter!Idle]
            /\ admitted' = IF counted[c][w] <= Limit THEN let ELSE admitted
         \/ /\ rows' \in {rows, counted}
            /\ request' = [request EXCEPT ![t] = m]
            /\ admitted' = admitted
  BY DEF Limiter!CheckInDb, Limiter!Finish
<1>2. /\ time \in 0 .. MaxTime /\ calls \in 0 .. MaxCalls
      /\ rows \in [Client -> [Limiter!Windows -> 0 .. MaxCalls]]
      /\ DOMAIN cache \subseteq Client
      /\ \A d \in DOMAIN cache : cache[d].count \in 0 .. Limit
      /\ request \in [Thread -> Limiter!Requests]
      /\ entries \in [Client -> 0 .. MaxCalls] /\ admitted \in [Client -> 0 .. MaxCalls]
      /\ IsFiniteSet(DOMAIN cache) /\ Cardinality(DOMAIN cache) \in Nat
  BY LimiterFacts
<1>3. /\ request[t] # Limiter!Idle
      /\ c \in Client /\ c = request[t].sender
      /\ request[t].now \in 0 .. MaxTime /\ request[t].now <= time
  BY <1>1, LimiterFacts
<1>4. w \in Limiter!Windows
  BY <1>3, WindowStarts
<1>5. m # Limiter!Idle /\ m.at = "memory" /\ m \in Limiter!Requests /\ m.client = c /\ m.sender = c
      /\ m.now = request[t].now
  <2>1. request[t] \in [at : {"db", "memory"}, sender : Client, client : Client, now : 0 .. MaxTime]
    BY <1>2, <1>3 DEF Limiter!Requests
  <2>2. m.at = "memory" /\ Limiter!Idle.at = "idle"
    BY <2>1 DEF Limiter!Idle
  <2> QED
    BY <1>3, <2>1, <2>2 DEF Limiter!Requests
<1>6. (request' = [request EXCEPT ![t] = m]) \/ (request' = [request EXCEPT ![t] = Limiter!Idle])
  BY <1>1
<1>7. /\ Cardinality(Busy) \in Nat /\ Cardinality(AtDb) \in Nat /\ Cardinality(Busy') \in Nat
      /\ Cardinality(AtDb') = Cardinality(AtDb) - 1
      /\ request' = [request EXCEPT ![t] = m] => Cardinality(Busy') = Cardinality(Busy)
      /\ request' = [request EXCEPT ![t] = Limiter!Idle] => Cardinality(Busy') = Cardinality(Busy) - 1
      /\ Cardinality(Busy') <= Cardinality(Busy)
  <2> HIDE DEF c, m
  <2>1. CASE request' = [request EXCEPT ![t] = m]
    <3>1. /\ Cardinality(Busy) \in Nat /\ Cardinality(AtDb) \in Nat
          /\ Cardinality(Busy') = Cardinality(Busy) /\ Cardinality(AtDb') = Cardinality(AtDb) - 1
      BY <1>1, <1>2, <1>5, <2>1, RequestMoves
    <3>2. request' # [request EXCEPT ![t] = Limiter!Idle]
      BY <1>2, <1>5, <2>1
    <3> QED
      BY <3>1, <3>2
  <2>2. CASE request' = [request EXCEPT ![t] = Limiter!Idle]
    <3>1. /\ Cardinality(Busy) \in Nat /\ Cardinality(AtDb) \in Nat
          /\ Cardinality(Busy') = Cardinality(Busy) - 1 /\ Cardinality(AtDb') = Cardinality(AtDb) - 1
      BY <1>1, <1>2, <2>2, RequestMoves
    <3>2. request' # [request EXCEPT ![t] = m]
      BY <1>2, <1>5, <2>2
    <3>3. Cardinality(Busy') \in Nat
      <4>1. Busy' \in SUBSET Thread
        BY DEF Busy
      <4> QED
        BY <4>1, LimiterConstants, FS_Subset, FS_CardinalityType
    <3> QED
      BY <3>1, <3>2, <3>3
  <2> QED
    BY <1>6, <2>1, <2>2
<1>8. \A d \in Client :
        /\ admitted[d] + Cardinality(Busy) <= calls
        /\ entries[d] + Cardinality(Busy) <= calls
        /\ \A v \in Limiter!Windows : rows[d][v] + Cardinality(AtDb) <= calls
  BY DEF LimiterInv, CallsCounted
<1>9. counted \in [Client -> [Limiter!Windows -> 0 .. MaxCalls]]
      /\ counted[c][w] = rows[c][w] + 1
      /\ \A d \in Client, v \in Limiter!Windows : (d = c /\ v = w) \/ counted[d][v] = rows[d][v]
  <2>1. rows[c][w] + 1 \in 0 .. MaxCalls
    <3>1. rows[c][w] + Cardinality(AtDb) <= calls /\ Cardinality(AtDb) - 1 \in Nat /\ rows[c][w] \in Nat
      <4>1. Cardinality(AtDb) - 1 \in Nat
        <5>1. AtDb' \in SUBSET Thread
          BY DEF AtDb
        <5> QED
          BY <1>7, <5>1, LimiterConstants, FS_Subset, FS_CardinalityType
      <4> QED
        BY <1>2, <1>3, <1>4, <1>8, <4>1
    <3> QED
      BY <1>2, <1>7, <3>1, LimiterConstants
  <2> HIDE DEF c, w
  <2> QED
    BY <1>2, <1>3, <1>4, <2>1
<1>10. let \in [Client -> 0 .. MaxCalls] /\ let[c] = admitted[c] + 1
       /\ \A d \in Client : d = c \/ let[d] = admitted[d]
  <2>1. admitted[c] + 1 \in 0 .. MaxCalls
    <3>1. t \in Busy
      BY <1>3 DEF Busy
    <3>2. Busy \in SUBSET Thread
      BY DEF Busy
    <3>3. IsFiniteSet(Busy) /\ IsFiniteSet(Busy \ {t}) /\ Cardinality(Busy \ {t}) = Cardinality(Busy) - 1
          /\ Cardinality(Busy \ {t}) \in Nat
      BY <3>1, <3>2, LimiterConstants, FS_Subset, FS_RemoveElement, FS_CardinalityType
    <3>4. Cardinality(Busy) >= 1
      BY <1>7, <3>3
    <3> QED
      BY <1>2, <1>3, <1>7, <1>8, <3>4, LimiterConstants
  <2> HIDE DEF c
  <2> QED
    BY <1>2, <1>3, <2>1
<1>11. rows' \in {rows, counted} /\ admitted' \in {admitted, let}
       /\ (admitted' = let => rows' = counted /\ counted[c][w] <= Limit
                              /\ request' = [request EXCEPT ![t] = Limiter!Idle])
  <2>1. let # admitted
    <3>1. let[c] # admitted[c]
      BY <1>2, <1>3, <1>10
    <3> QED
      BY <3>1
  <2> HIDE DEF c, w, m, let, counted
  <2> QED
    BY <1>1, <2>1
<1> HIDE DEF c, w, m, let, counted
<1>12. Limiter!TypeOK' /\ (request \in [Thread -> Limiter!Requests])'
  <2>1. (request \in [Thread -> Limiter!Requests])'
    BY <1>2, <1>5, <1>6 DEF Limiter!Requests
  <2>2. \A d \in DOMAIN cache : cache[d] \in [count : 0 .. Limit, start : 0 .. MaxTime]
    BY DEF LimiterInv, Limiter!TypeOK
  <2> QED
    BY <1>1, <1>2, <1>9, <1>10, <1>11, <2>1, <2>2 DEF Limiter!TypeOK
<1>13. OwnName'
  <2>1. \A u \in Thread : u # t => request'[u] = request[u]
    BY <1>2, <1>6
  <2>2. request'[t] = Limiter!Idle \/ request'[t] = m
    BY <1>2, <1>6
  <2> QED
    BY <1>1, <1>3, <1>5, <2>1, <2>2 DEF OwnName, LimiterInv
<1>14. PassesCounted'
  <2> SUFFICES ASSUME NEW d \in Client
               PROVE  (admitted[d] + Left(d) <= Cardinality(Passed(d)) + Limit * entries[d])'
    BY DEF PassesCounted
  <2>1. admitted[d] + Left(d) <= Cardinality(Passed(d)) + Limit * entries[d]
    BY DEF LimiterInv, PassesCounted
  <2>2. Left(d)' = Left(d) /\ Left(d) \in Nat /\ entries' = entries
    BY <1>1, <1>2, LimiterConstants DEF Left
  <2>3. admitted[d] \in Nat /\ Limit * entries[d] \in Nat
    BY <1>2, LimiterConstants
  <2>4. rows' = counted =>
          /\ Cardinality(Passed(d)) \in Nat /\ Cardinality(Passed(d)') \in Nat
          /\ Cardinality(Passed(d)) <= Cardinality(Passed(d)')
          /\ d = c /\ rows[c][w] + 1 <= Limit => Cardinality(Passed(d)') = Cardinality(Passed(d)) + 1
    BY <1>2, <1>3, <1>4, PassedGrows DEF counted
  <2>5. rows' = rows => Passed(d)' = Passed(d)
    BY DEF Passed
  <2>6. CASE admitted'[d] = admitted[d]
    BY <1>11, <2>1, <2>2, <2>3, <2>4, <2>5, <2>6, PassedFinite
  <2>7. CASE admitted'[d] # admitted[d]
    <3>1. admitted' = let /\ d = c
      BY <1>10, <1>11, <2>7
    <3>2. rows' = counted /\ rows[c][w] + 1 <= Limit /\ admitted'[d] = admitted[d] + 1
      BY <1>9, <1>10, <1>11, <3>1
    <3> QED
      BY <2>1, <2>2, <2>3, <2>4, <3>1, <3>2
  <2> QED
    BY <2>6, <2>7
<1>15. CallsCounted'
  <2> SUFFICES ASSUME NEW d \in Client
               PROVE  /\ \A v \in Limiter!Windows : rows'[d][v] + Cardinality(AtDb') <= calls
                      /\ entries[d] + Cardinality(Busy') <= calls
                      /\ admitted'[d] + Cardinality(Busy') <= calls
    BY <1>1 DEF CallsCounted
  <2>0. calls \in Nat /\ admitted[d] \in Nat /\ entries[d] \in Nat
    BY <1>2
  <2>1. ASSUME NEW v \in Limiter!Windows PROVE rows'[d][v] + Cardinality(AtDb') <= calls
    <3>1. rows[d][v] \in Nat /\ rows'[d][v] \in {rows[d][v], rows[d][v] + 1}
      BY <1>2, <1>9, <1>11
    <3>2. rows[d][v] + Cardinality(AtDb) <= calls
      BY <1>8
    <3> QED
      BY <1>7, <2>0, <3>1, <3>2
  <2>2. entries[d] + Cardinality(Busy') <= calls
    BY <1>7, <1>8, <2>0
  <2>3. admitted'[d] + Cardinality(Busy') <= calls
    <3>1. CASE admitted' = admitted
      BY <1>7, <1>8, <2>0, <3>1
    <3>2. CASE admitted' = let
      <4>1. admitted'[d] \in {admitted[d], admitted[d] + 1}
        BY <1>10, <3>2
      <4>2. Cardinality(Busy') = Cardinality(Busy) - 1
        BY <1>7, <1>11, <3>2
      <4> QED
        BY <1>7, <1>8, <2>0, <4>1, <4>2
    <3> QED
      BY <1>11, <3>1, <3>2
  <2> QED
    BY <2>1, <2>2, <2>3
<1>16. MemoryCounted'
  <2>1. /\ Cardinality(DOMAIN cache) + Cardinality(Busy)
             <= MaxCache + (calls % Interval) + Cardinality(Thread)
        /\ MaxCache + (calls % Interval) + Cardinality(Thread) \in Nat
    <3>1. calls % Interval \in Nat
      BY <1>2, LimiterConstants, Remainder
    <3> QED
      BY <3>1, LimiterConstants DEF LimiterInv, MemoryCounted
  <2>2. UNCHANGED <<calls, cache>>
    BY <1>1
  <2> QED
    BY <1>2, <1>7, <2>1, <2>2 DEF MemoryCounted
<1> QED
  BY <1>12, <1>13, <1>14, <1>15, <1>16 DEF LimiterInv

\* A client newly in memory makes it one larger.
LEMMA OneMore ==
  ASSUME NEW S, IsFiniteSet(S), NEW c
  PROVE  /\ IsFiniteSet(S \cup {c}) /\ Cardinality(S \cup {c}) \in Nat /\ Cardinality(S) \in Nat
         /\ Cardinality(S \cup {c}) <= Cardinality(S) + 1
<1>1. IsFiniteSet(S \cup {c}) /\ Cardinality(S \cup {c}) \in Nat /\ Cardinality(S) \in Nat
  BY FS_AddElement, FS_CardinalityType
<1>2. CASE c \in S
  <2>1. S \cup {c} = S
    BY <1>2
  <2> QED
    BY <1>1, <2>1
<1>3. CASE c \notin S
  <2>1. Cardinality(S \cup {c}) = Cardinality(S) + 1
    BY <1>3, FS_AddElement
  <2> QED
    BY <1>1, <2>1
<1> QED
  BY <1>2, <1>3

LEMMA MemoryCounts ==
  ASSUME LimiterInv, NEW t \in Thread, Limiter!CheckInMemory(t)
  PROVE  LimiterInv'
<1> DEFINE c == request[t].client
           e == Limiter!Entry(c)
           over == Limiter!Expired(e.start, request[t].now)
           allowed == over \/ e.count < Limit
           n == IF over THEN 1 ELSE IF allowed THEN e.count + 1 ELSE e.count
           s == IF over THEN request[t].now ELSE e.start
           let == [admitted EXCEPT ![c] = @ + 1]
           begun == [entries EXCEPT ![c] = @ + 1]
<1>1. /\ request[t].at = "memory" /\ UNCHANGED <<time, calls, rows>>
      /\ request' = [request EXCEPT ![t] = Limiter!Idle]
      /\ admitted' = IF allowed THEN let ELSE admitted
      /\ entries' = IF over \/ c \notin DOMAIN cache THEN begun ELSE [entries EXCEPT ![c] = @]
      /\ cache' = [d \in DOMAIN cache \cup {c} |->
                     IF d = c THEN [count |-> n, start |-> s] ELSE cache[d]]
  BY DEF Limiter!CheckInMemory, Limiter!Finish, Limiter!Store
<1>2. /\ time \in 0 .. MaxTime /\ calls \in 0 .. MaxCalls
      /\ rows \in [Client -> [Limiter!Windows -> 0 .. MaxCalls]]
      /\ DOMAIN cache \subseteq Client
      /\ \A d \in DOMAIN cache : cache[d].count \in 0 .. Limit /\ cache[d].start \in 0 .. MaxTime
      /\ request \in [Thread -> Limiter!Requests]
      /\ entries \in [Client -> 0 .. MaxCalls] /\ admitted \in [Client -> 0 .. MaxCalls]
      /\ IsFiniteSet(DOMAIN cache) /\ Cardinality(DOMAIN cache) \in Nat
  BY LimiterFacts
<1>3. request[t] # Limiter!Idle /\ c \in Client /\ request[t].now \in 0 .. MaxTime /\ request[t].now <= time
  BY <1>1, LimiterFacts
\* A client that memory does not know is counted from nought, and let through.
<1>4. /\ e.count \in 0 .. Limit /\ e.start \in 0 .. MaxTime
      /\ c \in DOMAIN cache => e.count = cache[c].count
      /\ c \notin DOMAIN cache => e.count = 0 /\ ~over
  <2>1. CASE c \in DOMAIN cache
    BY <1>2, <2>1 DEF Limiter!Entry
  <2>2. CASE c \notin DOMAIN cache
    <3>1. e.count = 0 /\ e.start = time
      BY <2>2 DEF Limiter!Entry
    <3>2. ~over
      BY <1>2, <1>3, <3>1, LimiterConstants DEF Limiter!Expired
    <3> QED
      BY <1>2, <2>2, <3>1, <3>2, LimiterConstants
  <2> QED
    BY <2>1, <2>2
<1>5. over \in BOOLEAN
  BY DEF Limiter!Expired
<1> HIDE DEF e, over
<1>6. /\ n \in 0 .. Limit /\ s \in 0 .. MaxTime
      /\ allowed /\ ~over => n = e.count + 1
      /\ over => allowed /\ n = 1
      /\ ~allowed => n = e.count
  BY <1>3, <1>4, LimiterConstants
<1>7. /\ Cardinality(Busy) \in Nat /\ Cardinality(AtDb) \in Nat /\ Cardinality(Busy') \in Nat
      /\ Cardinality(AtDb') = Cardinality(AtDb) /\ Cardinality(Busy') = Cardinality(Busy) - 1
  <2>1. Busy' \in SUBSET Thread
    BY DEF Busy
  <2>2. Cardinality(Busy') \in Nat
    BY <2>1, LimiterConstants, FS_Subset, FS_CardinalityType
  <2> QED
    BY <1>1, <1>2, <2>2, RequestMoves
<1>8. \A d \in Client :
        /\ admitted[d] + Cardinality(Busy) <= calls
        /\ entries[d] + Cardinality(Busy) <= calls
        /\ \A v \in Limiter!Windows : rows[d][v] + Cardinality(AtDb) <= calls
  BY DEF LimiterInv, CallsCounted
<1>9. /\ let \in [Client -> 0 .. MaxCalls] /\ let[c] = admitted[c] + 1
      /\ begun \in [Client -> 0 .. MaxCalls] /\ begun[c] = entries[c] + 1
      /\ \A d \in Client : d = c \/ (let[d] = admitted[d] /\ begun[d] = entries[d])
  <2>1. admitted[c] + 1 \in 0 .. MaxCalls /\ entries[c] + 1 \in 0 .. MaxCalls
    <3>1. Cardinality(Busy) >= 1
      BY <1>7
    <3>2. admitted[c] \in Nat /\ entries[c] \in Nat
      BY <1>2, <1>3
    <3>3. admitted[c] + Cardinality(Busy) <= calls /\ entries[c] + Cardinality(Busy) <= calls
      BY <1>3, <1>8
    <3>4. calls \in Nat /\ calls <= MaxCalls
      BY <1>2, LimiterConstants
    <3> HIDE DEF c
    <3> QED
      BY <1>7, <3>1, <3>2, <3>3, <3>4, LimiterConstants
  <2> HIDE DEF c
  <2> QED
    BY <1>2, <1>3, <2>1
<1>10. [entries EXCEPT ![c] = @] = entries
  BY <1>2
<1> DEFINE new == over \/ c \notin DOMAIN cache
<1>11. /\ admitted' \in [Client -> 0 .. MaxCalls] /\ entries' \in [Client -> 0 .. MaxCalls]
       /\ admitted'[c] = IF allowed THEN admitted[c] + 1 ELSE admitted[c]
       /\ entries'[c] = IF new THEN entries[c] + 1 ELSE entries[c]
       /\ \A d \in Client : d = c \/ (admitted'[d] = admitted[d] /\ entries'[d] = entries[d])
  <2> HIDE DEF c, let, begun, allowed
  <2> QED
    BY <1>1, <1>2, <1>9, <1>10
<1> HIDE DEF let, begun, n, s
<1>12. /\ DOMAIN cache' = DOMAIN cache \cup {c}
       /\ cache'[c] = [count |-> n, start |-> s]
       /\ \A d \in DOMAIN cache : d = c \/ cache'[d] = cache[d]
  BY <1>1
<1>13. Limiter!TypeOK' /\ (request \in [Thread -> Limiter!Requests])'
  <2>1. (request \in [Thread -> Limiter!Requests])'
    <3>1. Limiter!Idle \in Limiter!Requests
      BY DEF Limiter!Requests
    <3> QED
      BY <1>1, <1>2, <3>1
  <2>2. \A d \in DOMAIN cache : cache[d] \in [count : 0 .. Limit, start : 0 .. MaxTime]
    BY DEF LimiterInv, Limiter!TypeOK
  <2>3. cache'[c] \in [count : 0 .. Limit, start : 0 .. MaxTime]
    BY <1>6, <1>12
  <2>4. \A d \in DOMAIN cache' : cache'[d] \in [count : 0 .. Limit, start : 0 .. MaxTime]
    BY <1>12, <2>2, <2>3
  <2>5. DOMAIN cache' \subseteq Client
    BY <1>2, <1>3, <1>12
  <2> HIDE DEF c, allowed, new
  <2> QED
    BY <1>1, <1>2, <1>11, <2>1, <2>4, <2>5 DEF Limiter!TypeOK
<1>14. OwnName'
  <2>1. \A u \in Thread : u # t => request'[u] = request[u]
    BY <1>1, <1>2
  <2>2. request'[t] = Limiter!Idle
    BY <1>1, <1>2
  <2> HIDE DEF c
  <2> QED
    BY <1>1, <2>1, <2>2 DEF OwnName, LimiterInv
<1>15. PassesCounted'
  <2> SUFFICES ASSUME NEW d \in Client
               PROVE  (admitted[d] + Left(d) <= Cardinality(Passed(d)) + Limit * entries[d])'
    BY DEF PassesCounted
  <2>1. admitted[d] + Left(d) <= Cardinality(Passed(d)) + Limit * entries[d]
    BY DEF LimiterInv, PassesCounted
  <2>2. Passed(d)' = Passed(d) /\ Cardinality(Passed(d)) \in Nat
    BY <1>1, PassedFinite DEF Passed
  <2>3. admitted[d] \in Nat /\ entries[d] \in Nat /\ Limit * entries[d] \in Nat
    BY <1>2, LimiterConstants
  <2>4. CASE d # c
    <3>1. Left(d)' = Left(d)
      <4> HIDE DEF c
      <4> QED
        BY <1>12, <2>4 DEF Left
    <3>2. admitted'[d] = admitted[d] /\ entries'[d] = entries[d]
      BY <1>11, <2>4
    <3> QED
      BY <2>1, <2>2, <3>1, <3>2
  <2>5. CASE d = c
    <3>1. Left(d)' = Limit - n /\ n \in Nat
      BY <1>6, <1>12, <2>5, LimiterConstants DEF Left
    <3>2. /\ c \in DOMAIN cache => Left(d) = Limit - e.count
          /\ c \notin DOMAIN cache => Left(d) = 0
          /\ Left(d) \in Nat /\ e.count \in Nat
      BY <1>4, <2>5, LimiterConstants DEF Left
    <3>3. Limit * (entries[d] + 1) = Limit * entries[d] + Limit
      BY <2>3, LimiterConstants
    <3>4. CASE new
      <4>1. /\ admitted'[d] = admitted[d] + 1 /\ n = 1 /\ entries'[d] = entries[d] + 1
        <5>1. allowed /\ n = 1
          BY <1>4, <1>6, <3>4, LimiterConstants
        <5> QED
          BY <1>11, <2>5, <3>4, <5>1
      <4>2. Limit * entries'[d] = Limit * entries[d] + Limit
        BY <3>3, <4>1
      <4> HIDE DEF c, allowed, new
      <4> QED
        BY <2>1, <2>2, <2>3, <3>1, <3>2, <4>1, <4>2, LimiterConstants
    <3>5. CASE ~new
      <4>1. Left(d) = Limit - e.count /\ entries'[d] = entries[d]
        BY <1>11, <2>5, <3>2, <3>5
      <4>2. \/ admitted'[d] = admitted[d] + 1 /\ n = e.count + 1
            \/ admitted'[d] = admitted[d] /\ n = e.count
        BY <1>6, <1>11, <2>5, <3>5
      <4> HIDE DEF c, allowed, new
      <4> QED
        BY <2>1, <2>2, <2>3, <3>1, <3>2, <4>1, <4>2, LimiterConstants
    <3> QED
      BY <3>4, <3>5
  <2> QED
    BY <2>4, <2>5
<1>16. CallsCounted'
  <2> SUFFICES ASSUME NEW d \in Client
               PROVE  /\ entries'[d] + Cardinality(Busy') <= calls
                      /\ admitted'[d] + Cardinality(Busy') <= calls
    BY <1>1, <1>7, <1>8 DEF CallsCounted
  <2>1. calls \in Nat /\ admitted[d] \in Nat /\ entries[d] \in Nat
    BY <1>2
  <2>2. admitted'[d] \in {admitted[d], admitted[d] + 1} /\ entries'[d] \in {entries[d], entries[d] + 1}
    BY <1>11
  <2> QED
    BY <1>7, <1>8, <2>1, <2>2
<1>17. MemoryCounted'
  <2>1. /\ Cardinality(DOMAIN cache) + Cardinality(Busy)
             <= MaxCache + (calls % Interval) + Cardinality(Thread)
        /\ MaxCache + (calls % Interval) + Cardinality(Thread) \in Nat
    <3>1. calls % Interval \in Nat
      BY <1>2, LimiterConstants, Remainder
    <3> QED
      BY <3>1, LimiterConstants DEF LimiterInv, MemoryCounted
  <2>2. /\ IsFiniteSet(DOMAIN cache') /\ Cardinality(DOMAIN cache') \in Nat
        /\ Cardinality(DOMAIN cache') <= Cardinality(DOMAIN cache) + 1
    <3>1. /\ IsFiniteSet(DOMAIN cache \cup {c}) /\ Cardinality(DOMAIN cache \cup {c}) \in Nat
          /\ Cardinality(DOMAIN cache \cup {c}) <= Cardinality(DOMAIN cache) + 1
      <4> HIDE DEF c
      <4> QED
        BY <1>2, OneMore
    <3> QED
      BY <1>12, <3>1
  <2>3. calls' = calls
    BY <1>1
  <2> QED
    BY <1>2, <1>7, <2>1, <2>2, <2>3 DEF MemoryCounted
<1> QED
  BY <1>13, <1>14, <1>15, <1>16, <1>17 DEF LimiterInv

LEMMA LimiterStep ==
  ASSUME LimiterInv, Limiter!Next
  PROVE  LimiterInv'
<1>1. CASE Limiter!Tick
  BY <1>1, TimePasses
<1>2. ASSUME NEW t \in Thread, NEW c \in Client, NEW hops \in Limiter!Chains(c),
             Limiter!Arrive(t, c, Limiter!ClientHop(hops))
      PROVE  LimiterInv'
  BY <1>2, OwnHop, RequestArrives
<1>3. ASSUME NEW t \in Thread, Limiter!CheckInDb(t) PROVE LimiterInv'
  BY <1>3, TableCounts
<1>4. ASSUME NEW t \in Thread, Limiter!CheckInMemory(t) PROVE LimiterInv'
  BY <1>4, MemoryCounts
<1> QED
  BY <1>1, <1>2, <1>3, <1>4 DEF Limiter!Next

LEMMA LimiterHolds ==
  ASSUME LimiterInv
  PROVE  Limiter!LimiterSound
<1>0. \A S : Limiter!Cardinality(S) = Cardinality(S)
  BY DEF Limiter!Cardinality, Cardinality
<1>1. Limiter!TypeOK /\ \A t \in Thread : request[t] # Limiter!Idle => request[t].client = request[t].sender
  BY DEF LimiterInv, OwnName
<1>2. ASSUME NEW c \in Client
      PROVE  admitted[c] <= Limit * (Cardinality({w \in Limiter!Windows : rows[c][w] > 0}) + entries[c])
  <2> DEFINE k == Cardinality({w \in Limiter!Windows : rows[c][w] > 0})
  <2>1. k \in Nat /\ Cardinality(Passed(c)) <= Limit * k
    BY PassesOfWindows
  <2>2. /\ admitted[c] \in Nat /\ entries[c] \in Nat
        /\ c \in DOMAIN cache => cache[c].count \in 0 .. Limit
    BY <1>1 DEF Limiter!TypeOK
  <2>3. Left(c) \in Nat
    BY <2>2, LimiterConstants DEF Left
  <2>4. admitted[c] + Left(c) <= Cardinality(Passed(c)) + Limit * entries[c]
    BY DEF LimiterInv, PassesCounted
  <2> HIDE DEF k
  <2>5. /\ Limit * (k + entries[c]) = Limit * k + Limit * entries[c]
        /\ Limit * k \in Nat /\ Limit * entries[c] \in Nat
    BY <2>1, <2>2, LimiterConstants
  <2>6. admitted[c] <= Limit * (k + entries[c])
    BY <2>1, <2>2, <2>3, <2>4, <2>5, PassedFinite
  <2> QED
    BY <2>6 DEF k
<1>3. Cardinality(DOMAIN cache) <= MaxCache + Interval - 1 + Cardinality(Thread)
  <2>1. calls % Interval \in 0 .. Interval - 1
    BY <1>1, LimiterConstants, Remainder DEF Limiter!TypeOK
  <2>2. Cardinality(Busy) \in Nat
    <3>1. Busy \in SUBSET Thread
      BY DEF Busy
    <3> QED
      BY <3>1, LimiterConstants, FS_Subset, FS_CardinalityType
  <2>3. Cardinality(DOMAIN cache) \in Nat
    BY FS_CardinalityType DEF LimiterInv, MemoryCounted
  <2> QED
    BY <2>1, <2>2, <2>3, LimiterConstants DEF LimiterInv, MemoryCounted
<1> QED
  BY <1>0, <1>1, <1>2, <1>3 DEF Limiter!LimiterSound, Limiter!LimitKept, Limiter!CacheBounded

\* A client is let through as often as the limits in the table and in memory say
\* and no more, counts under no name but its own, and the memory stays small,
\* whatever fails (rate_limiter.py).
THEOREM PassesLimited == AdmissionSpec => []LimiterSound
<1> DEFINE Inv == part = "limiter" => LimiterInv
<1>1. AdmissionInit => Inv
  BY LimiterStarts DEF AdmissionInit
<1>2. Inv /\ [AdmissionNext]_admissionVars => Inv'
  <2> SUFFICES ASSUME Inv, [AdmissionNext]_admissionVars, part' = "limiter"
               PROVE  LimiterInv'
    OBVIOUS
  <2>1. part = "limiter" /\ LimiterInv
    BY DEF AdmissionNext, admissionVars
  <2>2. Limiter!Next \/ UNCHANGED limiterVars
    BY <2>1 DEF AdmissionNext, admissionVars
  <2>3. CASE UNCHANGED limiterVars
    BY <2>1, <2>3 DEF limiterVars, LimiterInv, Limiter!TypeOK, OwnName, PassesCounted, CallsCounted,
      MemoryCounted, Passed, Left, Busy, AtDb
  <2> QED
    BY <2>1, <2>2, <2>3, LimiterStep
<1>3. Inv => LimiterSound
  BY LimiterHolds DEF LimiterSound
<1> QED
  BY <1>1, <1>2, <1>3, PTL DEF AdmissionSpec
=============================================================================
