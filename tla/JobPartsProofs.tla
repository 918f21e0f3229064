---------------------------- MODULE JobPartsProofs ----------------------------
(***************************************************************************)
(* What a chapter, a video or live, and a quiz of a learning task          *)
(* guarantee for any task points, questions, threads, times and limits.    *)
(*                                                                         *)
(* Each section has the inductive invariant of one part, the lemmas that   *)
(* its steps keep it, and the theorem; the other parts rest meanwhile.     *)
(***************************************************************************)
EXTENDS MCParts, FiniteSetTheorems, SequenceTheorems, TLAPS

-----------------------------------------------------------------------------
(* A chapter *)

\* Task points that are or were with the executor.
Sent == {j \in Job : pooled[j] # "no"}

ChapterTypes ==
    /\ chapterPlace \in {"start", "submit", "wait", "inline", "raising", "returned"}
    /\ answer \in Chapter!Results \cup {"none", "not open"}
    /\ jobs \in Chapter!Orders /\ queue \in Chapter!Orders
    /\ threads \in 0 .. MaxThreads
    /\ pooled \in [Job -> Chapter!Results \cup Chapter!Active \cup {"no", "queued", "dropped"}]
    /\ inline \in [Job -> Chapter!Results \cup Chapter!Active \cup {"no"}]
    /\ pending \subseteq Job /\ chapterStop \in BOOLEAN
    /\ started \in [Job -> Nat]
    /\ done \in 0 .. 1

\* A task point in the queue has not been taken by a thread.
QueueWaits == \A i \in 1 .. Len(queue) : pooled[queue[i]] \in {"queued", "dropped"}

\* A task point is started once by a thread and once inline at most.
StartsCounted ==
    \A j \in Job : started[j] <= (IF pooled[j] \in {"no", "queued", "dropped"} THEN 0 ELSE 1)
                                 + (IF inline[j] = "no" THEN 0 ELSE 1)

\* Before its executor nothing of a chapter is under way ...
NotYet == chapterPlace = "start" => jobs = <<>> /\ queue = <<>> /\ Sent = {}

\* ... its task points are submitted in order ...
InSubmission ==
    /\ chapterPlace = "submit" =>
        /\ Cardinality(Sent) <= Len(jobs)
        /\ Sent = {jobs[i] : i \in 1 .. Cardinality(Sent)}
    /\ chapterPlace \in {"wait", "raising"} => \A i \in 1 .. Len(jobs) : jobs[i] \in Sent

\* ... and waited for until they succeeded, with nothing done inline ...
Awaited ==
    chapterPlace \in {"start", "submit", "wait", "raising"} =>
        /\ \A j \in Sent : j \in pending \/ pooled[j] = "success"
        /\ \A j \in Job : inline[j] = "no"

\* ... or gone through inline, one after the other.
InlineUpTo(k) ==
    /\ \A i \in 1 .. k - 1 : inline[jobs[i]] = "success"
    /\ k <= Len(jobs) => inline[jobs[k]] # "success"
    /\ \A i \in k + 1 .. Len(jobs) : inline[jobs[i]] = "no"
GoneThrough ==
    chapterPlace = "inline" => jobs # <<>> /\ \E k \in 1 .. Len(jobs) + 1 : InlineUpTo(k)

FellBack == \E j \in Job : inline[j] # "no"

\* What process_chapter answers.
Answered ==
    /\ done = 1 <=> chapterPlace = "returned" /\ answer = "success"
    /\ chapterPlace # "returned" => answer = "none"
    /\ answer = "success" =>
        \A i \in 1 .. Len(jobs) : "success" \in {pooled[jobs[i]], inline[jobs[i]]}
    /\ chapterPlace = "returned" => queue = <<>>
    /\ chapterPlace = "returned" /\ answer \in {"success", "raised"} /\ ~FellBack =>
        \A j \in Job : pooled[j] \notin Chapter!Active

ChapterInv ==
    /\ ChapterTypes /\ QueueWaits /\ StartsCounted
    /\ NotYet /\ InSubmission /\ Awaited /\ GoneThrough /\ Answered
\* The orders are the sequences of task points without repetition.
LEMMA OrdersAre ==
  ASSUME NEW s
  PROVE  s \in Chapter!Orders <=>
            s \in Seq(Job) /\ \A i, k \in 1 .. Len(s) : s[i] = s[k] => i = k
<1>0. Chapter!Cardinality(Job) = Cardinality(Job) /\ Cardinality(Job) \in Nat
  BY ChapterAssumption, FS_CardinalityType DEF Cardinality, Chapter!Cardinality
<1>1. ASSUME s \in Chapter!Orders
      PROVE  s \in Seq(Job) /\ \A i, k \in 1 .. Len(s) : s[i] = s[k] => i = k
  <2>1. PICK n \in Nat : s \in [1 .. n -> Job] /\ \A i, k \in 1 .. n : s[i] = s[k] => i = k
    BY <1>0, <1>1 DEF Chapter!Orders
  <2>2. s \in Seq(Job) /\ Len(s) = n
    BY <2>1
  <2> QED
    BY <2>1, <2>2
<1>2. ASSUME s \in Seq(Job), \A i, k \in 1 .. Len(s) : s[i] = s[k] => i = k
      PROVE  s \in Chapter!Orders
  <2>1. Len(s) \in Nat /\ s \in [1 .. Len(s) -> Job]
    BY <1>2, LenProperties
  <2>2. s \in Injection(1 .. Len(s), Job)
    BY <1>2, <2>1 DEF Injection, IsInjective
  <2>3. Cardinality(1 .. Len(s)) <= Cardinality(Job)
    BY <2>2, ChapterAssumption, FS_Injection
  <2>4. Cardinality(1 .. Len(s)) = Len(s)
    BY <2>1, FS_Interval
  <2>5. Len(s) \in 0 .. Cardinality(Job)
    BY <1>0, <2>1, <2>3, <2>4
  <2> QED
    BY <1>0, <1>2, <2>1, <2>5 DEF Chapter!Orders
<1> QED
  BY <1>1, <1>2

LEMMA SmallOrders == <<>> \in Chapter!Orders /\ \A j \in Job : <<j>> \in Chapter!Orders
<1>1. <<>> \in Seq(Job) /\ Len(<<>>) = 0
  OBVIOUS
<1>2. ASSUME NEW j \in Job PROVE <<j>> \in Chapter!Orders
  <2>1. <<j>> \in Seq(Job) /\ Len(<<j>>) = 1
    OBVIOUS
  <2>2. \A i, k \in 1 .. Len(<<j>>) : i = k
    BY <2>1
  <2> QED
    BY <2>1, <2>2, OrdersAre
<1>3. \A i, k \in 1 .. Len(<<>>) : <<>>[i] = <<>>[k] => i = k
  BY <1>1
<1> QED
  BY <1>1, <1>2, <1>3, OrdersAre

LEMMA OrderGrows ==
  ASSUME NEW s \in Chapter!Orders, NEW j \in Job, \A i \in 1 .. Len(s) : s[i] # j
  PROVE  /\ Append(s, j) \in Chapter!Orders
         /\ Len(Append(s, j)) = Len(s) + 1
         /\ \A i \in 1 .. Len(s) : Append(s, j)[i] = s[i]
         /\ Append(s, j)[Len(s) + 1] = j
<1>1. s \in Seq(Job) /\ Len(s) \in Nat /\ \A i, k \in 1 .. Len(s) : s[i] = s[k] => i = k
  BY OrdersAre, LenProperties
<1>2. /\ Append(s, j) \in Seq(Job) /\ Len(Append(s, j)) = Len(s) + 1
      /\ \A i \in 1 .. Len(s) : Append(s, j)[i] = s[i]
      /\ Append(s, j)[Len(s) + 1] = j
  BY <1>1, AppendProperties
<1>3. \A i, k \in 1 .. Len(Append(s, j)) : Append(s, j)[i] = Append(s, j)[k] => i = k
  BY <1>1, <1>2
<1> QED
  BY <1>2, <1>3, OrdersAre

LEMMA OrderShrinks ==
  ASSUME NEW s \in Chapter!Orders, s # <<>>
  PROVE  /\ Head(s) \in Job /\ Head(s) = s[1] /\ Tail(s) \in Chapter!Orders
         /\ Len(Tail(s)) = Len(s) - 1 /\ Len(s) \in Nat \ {0}
         /\ \A i \in 1 .. Len(Tail(s)) : Tail(s)[i] = s[i + 1] /\ Tail(s)[i] # Head(s)
<1>1. s \in Seq(Job) /\ Len(s) \in Nat \ {0} /\ \A i, k \in 1 .. Len(s) : s[i] = s[k] => i = k
  BY OrdersAre, EmptySeq
<1>2. /\ Head(s) \in Job /\ Tail(s) \in Seq(Job) /\ Len(Tail(s)) = Len(s) - 1
      /\ \A i \in 1 .. Len(Tail(s)) : Tail(s)[i] = s[i + 1]
  BY <1>1, HeadTailProperties
<1>3. Head(s) = s[1]
  BY <1>1
<1>4. \A i, k \in 1 .. Len(Tail(s)) : Tail(s)[i] = Tail(s)[k] => i = k
  BY <1>1, <1>2
<1>5. \A i \in 1 .. Len(Tail(s)) : Tail(s)[i] # Head(s)
  BY <1>1, <1>2, <1>3
<1> QED
  BY <1>1, <1>2, <1>3, <1>4, <1>5, OrdersAre

\* What the invariant says of the two sequences.
LEMMA ChapterSeqs ==
  ASSUME ChapterTypes
  PROVE  /\ jobs \in Seq(Job) /\ Len(jobs) \in Nat /\ queue \in Seq(Job) /\ Len(queue) \in Nat
         /\ \A i \in 1 .. Len(jobs) : jobs[i] \in Job
         /\ \A i \in 1 .. Len(queue) : queue[i] \in Job
         /\ \A i, k \in 1 .. Len(jobs) : jobs[i] = jobs[k] => i = k
BY OrdersAre, LenProperties, ElementOfSeq DEF ChapterTypes

LEMMA SentCounted ==
  /\ Chapter!Submitted = Cardinality(Sent)
  /\ IsFiniteSet(Sent) /\ Cardinality(Sent) \in Nat
<1>1. Chapter!Submitted = Cardinality(Sent)
  BY DEF Cardinality, Chapter!Cardinality, Chapter!Submitted, Sent
<1> QED
  BY <1>1, ChapterAssumption, FS_Subset, FS_CardinalityType DEF Sent

LEMMA ChapterStarts == Chapter!Init => ChapterInv
<1> SUFFICES ASSUME Chapter!Init PROVE ChapterInv
  OBVIOUS
<1>1. ChapterTypes
  <2>1. jobs \in Chapter!Orders /\ queue \in Chapter!Orders
    BY SmallOrders DEF Chapter!Init
  <2>2. threads \in 0 .. MaxThreads
    BY ChapterAssumption DEF Chapter!Init
  <2>3. /\ pooled \in [Job -> Chapter!Results \cup Chapter!Active \cup {"no", "queued", "dropped"}]
        /\ inline \in [Job -> Chapter!Results \cup Chapter!Active \cup {"no"}]
        /\ started \in [Job -> Nat]
    BY DEF Chapter!Init
  <2>4. /\ chapterPlace = "start" /\ answer = "none" /\ pending = {} /\ chapterStop = FALSE /\ done = 0
    BY DEF Chapter!Init
  <2> QED
    <3>1. answer \in Chapter!Results \cup {"none", "not open"} /\ done \in 0 .. 1
      BY <2>4
    <3>2. pending \subseteq Job /\ chapterStop \in BOOLEAN
      BY <2>4
    <3>3. chapterPlace \in {"start", "submit", "wait", "inline", "raising", "returned"}
      BY <2>4
    <3> QED
      BY <2>1, <2>2, <2>3, <3>1, <3>2, <3>3, Zenon DEF ChapterTypes
<1>2. Len(jobs) = 0 /\ Len(queue) = 0
  BY DEF Chapter!Init
<1>3. QueueWaits /\ StartsCounted
  BY <1>2 DEF Chapter!Init, QueueWaits, StartsCounted
<1>4. NotYet /\ InSubmission /\ Awaited /\ GoneThrough
  BY DEF Chapter!Init, NotYet, InSubmission, Awaited, GoneThrough, Sent
<1>5. Answered
  BY <1>2 DEF Chapter!Init, Answered
<1> QED
  BY <1>1, <1>3, <1>4, <1>5 DEF ChapterInv
\* A stop, and the pool's own steps.
LEMMA StopKeeps ==
  ASSUME ChapterInv, Chapter!Stop \/ UNCHANGED chapterVars
  PROVE  ChapterInv'
<1>1. /\ UNCHANGED <<chapterPlace, answer, jobs, queue, threads, pooled, inline, pending, started, done>>
      /\ chapterStop' \in BOOLEAN
  BY DEF Chapter!Stop, chapterVars, ChapterInv, ChapterTypes
<1>2. ChapterTypes' /\ QueueWaits' /\ StartsCounted'
  BY <1>1 DEF ChapterInv, ChapterTypes, QueueWaits, StartsCounted
<1>3. Sent' = Sent /\ FellBack' = FellBack
  BY <1>1 DEF Sent, FellBack
<1>4. NotYet' /\ InSubmission' /\ Awaited'
  BY <1>1, <1>3 DEF ChapterInv, NotYet, InSubmission, Awaited
<1>5. GoneThrough'
  BY <1>1 DEF ChapterInv, GoneThrough, InlineUpTo
<1>6. Answered'
  BY <1>1, <1>3 DEF ChapterInv, Answered
<1> QED
  BY <1>2, <1>4, <1>5, <1>6 DEF ChapterInv

\* A point under way, or taken from the queue, changes only itself.
PointMoves(j) ==
    /\ UNCHANGED <<chapterPlace, answer, jobs, threads, inline, pending, chapterStop, done>>
    /\ \E r \in Chapter!Results \cup Chapter!Active \cup {"dropped"} :
          /\ pooled' = [pooled EXCEPT ![j] = r]
          /\ r = "dropped" => pooled[j] = "dropped"
    /\ pooled[j] \notin {"no", "success"}

LEMMA MoveKeeps ==
  ASSUME ChapterInv, NEW j \in Job, PointMoves(j), ChapterTypes', QueueWaits', StartsCounted',
         queue = <<>> => UNCHANGED queue,
         queue = <<>> => pooled[j] \in Chapter!Active
  PROVE  ChapterInv'
<1>1. pooled \in [Job -> Chapter!Results \cup Chapter!Active \cup {"no", "queued", "dropped"}]
  BY DEF ChapterInv, ChapterTypes
<1>2. PICK r \in Chapter!Results \cup Chapter!Active \cup {"dropped"} : pooled' = [pooled EXCEPT ![j] = r]
  BY DEF PointMoves
<1>3. r # "no" /\ pooled'[j] = r /\ \A i \in Job \ {j} : pooled'[i] = pooled[i]
  BY <1>1, <1>2 DEF Chapter!Results, Chapter!Active
<1>4. Sent' = Sent /\ j \in Sent
  BY <1>1, <1>3 DEF Sent, PointMoves
<1>5. UNCHANGED <<chapterPlace, answer, jobs, threads, inline, pending, chapterStop, done>>
  BY DEF PointMoves
<1>6. NotYet'
  BY <1>4, <1>5 DEF ChapterInv, NotYet
<1>7. InSubmission'
  BY <1>4, <1>5 DEF ChapterInv, InSubmission
<1>8. Awaited'
  <2> SUFFICES ASSUME chapterPlace \in {"start", "submit", "wait", "raising"}
               PROVE  \A i \in Sent : i \in pending \/ pooled'[i] = "success"
    BY <1>4, <1>5 DEF ChapterInv, Awaited
  <2>1. j \in pending
    BY <1>4 DEF ChapterInv, Awaited, PointMoves
  <2> QED
    BY <1>3, <2>1 DEF ChapterInv, Awaited, Sent
<1>9. GoneThrough'
  BY <1>5 DEF ChapterInv, GoneThrough, InlineUpTo
<1>10. Answered'
  <2>1. answer = "success" => \A i \in 1 .. Len(jobs) : "success" \in {pooled'[jobs[i]], inline[jobs[i]]}
    <3>1. ChapterTypes
      BY DEF ChapterInv
    <3>2. \A i \in 1 .. Len(jobs) : jobs[i] \in Job
      BY <3>1, ChapterSeqs
    <3> QED
      BY <1>3, <3>2 DEF ChapterInv, Answered, PointMoves
  <2>2. chapterPlace = "returned" => queue = <<>> /\ pooled[j] \in Chapter!Active
    BY DEF ChapterInv, Answered
  <2>3. chapterPlace = "returned" /\ answer \in {"success", "raised"} => FellBack
    BY <2>2 DEF ChapterInv, Answered
  <2>4. FellBack' = FellBack
    BY <1>5 DEF FellBack
  <2> QED
    BY <1>5, <2>1, <2>2, <2>3, <2>4 DEF ChapterInv, Answered
<1> QED
  BY <1>6, <1>7, <1>8, <1>9, <1>10 DEF ChapterInv

LEMMA WorkKeeps ==
  ASSUME ChapterInv, NEW j \in Job, Chapter!Work(j)
  PROVE  ChapterInv'
<1>1. ChapterTypes
  BY DEF ChapterInv
<1>2. PICK r \in Chapter!Outcomes(j, pooled[j]) : pooled' = [pooled EXCEPT ![j] = r]
  BY DEF Chapter!Work
<1>3. r \in Chapter!Results \cup {"audio"}
  BY DEF Chapter!Outcomes, Chapter!Results
<1>4. /\ UNCHANGED <<chapterPlace, answer, jobs, queue, threads, inline, pending, chapterStop, started, done>>
      /\ pooled[j] \in Chapter!Active
  BY DEF Chapter!Work
<1>5. PointMoves(j)
  BY <1>2, <1>3, <1>4 DEF PointMoves, Chapter!Results, Chapter!Active
<1>6. ChapterTypes'
  BY <1>1, <1>2, <1>3, <1>4 DEF ChapterTypes, Chapter!Active, Chapter!Results
<1>7. QueueWaits'
  BY <1>1, <1>2, <1>4, ChapterSeqs DEF ChapterInv, QueueWaits, ChapterTypes, Chapter!Active
<1>8. StartsCounted'
  BY <1>1, <1>2, <1>3, <1>4 DEF ChapterInv, StartsCounted, ChapterTypes, Chapter!Active, Chapter!Results
<1> QED
  BY <1>4, <1>5, <1>6, <1>7, <1>8, MoveKeeps

LEMMA TakeKeeps ==
  ASSUME ChapterInv, Chapter!Take
  PROVE  ChapterInv'
<1>1. ChapterTypes /\ queue # <<>>
  BY DEF ChapterInv, Chapter!Take
<1> DEFINE j == Head(queue)
<1>2. /\ j \in Job /\ j = queue[1] /\ Tail(queue) \in Chapter!Orders
      /\ Len(Tail(queue)) = Len(queue) - 1 /\ Len(queue) \in Nat \ {0}
      /\ \A i \in 1 .. Len(Tail(queue)) : Tail(queue)[i] = queue[i + 1] /\ Tail(queue)[i] # j
  BY <1>1, OrderShrinks DEF ChapterTypes
<1>3. pooled[j] \in {"queued", "dropped"}
  BY <1>2 DEF ChapterInv, QueueWaits
<1>4. /\ UNCHANGED <<chapterPlace, answer, jobs, threads, inline, pending, chapterStop, done>>
      /\ queue' = Tail(queue)
      /\ started' = [started EXCEPT ![j] = IF pooled[j] = "queued" /\ ~chapterStop THEN @ + 1 ELSE @]
      /\ pooled' = [pooled EXCEPT ![j] = IF @ = "queued" /\ chapterStop THEN "cancelled"
                                         ELSE IF @ = "queued" THEN "first" ELSE @]
  BY DEF Chapter!Take
<1> DEFINE r == IF pooled[j] = "queued" /\ chapterStop THEN "cancelled"
                ELSE IF pooled[j] = "queued" THEN "first" ELSE pooled[j]
<1>5. r \in {"cancelled", "first", "dropped"} /\ (r = "dropped" => pooled[j] = "dropped")
  BY <1>3
<1>6. pooled' = [pooled EXCEPT ![j] = r]
  BY <1>1, <1>2, <1>4 DEF ChapterTypes
<1> HIDE DEF r, j
<1>7. PointMoves(j)
  BY <1>3, <1>4, <1>5, <1>6 DEF PointMoves, Chapter!Results, Chapter!Active
<1>8. ChapterTypes'
  <2>1. pooled' \in [Job -> Chapter!Results \cup Chapter!Active \cup {"no", "queued", "dropped"}]
    BY <1>1, <1>2, <1>5, <1>6 DEF ChapterTypes, Chapter!Results, Chapter!Active
  <2>2. started' \in [Job -> Nat]
    <3>0. j \in Job /\ started \in [Job -> Nat]
      BY <1>1, <1>2 DEF ChapterTypes
    <3>1. started \in [Job -> Nat] /\ started[j] \in Nat /\ started[j] + 1 \in Nat
      BY <3>0
    <3> QED
      BY <1>4, <3>1
  <2> QED
    BY <1>1, <1>2, <1>4, <2>1, <2>2 DEF ChapterTypes
<1>9. QueueWaits'
  <2> SUFFICES ASSUME NEW i \in 1 .. Len(Tail(queue)) PROVE pooled'[Tail(queue)[i]] \in {"queued", "dropped"}
    BY <1>4 DEF QueueWaits
  <2>0. Tail(queue)[i] = queue[i + 1] /\ Tail(queue)[i] # j
    BY <1>2
  <2>1. i + 1 \in 1 .. Len(queue) /\ Tail(queue)[i] = queue[i + 1] /\ Tail(queue)[i] # j
    <3>1. \A n \in Nat \ {0} : \A m \in 1 .. n - 1 : m + 1 \in 1 .. n
      OBVIOUS
    <3>2. Len(queue) \in Nat \ {0} /\ i \in 1 .. Len(queue) - 1
      BY <1>2, Zenon
    <3> QED
      BY <2>0, <3>1, <3>2, Zenon
  <2>2. pooled[queue[i + 1]] \in {"queued", "dropped"} /\ queue[i + 1] \in Job
    BY <1>1, <2>1, ChapterSeqs DEF ChapterInv, QueueWaits
  <2> QED
    BY <1>1, <1>6, <2>1, <2>2 DEF ChapterTypes
<1>10. StartsCounted'
  <2> SUFFICES ASSUME NEW i \in Job
               PROVE  started'[i] <= (IF pooled'[i] \in {"no", "queued", "dropped"} THEN 0 ELSE 1)
                                     + (IF inline[i] = "no" THEN 0 ELSE 1)
    BY <1>4 DEF StartsCounted
  <2>1. CASE i = j
    <3>1. /\ started \in [Job -> Nat] /\ started[j] \in Nat
          /\ pooled \in [Job -> Chapter!Results \cup Chapter!Active \cup {"no", "queued", "dropped"}]
      BY <1>1, <1>2 DEF ChapterTypes
    <3>2. started[j] <= 0 + (IF inline[j] = "no" THEN 0 ELSE 1)
      BY <1>2, <1>3 DEF ChapterInv, StartsCounted
    <3>3. pooled'[j] = r /\ started'[j] = IF pooled[j] = "queued" /\ ~chapterStop THEN started[j] + 1 ELSE started[j]
      BY <1>2, <1>4, <1>6, <3>1
    <3>4. CASE pooled[j] = "queued"
      BY <1>5, <2>1, <3>1, <3>2, <3>3, <3>4 DEF r
    <3>5. CASE pooled[j] = "dropped"
      BY <1>5, <2>1, <3>1, <3>2, <3>3, <3>5 DEF r
    <3> QED
      BY <1>3, <3>4, <3>5
  <2>2. CASE i # j
    BY <1>1, <1>2, <1>4, <1>6, <2>2 DEF ChapterInv, StartsCounted, ChapterTypes
  <2> QED
    BY <2>1, <2>2
<1> QED
  BY <1>1, <1>2, <1>7, <1>8, <1>9, <1>10, MoveKeeps
\* A return: what is left to show is what it promises.
LEMMA ReturnKeeps ==
  ASSUME ChapterInv, ChapterTypes', StartsCounted',
         chapterPlace' = "returned", queue' = <<>>,
         done' = 1 <=> answer' = "success",
         answer' = "success" =>
            \A i \in 1 .. Len(jobs') : "success" \in {pooled'[jobs'[i]], inline'[jobs'[i]]},
         answer' \in {"success", "raised"} =>
            FellBack' \/ \A j \in Job : pooled'[j] \notin Chapter!Active
  PROVE  ChapterInv'
<1>1. Len(queue') = 0
  OBVIOUS
<1>2. QueueWaits'
  BY <1>1 DEF QueueWaits
<1>3. NotYet' /\ InSubmission' /\ Awaited' /\ GoneThrough'
  BY DEF NotYet, InSubmission, Awaited, GoneThrough
<1>4. Answered'
  BY DEF Answered
<1> QED
  BY <1>2, <1>3, <1>4 DEF ChapterInv

\* Before a return nothing was answered or counted.
LEMMA NotAnswered == ChapterInv /\ chapterPlace # "returned" => answer = "none" /\ done = 0
BY DEF ChapterInv, Answered, ChapterTypes

\* The executor is left behind, with an answer that is no success.
LEMMA LeaveKeeps ==
  ASSUME ChapterInv, chapterPlace # "returned",
         NEW r \in {"cancelled", "failure", "raised"}, Chapter!LeaveWith(r),
         UNCHANGED <<jobs, chapterStop, started, done>>,
         inline' \in [Job -> Chapter!Results \cup Chapter!Active \cup {"no"}],
         \A j \in Job : inline'[j] = "no" <=> inline[j] = "no",
         r = "raised" => FellBack
  PROVE  ChapterInv'
<1>1. /\ chapterPlace' = "returned" /\ answer' = r /\ queue' = <<>> /\ pending' = {}
      /\ UNCHANGED <<threads, pooled>>
  BY DEF Chapter!LeaveWith
<1>2. ChapterTypes'
  <2>1. answer' \in Chapter!Results /\ pending' \subseteq Job /\ queue' \in Chapter!Orders
    BY <1>1, SmallOrders DEF Chapter!Results
  <2> QED
    BY <1>1, <2>1 DEF ChapterInv, ChapterTypes
<1>3. StartsCounted'
  BY <1>1 DEF ChapterInv, StartsCounted
<1>4. FellBack' <=> FellBack
  BY DEF FellBack
<1> QED
  BY <1>1, <1>2, <1>3, <1>4, NotAnswered, ReturnKeeps

LEMMA FetchKeeps ==
  ASSUME ChapterInv, Chapter!Fetch
  PROVE  ChapterInv'
<1>1. /\ chapterPlace = "start" /\ answer = "none" /\ done = 0
      /\ jobs = <<>> /\ queue = <<>> /\ Sent = {}
      /\ UNCHANGED <<queue, threads, pooled, inline, pending, chapterStop, started>>
  BY NotAnswered DEF Chapter!Fetch, Chapter!ReturnEarly, Chapter!pool, Chapter!work, ChapterInv, NotYet
<1>2. \/ /\ chapterPlace' = "returned" /\ answer' = "success" /\ done' = 1 /\ jobs' = <<>>
      \/ /\ chapterPlace' = "returned" /\ answer' \in {"raised", "cancelled", "failure", "not open"}
         /\ done' = 0 /\ jobs' \in Chapter!Orders
      \/ chapterPlace' = "submit" /\ answer' = "none" /\ done' = 0 /\ jobs' \in Chapter!Orders
  <2>1. CASE Chapter!ReturnEarly("success") /\ done' = done + 1 /\ UNCHANGED jobs
    BY <1>1, <2>1 DEF Chapter!ReturnEarly
  <2>2. CASE (Chapter!ReturnEarly("raised") \/ Chapter!ReturnEarly("cancelled")) /\ UNCHANGED <<done, jobs>>
    BY <1>1, <2>2, SmallOrders DEF Chapter!ReturnEarly
  <2>3. CASE \E c \in Chapter!Cards \X Chapter!Cards :
              /\ Chapter!JobList(c).jobs \in Chapter!Orders
              /\ jobs' = Chapter!JobList(c).jobs
              /\ IF Chapter!JobList(c).status = "read"
                 THEN chapterPlace' = "submit" /\ UNCHANGED <<answer, Chapter!pool, pending>>
                 ELSE Chapter!ReturnEarly(Chapter!JobList(c).status)
              /\ UNCHANGED done
    <3>1. PICK c \in Chapter!Cards \X Chapter!Cards :
              /\ Chapter!JobList(c).jobs \in Chapter!Orders
              /\ jobs' = Chapter!JobList(c).jobs
              /\ IF Chapter!JobList(c).status = "read"
                 THEN chapterPlace' = "submit" /\ UNCHANGED <<answer, Chapter!pool, pending>>
                 ELSE Chapter!ReturnEarly(Chapter!JobList(c).status)
              /\ UNCHANGED done
      BY <2>3
    <3>2. Chapter!JobList(c).status \in {"read", "failure", "not open"}
      BY DEF Chapter!JobList
    <3> QED
      BY <1>1, <3>1, <3>2 DEF Chapter!ReturnEarly
  <2> QED
    BY <2>1, <2>2, <2>3 DEF Chapter!Fetch
<1>3. ChapterTypes'
  <2>0. <<>> \in Chapter!Orders
    BY SmallOrders
  <2>1. jobs' \in Chapter!Orders
    BY <1>2, <2>0, Zenon
  <2>4. done' = 0 \/ done' = 1
    BY <1>2, Zenon
  <2>5. done' \in 0 .. 1
    BY <2>4
  <2>2. answer' \in Chapter!Results \cup {"none", "not open"}
    BY <1>2 DEF Chapter!Results
  <2>3. chapterPlace' \in {"submit", "returned"}
    BY <1>2
  <2> QED
    BY <1>1, <2>1, <2>2, <2>3, <2>5 DEF ChapterInv, ChapterTypes
<1>4. StartsCounted'
  BY <1>1 DEF ChapterInv, StartsCounted
<1>5. \A j \in Job : pooled'[j] = "no"
  BY <1>1 DEF Sent
<1>6. CASE chapterPlace' = "returned"
  <2>1. answer' = "success" => Len(jobs') = 0
    BY <1>2, <1>6
  <2>2. \A j \in Job : pooled'[j] \notin Chapter!Active
    BY <1>5 DEF Chapter!Active
  <2>3. done' = 1 <=> answer' = "success"
    <3>1. CASE answer' = "success" /\ done' = 1
      BY <3>1
    <3>2. CASE answer' \in {"raised", "cancelled", "failure", "not open"} /\ done' = 0
      <4>0. answer' \in {"raised", "cancelled", "failure", "not open"}
        BY <3>2, Zenon
      <4>1. answer' # "success"
        BY <4>0
      <4>2. done' = 0
        BY <3>2, Zenon
      <4>3. done' # 1
        BY <4>2
      <4> QED
        BY <4>1, <4>3
    <3>3. chapterPlace' # "submit"
      BY <1>6
    <3> QED
      BY <1>2, <3>1, <3>2, <3>3, Zenon
  <2>4. queue' = <<>>
    BY <1>1
  <2>5. answer' = "success" =>
          \A i \in 1 .. Len(jobs') : "success" \in {pooled'[jobs'[i]], inline'[jobs'[i]]}
    BY <2>1
  <2> QED
    BY <1>3, <1>4, <1>6, <2>2, <2>3, <2>4, <2>5, ReturnKeeps
<1>7. CASE chapterPlace' = "submit"
  <2>1. Sent' = {} /\ Cardinality({}) = 0 /\ Len(jobs') \in Nat
    BY <1>3, <1>5, FS_EmptySet, OrdersAre, LenProperties DEF Sent, ChapterTypes
  <2>2. InSubmission'
    BY <1>7, <2>1 DEF InSubmission
  <2>3. QueueWaits' /\ NotYet' /\ GoneThrough'
    BY <1>1, <1>7 DEF ChapterInv, QueueWaits, NotYet, GoneThrough
  <2>4. Awaited'
    BY <1>1, <1>7, <2>1 DEF ChapterInv, Awaited
  <2>5. Answered'
    BY <1>2, <1>7 DEF Answered
  <2> QED
    BY <1>3, <1>4, <2>2, <2>3, <2>4, <2>5 DEF ChapterInv
<1> QED
  BY <1>2, <1>6, <1>7

\* The next task point to be submitted is a new one.
LEMMA NextIsNew ==
  ASSUME ChapterInv, chapterPlace = "submit", Chapter!Submitted < Len(jobs)
  PROVE  /\ Chapter!Next1 = jobs[Cardinality(Sent) + 1] /\ Chapter!Next1 \in Job
         /\ Cardinality(Sent) + 1 \in 1 .. Len(jobs)
         /\ Chapter!Next1 \notin Sent
         /\ \A i \in 1 .. Len(queue) : queue[i] # Chapter!Next1
<1>1. ChapterTypes
  BY DEF ChapterInv
<1>2. Chapter!Submitted = Cardinality(Sent) /\ Cardinality(Sent) \in Nat
  BY SentCounted
<1> DEFINE n == Cardinality(Sent)
<1>3. n + 1 \in 1 .. Len(jobs) /\ (\A i \in 1 .. n : i \in 1 .. Len(jobs) /\ i # n + 1)
  BY <1>1, <1>2, ChapterSeqs
<1>4. Chapter!Next1 = jobs[n + 1]
  BY <1>2 DEF Chapter!Next1
<1>5. Sent = {jobs[i] : i \in 1 .. n}
  BY DEF ChapterInv, InSubmission
<1> HIDE DEF n
<1>6. jobs[n + 1] \in Job /\ \A i \in 1 .. n : jobs[i] # jobs[n + 1]
  BY <1>1, <1>3, ChapterSeqs
<1>7. jobs[n + 1] \notin Sent
  BY <1>5, <1>6
<1>8. \A i \in 1 .. Len(queue) : queue[i] \in Sent
  BY <1>1, ChapterSeqs DEF ChapterInv, QueueWaits, Sent
<1> QED
  BY <1>3, <1>4, <1>6, <1>7, <1>8 DEF n

LEMMA SubmitKeeps ==
  ASSUME ChapterInv, Chapter!Submit
  PROVE  ChapterInv'
<1> DEFINE j == Chapter!Next1
<1>1. /\ chapterPlace = "submit" /\ Chapter!Submitted < Len(jobs)
      /\ queue' = Append(queue, j) /\ pooled' = [pooled EXCEPT ![j] = "queued"]
      /\ pending' = pending \cup {j}
      /\ UNCHANGED <<chapterPlace, answer, jobs, inline, chapterStop, started, done>>
  BY DEF Chapter!Submit, Chapter!work
<1>2. /\ j = jobs[Cardinality(Sent) + 1] /\ j \in Job /\ j \notin Sent
      /\ Cardinality(Sent) + 1 \in 1 .. Len(jobs)
      /\ \A i \in 1 .. Len(queue) : queue[i] # j
  BY <1>1, NextIsNew
<1>3. threads' \in 0 .. MaxThreads
  <2>1. threads \in 0 .. MaxThreads /\ MaxThreads \in Nat
    BY ChapterAssumption DEF ChapterInv, ChapterTypes
  <2>2. threads' = threads \/ (threads # MaxThreads /\ threads' = threads + 1)
    BY Zenon DEF Chapter!Submit
  <2> QED
    BY <2>1, <2>2
<1> HIDE DEF j
<1>4. ChapterTypes
  BY DEF ChapterInv
<1>5. /\ queue' \in Chapter!Orders /\ Len(queue') = Len(queue) + 1 /\ Len(queue) \in Nat
      /\ (\A i \in 1 .. Len(queue) : queue'[i] = queue[i]) /\ queue'[Len(queue) + 1] = j
  <2>1. queue \in Chapter!Orders
    BY <1>4 DEF ChapterTypes
  <2>2. Append(queue, j) \in Chapter!Orders
    BY <1>2, <2>1, OrderGrows
  <2>3. queue \in Seq(Job)
    BY <1>4, ChapterSeqs
  <2>4. Len(Append(queue, j)) = Len(queue) + 1 /\ Len(queue) \in Nat
    BY <2>3
  <2>5. /\ \A i \in 1 .. Len(queue) : Append(queue, j)[i] = queue[i]
        /\ Append(queue, j)[Len(queue) + 1] = j
    BY <2>3
  <2> QED
    BY <1>1, <2>2, <2>4, <2>5
<1>6. /\ pooled' \in [Job -> Chapter!Results \cup Chapter!Active \cup {"no", "queued", "dropped"}]
      /\ pooled'[j] = "queued" /\ \A i \in Job \ {j} : pooled'[i] = pooled[i]
  BY <1>1, <1>2, <1>4 DEF ChapterTypes
<1>7. ChapterTypes'
  BY <1>1, <1>2, <1>3, <1>4, <1>5, <1>6 DEF ChapterTypes
<1>8. QueueWaits'
  <2> SUFFICES ASSUME NEW i \in 1 .. Len(queue) + 1 PROVE pooled'[queue'[i]] \in {"queued", "dropped"}
    BY <1>5 DEF QueueWaits
  <2>1. CASE i = Len(queue) + 1
    BY <1>5, <1>6, <2>1
  <2>2. CASE i # Len(queue) + 1
    <3>1. i \in 1 .. Len(queue)
      BY <1>5, <2>2
    <3> QED
      BY <1>2, <1>4, <1>5, <1>6, <3>1, ChapterSeqs DEF ChapterInv, QueueWaits
  <2> QED
    BY <2>1, <2>2
<1>9. StartsCounted'
  BY <1>1, <1>2, <1>6 DEF ChapterInv, StartsCounted, Sent
<1>10. Sent' = Sent \cup {j}
  BY <1>2, <1>6 DEF Sent
<1>11. InSubmission'
  <2>1. Cardinality(Sent') = Cardinality(Sent) + 1 /\ Cardinality(Sent) \in Nat
    BY <1>2, <1>10, SentCounted, FS_AddElement
  <2> DEFINE n == Cardinality(Sent)
  <2>2. Sent = {jobs[i] : i \in 1 .. n}
    BY <1>1 DEF ChapterInv, InSubmission
  <2>3. n \in Nat /\ Sent' = {jobs[i] : i \in 1 .. n + 1}
    BY <1>2, <1>10, <2>1, <2>2
  <2> QED
    BY <1>1, <1>2, <2>1, <2>3 DEF InSubmission
<1>12. NotYet' /\ GoneThrough'
  BY <1>1 DEF NotYet, GoneThrough
<1>13. Awaited'
  BY <1>1, <1>2, <1>6, <1>10 DEF ChapterInv, Awaited, Sent
<1>14. Answered'
  BY <1>1, NotAnswered DEF Answered
<1> QED
  BY <1>7, <1>8, <1>9, <1>11, <1>12, <1>13, <1>14 DEF ChapterInv
LEMMA AllSubmittedKeeps ==
  ASSUME ChapterInv, Chapter!AllSubmitted
  PROVE  ChapterInv'
<1>1. /\ chapterPlace = "submit" /\ chapterPlace' = "wait" /\ Cardinality(Sent) = Len(jobs)
      /\ UNCHANGED <<answer, jobs, queue, threads, pooled, pending, chapterStop, inline, started, done>>
  BY SentCounted DEF Chapter!AllSubmitted, Chapter!pool, Chapter!work
<1>2. Sent' = Sent
  BY <1>1 DEF Sent
<1>3. InSubmission'
  <2>1. \A i \in 1 .. Len(jobs) : jobs[i] \in Sent
    BY <1>1 DEF ChapterInv, InSubmission
  <2> QED
    BY <1>1, <1>2, <2>1 DEF InSubmission
<1>4. ChapterTypes' /\ QueueWaits' /\ StartsCounted'
  BY <1>1 DEF ChapterInv, ChapterTypes, QueueWaits, StartsCounted
<1>5. NotYet' /\ GoneThrough'
  BY <1>1 DEF NotYet, GoneThrough
<1>6. Awaited' /\ Answered'
  BY <1>1, <1>2, NotAnswered DEF ChapterInv, Awaited, Answered
<1> QED
  BY <1>3, <1>4, <1>5, <1>6 DEF ChapterInv

LEMMA SubmitFailsKeeps ==
  ASSUME ChapterInv, Chapter!SubmitFails
  PROVE  ChapterInv'
<1> DEFINE j == Chapter!Next1
<1>1. /\ chapterPlace = "submit" /\ Chapter!Submitted < Len(jobs)
      /\ queue' = <<j>> /\ pooled' = [Chapter!Cancelled(pending) EXCEPT ![j] = "queued"]
      /\ pending' = {} /\ chapterPlace' = "inline"
      /\ UNCHANGED <<answer, jobs, threads, chapterStop, inline, started, done>>
  BY DEF Chapter!SubmitFails, Chapter!work
<1>2. j \in Job /\ j \notin Sent /\ Cardinality(Sent) + 1 \in 1 .. Len(jobs)
  BY <1>1, NextIsNew
<1> HIDE DEF j
<1>3. ChapterTypes
  BY DEF ChapterInv
<1>4. /\ pooled' \in [Job -> Chapter!Results \cup Chapter!Active \cup {"no", "queued", "dropped"}]
      /\ pooled'[j] = "queued"
      /\ \A i \in Job \ {j} : \/ pooled'[i] = pooled[i]
                              \/ pooled[i] = "queued" /\ pooled'[i] = "dropped"
  BY <1>1, <1>2, <1>3 DEF ChapterTypes, Chapter!Cancelled
<1>5. queue' \in Chapter!Orders /\ Len(queue') = 1 /\ queue'[1] = j
  BY <1>1, <1>2, SmallOrders
<1>6. ChapterTypes'
  BY <1>1, <1>3, <1>4, <1>5 DEF ChapterTypes
<1>7. QueueWaits'
  BY <1>4, <1>5 DEF QueueWaits
<1>8. StartsCounted'
  BY <1>1, <1>2, <1>4 DEF ChapterInv, StartsCounted, Sent
<1>9. NotYet' /\ InSubmission' /\ Awaited'
  BY <1>1 DEF NotYet, InSubmission, Awaited
<1>10. GoneThrough'
  <2>1. Len(jobs) \in Nat /\ \A i \in 1 .. Len(jobs) : jobs[i] \in Job /\ inline[jobs[i]] = "no"
    BY <1>1, <1>3, ChapterSeqs DEF ChapterInv, Awaited
  <2>2. InlineUpTo(1)
    BY <2>1 DEF InlineUpTo
  <2>3. jobs # <<>> /\ 1 \in 1 .. Len(jobs) + 1
    BY <1>2, <2>1
  <2>4. InlineUpTo(1)'
    BY <1>1, <2>2 DEF InlineUpTo
  <2> QED
    BY <1>1, <2>3, <2>4 DEF GoneThrough
<1>11. Answered'
  BY <1>1, NotAnswered DEF Answered
<1> QED
  BY <1>6, <1>7, <1>8, <1>9, <1>10, <1>11 DEF ChapterInv

\* Where process_chapter is in going through the points itself.
LEMMA InlineAtIs ==
  ASSUME ChapterInv, chapterPlace = "inline"
  PROVE  /\ Chapter!InlineAt \in 1 .. Len(jobs) + 1 /\ InlineUpTo(Chapter!InlineAt)
         /\ Len(jobs) \in Nat \ {0}
<1>1. ChapterTypes
  BY DEF ChapterInv
<1>2. Len(jobs) \in Nat /\ jobs # <<>> /\ jobs \in Seq(Job)
  BY <1>1, ChapterSeqs DEF ChapterInv, GoneThrough
<1>3. PICK k \in 1 .. Len(jobs) + 1 : InlineUpTo(k)
  BY DEF ChapterInv, GoneThrough
<1> DEFINE At(i) == /\ i > Len(jobs) \/ inline[jobs[i]] # "success"
                    /\ \A m \in 1 .. i - 1 : inline[jobs[m]] = "success"
<1>4. At(k)
  BY <1>2, <1>3 DEF InlineUpTo
<1>5. \A i \in 1 .. Len(jobs) + 1 : At(i) => i = k
  <2> SUFFICES ASSUME NEW i \in 1 .. Len(jobs) + 1, At(i), i # k PROVE FALSE
    OBVIOUS
  <2>1. CASE i < k
    BY <1>2, <1>4, <2>1
  <2>2. CASE i > k
    BY <1>2, <1>4, <2>2
  <2> QED
    BY <1>2, <2>1, <2>2
<1>6. Chapter!InlineAt = CHOOSE i \in 1 .. Len(jobs) + 1 : At(i)
  BY DEF Chapter!InlineAt
<1>7. Chapter!InlineAt = k
  BY <1>4, <1>5, <1>6
<1> QED
  BY <1>2, <1>3, <1>7

LEMMA StartInlineKeeps ==
  ASSUME ChapterInv, Chapter!StartInline
  PROVE  ChapterInv'
<1>1. PICK k \in 1 .. Len(jobs) : k = Chapter!InlineAt /\ InlineUpTo(k) /\ Len(jobs) \in Nat \ {0}
  BY InlineAtIs DEF Chapter!StartInline
<1>3. ChapterTypes
  BY DEF ChapterInv
<1>4. PICK j \in Job : j = jobs[k]
  BY <1>1, <1>3, ChapterSeqs
<1>2. /\ chapterPlace = "inline" /\ inline[j] = "no"
      /\ UNCHANGED <<jobs, chapterStop, done>>
  BY <1>1, <1>4 DEF Chapter!StartInline
<1>5. CASE Chapter!LeaveWith("cancelled") /\ UNCHANGED <<inline, started>>
  BY <1>2, <1>3, <1>5, LeaveKeeps DEF ChapterTypes
<1>6. CASE /\ inline' = [inline EXCEPT ![j] = "first"]
           /\ started' = [started EXCEPT ![j] = @ + 1]
           /\ UNCHANGED <<chapterPlace, answer, queue, threads, pooled, pending>>
  <2>1. /\ inline' \in [Job -> Chapter!Results \cup Chapter!Active \cup {"no"}]
        /\ inline'[j] = "first" /\ \A i \in Job \ {j} : inline'[i] = inline[i]
    BY <1>3, <1>4, <1>6 DEF ChapterTypes, Chapter!Active
  <2>2. /\ started' \in [Job -> Nat] /\ started'[j] = started[j] + 1 /\ started[j] \in Nat
        /\ \A i \in Job \ {j} : started'[i] = started[i]
    <3>0. started \in [Job -> Nat]
      BY <1>3 DEF ChapterTypes
    <3>1. started \in [Job -> Nat] /\ started[j] \in Nat /\ started[j] + 1 \in Nat
      BY <1>4, <3>0
    <3> QED
      BY <1>4, <1>6, <3>1
  <2>3. ChapterTypes'
    BY <1>2, <1>3, <1>6, <2>1, <2>2 DEF ChapterTypes
  <2>4. StartsCounted'
    <3> SUFFICES ASSUME NEW i \in Job
                 PROVE  started'[i] <= (IF pooled[i] \in {"no", "queued", "dropped"} THEN 0 ELSE 1)
                                       + (IF inline'[i] = "no" THEN 0 ELSE 1)
      BY <1>6 DEF StartsCounted
    <3>1. started[i] <= (IF pooled[i] \in {"no", "queued", "dropped"} THEN 0 ELSE 1)
                        + (IF inline[i] = "no" THEN 0 ELSE 1)
      BY DEF ChapterInv, StartsCounted
    <3>2. CASE i = j
      BY <1>2, <2>1, <2>2, <3>1, <3>2
    <3>3. CASE i # j
      BY <2>1, <2>2, <3>1, <3>3
    <3> QED
      BY <3>2, <3>3
  <2>5. QueueWaits' /\ NotYet' /\ InSubmission' /\ Awaited'
    BY <1>2, <1>6 DEF ChapterInv, QueueWaits, NotYet, InSubmission, Awaited
  <2>6. \A i \in 1 .. Len(jobs) : i # k => jobs[i] # j /\ jobs[i] \in Job
    BY <1>1, <1>3, <1>4, ChapterSeqs
  <2>7. InlineUpTo(k)'
    <3>1. \A i \in 1 .. Len(jobs) : i # k => inline'[jobs[i]] = inline[jobs[i]]
      BY <2>1, <2>6
    <3>2. (\A i \in 1 .. k - 1 : i \in 1 .. Len(jobs) /\ i # k)
          /\ (\A i \in k + 1 .. Len(jobs) : i \in 1 .. Len(jobs) /\ i # k)
      BY <1>1
    <3>3. inline'[jobs[k]] # "success"
      BY <1>4, <2>1
    <3> QED
      BY <1>1, <1>2, <3>1, <3>2, <3>3 DEF InlineUpTo
  <2>8. GoneThrough'
    <3>1. jobs # <<>>
      BY <1>2 DEF ChapterInv, GoneThrough
    <3> QED
      BY <1>1, <1>2, <1>6, <2>7, <3>1 DEF GoneThrough
  <2>9. Answered'
    BY <1>2, <1>6, NotAnswered DEF Answered
  <2> QED
    BY <2>3, <2>4, <2>5, <2>8, <2>9 DEF ChapterInv
<1> QED
  BY <1>1, <1>4, <1>5, <1>6 DEF Chapter!StartInline, Chapter!pool, Chapter!work
LEMMA WorkInlineKeeps ==
  ASSUME ChapterInv, Chapter!WorkInline
  PROVE  ChapterInv'
<1>1. PICK k \in 1 .. Len(jobs) : k = Chapter!InlineAt /\ InlineUpTo(k) /\ Len(jobs) \in Nat \ {0}
  BY InlineAtIs DEF Chapter!WorkInline
<1>2. ChapterTypes
  BY DEF ChapterInv
<1>3. PICK j \in Job : j = jobs[k]
  BY <1>1, <1>2, ChapterSeqs
<1>4. /\ chapterPlace = "inline" /\ inline[j] \in Chapter!Active
      /\ UNCHANGED <<jobs, chapterStop, started, done>>
  BY <1>1, <1>3 DEF Chapter!WorkInline
<1>5. PICK r \in Chapter!Outcomes(j, inline[j]) :
        /\ inline' = [inline EXCEPT ![j] = r]
        /\ IF r \in {"success", "audio"}
           THEN UNCHANGED <<chapterPlace, answer, queue, threads, pooled, pending>>
           ELSE Chapter!LeaveWith(r)
  BY <1>1, <1>3 DEF Chapter!WorkInline, Chapter!pool
<1>6. r \in {"cancelled", "success", "raised", "audio", "failure"}
  BY DEF Chapter!Outcomes
<1>7. /\ inline' \in [Job -> Chapter!Results \cup Chapter!Active \cup {"no"}]
      /\ inline'[j] = r /\ (\A i \in Job \ {j} : inline'[i] = inline[i])
      /\ r # "no" /\ inline[j] # "no"
  BY <1>2, <1>4, <1>5, <1>6 DEF ChapterTypes, Chapter!Active, Chapter!Results
<1>8. CASE r \notin {"success", "audio"}
  <2>1. FellBack
    BY <1>7 DEF FellBack
  <2>2. \A i \in Job : inline'[i] = "no" <=> inline[i] = "no"
    BY <1>7
  <2>3. r \in {"cancelled", "failure", "raised"} /\ Chapter!LeaveWith(r)
    BY <1>5, <1>6, <1>8
  <2> QED
    BY <1>4, <1>7, <2>1, <2>2, <2>3, LeaveKeeps
<1>9. CASE r \in {"success", "audio"}
  <2>1. UNCHANGED <<chapterPlace, answer, queue, threads, pooled, pending>>
    BY <1>5, <1>9
  <2>2. ChapterTypes' /\ QueueWaits'
    BY <1>2, <1>4, <1>7, <2>1 DEF ChapterInv, ChapterTypes, QueueWaits
  <2>3. StartsCounted'
    BY <1>4, <1>7, <2>1 DEF ChapterInv, StartsCounted
  <2>4. NotYet' /\ InSubmission' /\ Awaited'
    BY <1>4, <2>1 DEF NotYet, InSubmission, Awaited
  <2>5. \A i \in 1 .. Len(jobs) : i # k => jobs[i] # j /\ inline'[jobs[i]] = inline[jobs[i]]
    BY <1>1, <1>2, <1>3, <1>7, ChapterSeqs
  <2>6. jobs # <<>>
    BY <1>4 DEF ChapterInv, GoneThrough
  <2>7. GoneThrough'
    <3>1. CASE r = "audio"
      <4>1. (\A i \in 1 .. k - 1 : i \in 1 .. Len(jobs) /\ i # k)
            /\ (\A i \in k + 1 .. Len(jobs) : i \in 1 .. Len(jobs) /\ i # k)
        BY <1>1
      <4>2. inline'[jobs[k]] # "success"
        BY <1>3, <1>7, <3>1
      <4>3. InlineUpTo(k)'
        BY <1>1, <1>4, <2>5, <4>1, <4>2 DEF InlineUpTo
      <4> QED
        BY <1>1, <1>4, <2>6, <4>3 DEF GoneThrough
    <3>2. CASE r = "success"
      <4>1. /\ k + 1 \in 1 .. Len(jobs) + 1
            /\ \A i \in 1 .. (k + 1) - 1 : i \in 1 .. Len(jobs) /\ (i # k => i \in 1 .. k - 1)
            /\ \A i \in (k + 1) + 1 .. Len(jobs) : i \in k + 1 .. Len(jobs) /\ i \in 1 .. Len(jobs) /\ i # k
            /\ k + 1 <= Len(jobs) => k + 1 \in k + 1 .. Len(jobs) /\ k + 1 \in 1 .. Len(jobs) /\ k + 1 # k
        BY <1>1
      <4>2. \A i \in 1 .. (k + 1) - 1 : inline'[jobs[i]] = "success"
        BY <1>1, <1>3, <1>7, <2>5, <3>2, <4>1 DEF InlineUpTo
      <4>3. k + 1 <= Len(jobs) => inline'[jobs[k + 1]] # "success"
        BY <1>1, <2>5, <4>1 DEF InlineUpTo
      <4>4. \A i \in (k + 1) + 1 .. Len(jobs) : inline'[jobs[i]] = "no"
        BY <1>1, <2>5, <4>1 DEF InlineUpTo
      <4>5. InlineUpTo(k + 1)'
        BY <1>4, <4>2, <4>3, <4>4 DEF InlineUpTo
      <4> QED
        BY <1>4, <2>6, <4>1, <4>5 DEF GoneThrough
    <3> QED
      BY <1>9, <3>1, <3>2
  <2>8. Answered'
    BY <1>4, <2>1, NotAnswered DEF Answered
  <2> QED
    BY <2>2, <2>3, <2>4, <2>7, <2>8 DEF ChapterInv
<1> QED
  BY <1>8, <1>9

LEMMA InlineSucceedsKeeps ==
  ASSUME ChapterInv, Chapter!InlineSucceeds
  PROVE  ChapterInv'
<1>1. /\ chapterPlace = "inline" /\ Chapter!InlineAt > Len(jobs)
      /\ chapterPlace' = "returned" /\ answer' = "success" /\ queue' = <<>> /\ pending' = {}
      /\ done' = done + 1
      /\ UNCHANGED <<jobs, threads, pooled, chapterStop, inline, started>>
  BY DEF Chapter!InlineSucceeds, Chapter!LeaveWith, Chapter!work
<1>2. ChapterTypes /\ done = 0
  BY <1>1, NotAnswered DEF ChapterInv
<1>3. Len(jobs) \in Nat \ {0} /\ \A i \in 1 .. Len(jobs) : inline[jobs[i]] = "success" /\ jobs[i] \in Job
  <2>1. PICK k \in 1 .. Len(jobs) + 1 : k = Chapter!InlineAt /\ InlineUpTo(k) /\ Len(jobs) \in Nat \ {0}
    BY <1>1, InlineAtIs
  <2>2. k = Len(jobs) + 1
    BY <1>1, <2>1
  <2> QED
    BY <1>2, <2>1, <2>2, ChapterSeqs DEF InlineUpTo
<1>4. ChapterTypes'
  <2>1. done' = 1 /\ queue' \in Chapter!Orders
    BY <1>1, <1>2, SmallOrders
  <2>2. answer' \in Chapter!Results
    BY <1>1 DEF Chapter!Results
  <2>3. done' \in 0 .. 1
    BY <2>1
  <2> QED
    BY <1>1, <1>2, <2>1, <2>2, <2>3 DEF ChapterTypes
<1>5. StartsCounted'
  BY <1>1 DEF ChapterInv, StartsCounted
<1>6. FellBack'
  <2>1. jobs[1] \in Job /\ inline[jobs[1]] # "no"
    BY <1>3
  <2> QED
    BY <1>1, <2>1 DEF FellBack
<1> QED
  BY <1>1, <1>2, <1>3, <1>4, <1>5, <1>6, ReturnKeeps

\* The loop over the futures.
LEMMA CollectKeeps ==
  ASSUME ChapterInv, Chapter!Collect
  PROVE  ChapterInv'
<1>1. chapterPlace = "wait" /\ UNCHANGED <<jobs, chapterStop, inline, started, done>>
  BY DEF Chapter!Collect, Chapter!work
<1>2. ChapterTypes
  BY DEF ChapterInv
<1>3. CASE Chapter!LeaveWith("cancelled")
  BY <1>1, <1>2, <1>3, LeaveKeeps DEF ChapterTypes
<1>4. ASSUME NEW j \in Chapter!Bad, pooled[j] # "raised", Chapter!LeaveWith(pooled[j])
      PROVE  ChapterInv'
  <2>1. PICK r \in {"cancelled", "failure", "raised"} : r = pooled[j]
    BY <1>4 DEF Chapter!Bad, Chapter!Finished, Chapter!Results
  <2>2. r # "raised" /\ Chapter!LeaveWith(r)
    BY <1>4, <2>1
  <2> QED
    BY <1>1, <1>2, <2>2, LeaveKeeps DEF ChapterTypes
<1>5. CASE chapterPlace' = "raising" /\ UNCHANGED <<answer, queue, threads, pooled, pending>>
  <2>1. Sent' = Sent
    BY <1>5 DEF Sent
  <2>2. ChapterTypes' /\ QueueWaits' /\ StartsCounted'
    BY <1>1, <1>2, <1>5 DEF ChapterInv, ChapterTypes, QueueWaits, StartsCounted
  <2>3. NotYet' /\ GoneThrough'
    BY <1>5 DEF NotYet, GoneThrough
  <2>4. InSubmission' /\ Awaited'
    BY <1>1, <1>5, <2>1 DEF ChapterInv, InSubmission, Awaited
  <2>5. Answered'
    BY <1>1, <1>5, NotAnswered DEF Answered
  <2> QED
    BY <2>2, <2>3, <2>4, <2>5 DEF ChapterInv
<1>6. CASE /\ Chapter!Bad = {} /\ pending' = pending \ Chapter!Finished
           /\ UNCHANGED <<chapterPlace, answer, queue, threads, pooled>>
  <2>1. Sent' = Sent /\ \A j \in pending : j \in pending' \/ pooled[j] = "success"
    BY <1>6 DEF Sent, Chapter!Bad, Chapter!Finished
  <2>2. ChapterTypes' /\ QueueWaits' /\ StartsCounted'
    BY <1>1, <1>2, <1>6 DEF ChapterInv, ChapterTypes, QueueWaits, StartsCounted
  <2>3. NotYet' /\ GoneThrough'
    BY <1>1, <1>6 DEF NotYet, GoneThrough
  <2>4. InSubmission'
    BY <1>1, <1>6, <2>1 DEF ChapterInv, InSubmission
  <2>5. Awaited'
    BY <1>1, <1>6, <2>1 DEF ChapterInv, Awaited
  <2>6. Answered'
    BY <1>1, <1>6, NotAnswered DEF Answered
  <2> QED
    BY <2>2, <2>3, <2>4, <2>5, <2>6 DEF ChapterInv
<1> QED
  BY <1>3, <1>4, <1>5, <1>6 DEF Chapter!Collect, Chapter!pool

LEMMA EndKeeps ==
  ASSUME ChapterInv, Chapter!Raise \/ Chapter!Succeed
  PROVE  ChapterInv'
<1>1. /\ chapterPlace \in {"wait", "raising"} /\ chapterPlace' = "returned"
      /\ UNCHANGED <<jobs, queue, threads, pooled, pending, chapterStop, inline, started>>
  BY DEF Chapter!Raise, Chapter!Succeed, Chapter!pool, Chapter!work
<1>2. ChapterTypes /\ done = 0
  BY <1>1, NotAnswered DEF ChapterInv
<1>3. StartsCounted'
  BY <1>1 DEF ChapterInv, StartsCounted
<1>4. CASE Chapter!Raise
  <2>1. /\ answer' = "raised" /\ UNCHANGED done /\ queue = <<>>
        /\ \A j \in Job : pooled[j] \notin Chapter!Active
    BY <1>4 DEF Chapter!Raise, Chapter!Quiet
  <2>2. ChapterTypes'
    BY <1>1, <1>2, <2>1 DEF ChapterTypes, Chapter!Results
  <2>3. done' # 1 /\ answer' # "success"
    BY <1>2, <2>1
  <2> QED
    BY <1>1, <1>3, <2>1, <2>2, <2>3, ReturnKeeps
<1>5. CASE Chapter!Succeed
  <2>1. answer' = "success" /\ done' = 1 /\ pending = {} /\ chapterPlace = "wait"
    BY <1>2, <1>5 DEF Chapter!Succeed
  <2>2. \A j \in Sent : pooled[j] = "success"
    BY <2>1 DEF ChapterInv, Awaited
  <2>3. \A i \in 1 .. Len(jobs) : pooled[jobs[i]] = "success"
    BY <2>1, <2>2 DEF ChapterInv, InSubmission
  <2>4. \A j \in Job : pooled[j] \notin Chapter!Active
    BY <2>2 DEF Sent, Chapter!Active
  <2>5. queue = <<>>
    <3>1. \A i \in 1 .. Len(queue) : queue[i] \in Job /\ pooled[queue[i]] \in {"queued", "dropped"}
      BY <1>2, ChapterSeqs DEF ChapterInv, QueueWaits
    <3>2. \A i \in 1 .. Len(queue) : FALSE
      BY <2>2, <3>1 DEF Sent
    <3>3. queue # <<>> => Len(queue) \in Nat \ {0}
      BY <1>2, ChapterSeqs, EmptySeq
    <3> QED
      BY <3>2, <3>3
  <2>6. ChapterTypes'
    <3>1. answer' \in Chapter!Results
      BY <2>1 DEF Chapter!Results
    <3>2. done' \in 0 .. 1
      BY <2>1
    <3> QED
      BY <1>1, <1>2, <3>1, <3>2 DEF ChapterTypes
  <2> QED
    BY <1>1, <1>3, <2>1, <2>3, <2>4, <2>5, <2>6, ReturnKeeps
<1> QED
  BY <1>4, <1>5

LEMMA ChapterKeeps == ChapterInv /\ [Chapter!Next]_chapterVars => ChapterInv'
BY StopKeeps, FetchKeeps, SubmitKeeps, SubmitFailsKeeps, AllSubmittedKeeps, TakeKeeps, WorkKeeps,
   StartInlineKeeps, WorkInlineKeeps, InlineSucceedsKeeps, CollectKeeps, EndKeeps
   DEF Chapter!Next

\* Nothing is cancelled, by a thread, inline or by the loop over the futures,
\* unless the user asked to stop; and that is never taken back.
Asked ==
    ~chapterStop => /\ answer # "cancelled"
                    /\ \A j \in Job : pooled[j] # "cancelled" /\ inline[j] # "cancelled"

LEMMA AskedStarts == Chapter!Init => Asked
BY DEF Chapter!Init, Asked

LEMMA UnaskedOutcomes ==
  ASSUME NEW j, NEW stage, ~chapterStop
  PROVE  "cancelled" \notin Chapter!Outcomes(j, stage)
BY DEF Chapter!Outcomes

LEMMA AskedKept == ChapterInv /\ Asked /\ [Chapter!Next]_chapterVars => Asked'
<1> SUFFICES ASSUME ChapterInv, Asked, [Chapter!Next]_chapterVars, ~chapterStop' PROVE Asked'
  BY DEF Asked
<1> DEFINE Unasked(f) == \A j \in Job : f[j] # "cancelled"
<1>1. /\ pooled \in [Job -> Chapter!Results \cup Chapter!Active \cup {"no", "queued", "dropped"}]
      /\ inline \in [Job -> Chapter!Results \cup Chapter!Active \cup {"no"}]
  BY DEF ChapterInv, ChapterTypes
<1>2. CASE Chapter!Stop
  BY <1>2 DEF Chapter!Stop
<1> HIDE DEF Unasked
<1>3. SUFFICES ASSUME ~Chapter!Stop PROVE Asked'
  BY <1>2
<1>4. ~chapterStop /\ answer # "cancelled" /\ Unasked(pooled) /\ Unasked(inline)
  <2>1. ~chapterStop
    BY <1>3 DEF Chapter!Next, Chapter!Fetch, Chapter!Submit, Chapter!SubmitFails, Chapter!AllSubmitted,
       Chapter!Take, Chapter!Work, Chapter!StartInline, Chapter!WorkInline, Chapter!InlineSucceeds,
       Chapter!Collect, Chapter!Raise, Chapter!Succeed, chapterVars
  <2> QED
    BY <2>1 DEF Asked, Unasked
<1>5. SUFFICES answer' # "cancelled" /\ Unasked(pooled') /\ Unasked(inline')
  BY DEF Asked, Unasked
<1>6. ASSUME NEW f, NEW g, NEW i, NEW r, Unasked(f), DOMAIN f = Job, r # "cancelled",
             g = [f EXCEPT ![i] = r]
      PROVE  Unasked(g)
  BY <1>6 DEF Unasked
<1>7. DOMAIN pooled = Job /\ DOMAIN inline = Job
  BY <1>1
<1>8. CASE Chapter!Fetch
  <2>1. \A c : Chapter!JobList(c).status # "cancelled"
    BY DEF Chapter!JobList
  <2>2. answer' # "cancelled"
    BY <1>4, <1>8, <2>1 DEF Chapter!Fetch, Chapter!ReturnEarly
  <2>3. pooled' = pooled /\ inline' = inline
    BY <1>8 DEF Chapter!Fetch, Chapter!ReturnEarly, Chapter!pool, Chapter!work
  <2> QED
    BY <1>4, <2>2, <2>3
<1>9. CASE Chapter!Submit
  BY <1>4, <1>6, <1>7, <1>9 DEF Chapter!Submit, Chapter!work
<1>10. CASE Chapter!SubmitFails
  <2> DEFINE dropped == Chapter!Cancelled(pending)
  <2>1. DOMAIN dropped = Job /\ Unasked(dropped)
    BY <1>4, <1>7 DEF Chapter!Cancelled, Unasked
  <2>2. answer' = answer /\ inline' = inline /\ pooled' = [dropped EXCEPT ![Chapter!Next1] = "queued"]
    BY <1>10 DEF Chapter!SubmitFails, Chapter!work
  <2> QED
    BY <1>4, <1>6, <2>1, <2>2
<1>11. CASE Chapter!Take
  BY <1>4, <1>7, <1>11 DEF Chapter!Take, Unasked
<1>12. CASE \E j \in Job : Chapter!Work(j)
  <2>1. PICK j \in Job : Chapter!Work(j)
    BY <1>12
  <2>2. PICK r \in Chapter!Outcomes(j, pooled[j]) : pooled' = [pooled EXCEPT ![j] = r]
    BY <2>1 DEF Chapter!Work
  <2>3. answer' = answer /\ inline' = inline /\ r # "cancelled"
    BY <1>4, <2>1, <2>2, UnaskedOutcomes DEF Chapter!Work
  <2> QED
    BY <1>4, <1>6, <1>7, <2>2, <2>3
<1>13. CASE Chapter!StartInline
  BY <1>4, <1>6, <1>7, <1>13 DEF Chapter!StartInline, Chapter!LeaveWith, Chapter!pool, Chapter!work
<1>14. CASE Chapter!WorkInline
  <2> DEFINE j == jobs[Chapter!InlineAt]
  <2>1. PICK r \in Chapter!Outcomes(j, inline[j]) :
           /\ inline' = [inline EXCEPT ![j] = r]
           /\ answer' \in {answer, r} /\ pooled' = pooled
    BY <1>14 DEF Chapter!WorkInline, Chapter!LeaveWith, Chapter!pool
  <2>2. r # "cancelled"
    BY <1>4, <2>1, UnaskedOutcomes
  <2> QED
    BY <1>4, <1>6, <1>7, <2>1, <2>2
<1>15. CASE Chapter!Collect
  <2>1. pooled' = pooled /\ inline' = inline
    BY <1>15 DEF Chapter!Collect, Chapter!LeaveWith, Chapter!pool, Chapter!work
  <2>2. answer' = answer \/ \E j \in pending : answer' = pooled[j]
    BY <1>4, <1>15 DEF Chapter!Collect, Chapter!LeaveWith, Chapter!Bad, Chapter!Finished
  <2>3. pending \subseteq Job
    BY DEF ChapterInv, ChapterTypes
  <2> QED
    BY <1>4, <2>1, <2>2, <2>3 DEF Unasked
<1>16. CASE Chapter!AllSubmitted \/ Chapter!InlineSucceeds \/ Chapter!Raise \/ Chapter!Succeed
  BY <1>4, <1>16 DEF Chapter!AllSubmitted, Chapter!InlineSucceeds, Chapter!LeaveWith,
     Chapter!Raise, Chapter!Succeed, Chapter!pool, Chapter!work
<1>17. CASE UNCHANGED chapterVars
  BY <1>4, <1>17 DEF chapterVars
<1> QED
  BY <1>3, <1>8, <1>9, <1>10, <1>11, <1>12, <1>13, <1>14, <1>15, <1>16, <1>17 DEF Chapter!Next

LEMMA ChapterIsSound == ChapterInv /\ Asked => Chapter!ChapterSound
<1> SUFFICES ASSUME ChapterInv, Asked PROVE Chapter!ChapterSound
  OBVIOUS
<1>1. ChapterTypes
  BY DEF ChapterInv
<1>0. started \in [Job -> Nat]
  BY <1>1 DEF ChapterTypes
<1>2. \A j \in Job : started[j] \in Nat /\ started[j] <= 2 /\ (inline[j] = "no" => started[j] <= 1)
  <2> SUFFICES ASSUME NEW j \in Job
               PROVE  started[j] \in Nat /\ started[j] <= 2 /\ (inline[j] = "no" => started[j] <= 1)
    OBVIOUS
  <2> DEFINE P == IF pooled[j] \in {"no", "queued", "dropped"} THEN 0 ELSE 1
             I == IF inline[j] = "no" THEN 0 ELSE 1
  <2>1. started[j] <= P + I
    BY DEF ChapterInv, StartsCounted
  <2>2. P \in {0, 1} /\ I \in {0, 1} /\ (inline[j] = "no" => I = 0)
    BY Zenon
  <2> HIDE DEF P, I
  <2> QED
    BY <1>0, <2>1, <2>2
<1>3. started \in [Job -> 0 .. 2]
  BY <1>0, <1>2
<1>4. Chapter!TypeOK
  BY <1>1, <1>3 DEF ChapterTypes, Chapter!TypeOK
<1>5. Chapter!InOrder(jobs) = {jobs[i] : i \in 1 .. Len(jobs)}
  BY <1>1, ChapterSeqs, LenProperties DEF Chapter!InOrder
<1>6. Chapter!SuccessIsEarned
  BY <1>5 DEF ChapterInv, Answered, Chapter!SuccessIsEarned
<1>7. Chapter!PointsOnce
  BY <1>2 DEF ChapterInv, Answered, FellBack, Chapter!PointsOnce, Chapter!Quiet
<1>8. Chapter!CancelsIfAsked
  BY DEF Asked, Chapter!CancelsIfAsked
<1> QED
  BY <1>4, <1>6, <1>7, <1>8 DEF Chapter!ChapterSound

\* process_chapter (learning.py), for any task points and threads of the
\* executor, also when a thread cannot be started: a chapter is reported as
\* done exactly if all its points succeeded, no point is worked on twice but
\* inline after that failure, and it is cancelled only if the user asked.
THEOREM ChapterDoneOnce == PartSpec => []ChapterSound
<1> DEFINE Inv == part = "chapter" => ChapterInv /\ Asked
<1>1. PartInit => Inv
  BY ChapterStarts, AskedStarts DEF PartInit
<1>2. Inv /\ [PartNext]_partsVars => Inv'
  <2>1. [PartNext]_partsVars => part' = part /\ (part = "chapter" => [Chapter!Next]_chapterVars)
    BY DEF PartNext, RestOf, partsVars
  <2> QED
    BY <2>1, ChapterKeeps, AskedKept
<1>3. Inv => ChapterSound
  BY ChapterIsSound DEF ChapterSound
<1> QED
  BY <1>1, <1>2, <1>3, PTL DEF PartSpec

-----------------------------------------------------------------------------
(* A video, audio or live *)

VideoTypes ==
    /\ duration \in Media!Length /\ played \in Media!Length /\ logged \in Media!Length
    /\ wait \in Media!Pauses
    /\ forbidden \in 0 .. MaxForbidden /\ saturated \in 0 .. MaxSaturated
    /\ reports \in Nat

LiveTypes ==
    /\ total \in 0 .. MaxMinutes /\ minutes \in 0 .. MaxMinutes /\ accepted \in 0 .. MaxMinutes
    /\ mediaPlace \in {"minute", "retry"} => minutes > 0

JobTypes ==
    /\ mediaPlace \in {"start", "loop", "minute", "retry", "failed", "pause", "returned"}
    /\ kind \in {"video", "audio", "live"}
    /\ mediaStop \in BOOLEAN /\ passed \in BOOLEAN
    /\ mediaResult \in Media!Failures \cup {"none", "success", "cancelled", "raised"}

\* The reports between two refreshes: one for each step of time until the end
\* of the video is reached, and those made there.
Period == MaxTime + MaxSaturated + 1

\* The reports of a video that is being watched were paid for: by the refreshes
\* and other refusals so far, by the time that was reported, all of it at the
\* end, and by the reports made there.  A refresh gives back the last two.
Credit(f) == f * Period
Paid == Credit(forbidden) + (IF played >= duration THEN MaxTime ELSE logged) + saturated
ReportsPaid == mediaPlace = "loop" => reports <= 1 + Paid /\ saturated < MaxSaturated

\* What the end will tell.
TruthToCome ==
    /\ mediaPlace \in {"minute", "retry", "failed", "pause"} => kind = "live"
    /\ mediaPlace = "loop" => kind # "live"
    /\ kind = "live" /\ mediaPlace # "start" /\ mediaResult \in {"none", "success"} =>
        accepted + minutes = total
    /\ kind # "live" \/ mediaPlace = "start" => accepted = 0
    /\ mediaPlace # "returned" => ~passed /\ mediaResult = "none"
    /\ mediaResult = "success" => IF kind = "live" THEN accepted = total ELSE passed
    /\ mediaResult = "cancelled" => mediaStop
    /\ passed => mediaResult = "success"

MediaInv ==
    /\ JobTypes /\ VideoTypes /\ LiveTypes
    /\ Media!ReportsBounded /\ ReportsPaid /\ TruthToCome
LEMMA PeriodType == Period \in Nat \ {0} /\ (\A f \in Nat : Credit(f) \in Nat)
BY MediaAssumption DEF Period, Credit

LEMMA CreditGrows ==
  /\ Credit(0) = 0
  /\ \A f \in Nat : Credit(f + 1) = Credit(f) + Period
  /\ \A f \in 0 .. MaxForbidden : Credit(f) <= Credit(MaxForbidden)
<1> DEFINE P == Period
<1>1. P \in Nat
  BY PeriodType
<1> HIDE DEF P
<1>2. 0 * P = 0 /\ (\A f \in Nat : (f + 1) * P = f * P + P)
  BY <1>1
<1>3. \A f \in 0 .. MaxForbidden : f * P <= MaxForbidden * P
  BY <1>1, MediaAssumption
<1> QED
  BY <1>2, <1>3, Zenon DEF P, Credit

\* The bound in terms of the credit.
LEMMA BoundIs ==
  1 + (MaxForbidden + 1) * (MaxTime + MaxSaturated + 1) = 1 + Credit(MaxForbidden) + Period
<1>1. MaxTime + MaxSaturated + 1 = Period
  BY DEF Period
<1>2. (MaxForbidden + 1) * Period = Credit(MaxForbidden) + Period
  BY CreditGrows, MediaAssumption DEF Credit
<1>3. 1 + (Credit(MaxForbidden) + Period) = 1 + Credit(MaxForbidden) + Period
  BY PeriodType, MediaAssumption
<1> QED
  BY <1>1, <1>2, <1>3

LEMMA MediaStarts == Media!Init => MediaInv
<1> SUFFICES ASSUME Media!Init PROVE MediaInv
  OBVIOUS
<1>1. JobTypes /\ VideoTypes /\ LiveTypes /\ TruthToCome
  <2>1. VideoTypes
    BY MediaAssumption DEF Media!Init, VideoTypes, Media!Length, Media!Pauses
  <2>2. LiveTypes
    BY MediaAssumption DEF Media!Init, LiveTypes
  <2> QED
    BY <2>1, <2>2 DEF Media!Init, JobTypes, TruthToCome
<1>2. Media!ReportsBounded
  BY BoundIs, PeriodType, MediaAssumption DEF Media!Init, Media!ReportsBounded
<1> QED
  BY <1>1, <1>2 DEF Media!Init, ReportsPaid, MediaInv

\* The steps that make no report keep the number paid for.
LEMMA NoReportKeeps ==
  ASSUME MediaInv,
         \/ Media!Stop \/ Media!Cancelled \/ Media!StartLive \/ Media!SubmitMinute
         \/ Media!LiveFailed \/ Media!Pause \/ UNCHANGED mediaVars
  PROVE  MediaInv'
<1> USE DEF Media!Stop, Media!Cancelled, Media!StartLive, Media!SubmitMinute, Media!LiveFailed,
            Media!Pause, Media!Goto, Media!Return, Media!video, Media!live, mediaVars
<1>1. UNCHANGED <<duration, played, logged, wait, forbidden, saturated, reports, passed, kind>>
  OBVIOUS
<1>2. VideoTypes'
  BY <1>1 DEF MediaInv, VideoTypes
<1>3. JobTypes'
  BY <1>1 DEF MediaInv, JobTypes, Media!Failures
<1>4. LiveTypes'
  BY MediaAssumption DEF MediaInv, LiveTypes, TruthToCome
<1>5. Media!ReportsBounded'
  BY <1>1 DEF MediaInv, Media!ReportsBounded
<1>6. mediaPlace' = "loop" => mediaPlace = "loop"
  BY DEF MediaInv, TruthToCome
<1>7. ReportsPaid'
  BY <1>1, <1>6 DEF MediaInv, ReportsPaid, Paid
<1>8. TruthToCome'
  BY MediaAssumption DEF MediaInv, JobTypes, LiveTypes, TruthToCome
<1> QED
  BY <1>2, <1>3, <1>4, <1>5, <1>7, <1>8 DEF MediaInv

\* How a step of a video ends: on with it, over to the audio, or with a result.
VideoGoesOn ==
    \/ mediaPlace' = "loop" /\ UNCHANGED <<kind, mediaResult, passed>>
    \/ mediaPlace' = "start" /\ kind' = "audio" /\ UNCHANGED <<mediaResult, passed>>
    \/ /\ mediaPlace' = "returned" /\ UNCHANGED <<kind, passed>>
       /\ mediaResult' \in Media!Failures \cup {"raised"}
    \/ mediaPlace' = "returned" /\ UNCHANGED kind /\ mediaResult' = "success" /\ passed' = TRUE

\* A step of a video that keeps its numbers keeps the invariant.
LEMMA VideoKeeps ==
  ASSUME MediaInv, kind # "live", mediaPlace \in {"start", "loop"}, VideoGoesOn,
         UNCHANGED <<mediaStop, total, minutes, accepted>>,
         VideoTypes', Media!ReportsBounded', ReportsPaid'
  PROVE  MediaInv'
<1>1. JobTypes'
  BY DEF MediaInv, JobTypes, VideoGoesOn, Media!Failures
<1>2. LiveTypes'
  BY DEF MediaInv, LiveTypes, VideoGoesOn
<1>3. TruthToCome'
  BY DEF MediaInv, TruthToCome, VideoGoesOn, Media!Failures, JobTypes
<1> QED
  BY <1>1, <1>2, <1>3 DEF MediaInv

LEMMA StartVideoKeeps ==
  ASSUME MediaInv, Media!StartVideo
  PROVE  MediaInv'
<1> USE DEF Media!StartVideo, Media!Goto, Media!Return, Media!Finish, Media!video, Media!live
<1>1. VideoGoesOn
  BY DEF VideoGoesOn, Media!Failures, MediaInv, JobTypes
<1>2. VideoTypes'
  BY MediaAssumption DEF MediaInv, VideoTypes, Media!Length, Media!Pauses
<1>3. CASE UNCHANGED <<duration, played, logged, wait, forbidden, saturated, reports>> /\ mediaPlace' # "loop"
  <2>1. Media!ReportsBounded' /\ ReportsPaid'
    BY <1>3 DEF MediaInv, Media!ReportsBounded, ReportsPaid
  <2> QED
    BY <1>1, <1>2, <2>1, VideoKeeps
<1>4. CASE reports' = 1 /\ forbidden' = 0 /\ saturated' = 0 /\ logged' = 0
  <2>1. Media!ReportsBounded'
    <3>1. 1 <= 1 + Credit(MaxForbidden) + Period
      BY PeriodType, MediaAssumption
    <3> QED
      BY <1>4, <3>1, BoundIs DEF Media!ReportsBounded
  <2>2. ReportsPaid'
    BY <1>4, CreditGrows, MediaAssumption DEF ReportsPaid, Paid
  <2> QED
    BY <1>1, <1>2, <2>1, <2>2, VideoKeeps
<1> QED
  BY <1>3, <1>4

LEMMA WatchKeeps ==
  ASSUME MediaInv, Media!Watch
  PROVE  MediaInv'
<1> USE DEF Media!Watch, Media!Advance, Media!live
<1>1. VideoGoesOn
  BY DEF VideoGoesOn
<1>2. VideoTypes'
  BY MediaAssumption DEF MediaInv, VideoTypes, Media!Length, Media!Pauses
<1>3. Media!ReportsBounded'
  BY DEF MediaInv, Media!ReportsBounded
<1>4. ReportsPaid'
  BY PeriodType, MediaAssumption DEF MediaInv, VideoTypes, ReportsPaid, Paid, Media!Length, Media!Pauses
<1>5. kind # "live"
  BY DEF MediaInv, TruthToCome
<1> QED
  BY <1>1, <1>2, <1>3, <1>4, <1>5, VideoKeeps

\* A report is within the bound, because it is paid for.
LEMMA OneMoreReport ==
  ASSUME MediaInv, Media!Report
  PROVE  /\ kind # "live" /\ mediaPlace = "loop" /\ reports' = reports + 1
         /\ UNCHANGED <<mediaStop, total, minutes, accepted>>
         /\ Media!ReportsBounded'
<1>1. kind # "live" /\ mediaPlace = "loop" /\ reports' = reports + 1
  BY DEF Media!Report, MediaInv, TruthToCome
<1>2. UNCHANGED <<mediaStop, total, minutes, accepted>>
  BY DEF Media!Report, Media!live
<1>3. reports <= 1 + Credit(forbidden) + MaxTime + saturated
  BY <1>1, PeriodType, MediaAssumption DEF MediaInv, VideoTypes, ReportsPaid, Paid, Media!Length
<1>4. Credit(forbidden) <= Credit(MaxForbidden)
  BY CreditGrows DEF MediaInv, VideoTypes
<1>5. reports + 1 <= 1 + Credit(MaxForbidden) + Period
  BY <1>3, <1>4, PeriodType, MediaAssumption DEF MediaInv, VideoTypes, Period
<1>6. Media!ReportsBounded'
  BY <1>1, <1>5, BoundIs DEF Media!ReportsBounded
<1> QED
  BY <1>1, <1>2, <1>6

LEMMA ReportKeeps ==
  ASSUME MediaInv,
         \/ Media!ReportPasses \/ Media!ReportFails \/ Media!ReportNotEnough
         \/ Media!ReportForbidden \/ Media!ReportForbiddenForGood
  PROVE  MediaInv'
<1>1. Media!Report
  BY DEF Media!ReportPasses, Media!ReportFails, Media!ReportNotEnough, Media!ReportForbidden,
         Media!ReportForbiddenForGood
<1>2. /\ kind # "live" /\ mediaPlace = "loop" /\ reports' = reports + 1
      /\ UNCHANGED <<mediaStop, total, minutes, accepted>>
      /\ Media!ReportsBounded'
  BY <1>1, OneMoreReport
<1>3. VideoGoesOn
  BY <1>2 DEF VideoGoesOn, Media!ReportPasses, Media!ReportFails, Media!ReportNotEnough,
         Media!ReportForbidden, Media!ReportForbiddenForGood, Media!NextPeriod, Media!Goto,
         Media!Return, Media!Finish, Media!Failures
<1>4. reports <= 1 + Paid /\ saturated < MaxSaturated
  BY <1>2 DEF MediaInv, ReportsPaid
<1>5. VideoTypes
  BY DEF MediaInv
<1> USE DEF Media!Length, Media!Pauses
<1>6. CASE Media!ReportPasses \/ Media!ReportFails \/ Media!ReportForbiddenForGood
  <2>1. mediaPlace' # "loop" /\ UNCHANGED <<duration, played, logged, wait, forbidden, saturated>>
    BY <1>6 DEF Media!ReportPasses, Media!ReportFails, Media!ReportForbiddenForGood,
                Media!Return, Media!Finish
  <2>2. VideoTypes' /\ ReportsPaid'
    BY <1>2, <1>5, <2>1 DEF VideoTypes, ReportsPaid
  <2> QED
    BY <1>2, <1>3, <2>2, VideoKeeps
<1>7. CASE Media!ReportNotEnough
  <2>1. CASE mediaPlace' # "loop"
    <3>1. /\ UNCHANGED <<duration, played, logged, wait, forbidden>>
          /\ saturated' \in {saturated, saturated + 1}
      BY <1>7, <2>1 DEF Media!ReportNotEnough, Media!NextPeriod, Media!Goto
    <3>2. VideoTypes' /\ ReportsPaid'
      BY <1>2, <1>4, <1>5, <2>1, <3>1, MediaAssumption DEF VideoTypes, ReportsPaid
    <3> QED
      BY <1>2, <1>3, <3>2, VideoKeeps
  <2>2. CASE mediaPlace' = "loop"
    <3>1. /\ saturated' = IF played >= duration THEN saturated + 1 ELSE saturated
          /\ saturated' < MaxSaturated
          /\ wait' \in Media!Pauses /\ logged' = played /\ UNCHANGED <<duration, forbidden>>
          /\ \E dt \in Media!Pauses :
                played' = IF played + dt > duration THEN duration ELSE played + dt
      BY <1>4, <1>5, <1>7, <2>2, MediaAssumption
         DEF VideoTypes, Media!ReportNotEnough, Media!NextPeriod, Media!Advance, Media!Finish, Media!Return
    <3>2. VideoTypes'
      BY <1>2, <1>4, <1>5, <3>1, MediaAssumption DEF VideoTypes
    <3>3. played < duration => played > logged
      BY <1>5, <1>7 DEF VideoTypes, Media!ReportNotEnough, Media!Report, Media!ReportDue
    <3>4. ReportsPaid'
      BY <1>2, <1>4, <1>5, <3>1, <3>3, PeriodType, MediaAssumption
         DEF VideoTypes, ReportsPaid, Paid
    <3> QED
      BY <1>2, <1>3, <3>2, <3>4, VideoKeeps
  <2> QED
    BY <2>1, <2>2
<1>8. CASE Media!ReportForbidden
  <2>1. /\ forbidden < MaxForbidden /\ forbidden' = forbidden + 1
        /\ saturated' \in {saturated, 0}
        /\ logged' \in Media!Length /\ wait' \in Media!Pauses
        /\ played' \in Media!Length /\ duration' \in Media!Length
    BY <1>5, <1>8, MediaAssumption DEF VideoTypes, Media!ReportForbidden, Media!NextPeriod, Media!Advance, Media!Refreshed
  <2>2. VideoTypes'
    BY <1>2, <1>5, <2>1, MediaAssumption DEF VideoTypes
  <2>3. Credit(forbidden + 1) = Credit(forbidden) + MaxTime + MaxSaturated + 1
    BY <1>5, CreditGrows, PeriodType, MediaAssumption DEF VideoTypes, Period
  <2>4. ReportsPaid'
    BY <1>2, <1>4, <1>5, <2>1, <2>3, PeriodType, MediaAssumption DEF VideoTypes, ReportsPaid, Paid
  <2> QED
    BY <1>2, <1>3, <2>2, <2>4, VideoKeeps
<1> QED
  BY <1>6, <1>7, <1>8

LEMMA MediaKeeps == MediaInv /\ [Media!Next]_mediaVars => MediaInv'
BY NoReportKeeps, StartVideoKeeps, WatchKeeps, ReportKeeps DEF Media!Next

LEMMA MediaIsSound == MediaInv => Media!MediaSound
BY DEF MediaInv, JobTypes, VideoTypes, LiveTypes, TruthToCome, Media!MediaSound, Media!TypeOK,
       Media!ResultIsTrue

\* Videos and lives (video_service.py, live_process.py), whatever the platform
\* answers: a video ends after boundedly many reports, and what process_job
\* returns is true.
THEOREM MediaEndsTruly == PartSpec => []MediaSound
<1> DEFINE Inv == part = "media" => MediaInv
<1>1. PartInit => Inv
  BY MediaStarts DEF PartInit
<1>2. Inv /\ [PartNext]_partsVars => Inv'
  <2>1. [PartNext]_partsVars => part' = part /\ (part = "media" => [Media!Next]_mediaVars)
    BY DEF PartNext, RestOf, partsVars
  <2> QED
    BY <2>1, MediaKeeps
<1>3. Inv => MediaSound
  BY MediaIsSound DEF MediaSound
<1> QED
  BY <1>1, <1>2, <1>3, PTL DEF PartSpec

-----------------------------------------------------------------------------
(* The quiz *)

\* Tries stay below their number while the questions are fetched.
QuizTypes ==
    /\ quizPlace \in {"fetch", "answer", "post", "returned"}
    /\ saveOnly \in BOOLEAN /\ concurrent \in BOOLEAN
    /\ quizTries \in 0 .. Attempts /\ (quizPlace = "fetch" => quizTries < Attempts)
    /\ doing \in [Question -> {"todo", "query", "count", "fill", "failed", "done"}]
    /\ source \in [Question -> {"none", "cover", "random"}]
    /\ field \in [Question -> Quiz!Worth] /\ form \in [Question -> Quiz!Worth]
    /\ flag \in {"none", "save", "submit"}
    /\ quizResult \in {"none", "success", "failure", "raised"}

\* What a question has of its answer at each stage of a thread.
Staged(q) ==
    /\ doing[q] \in {"todo", "query", "failed"} => source[q] = "none"
    /\ doing[q] \in {"count", "fill"} => source[q] = "cover"
    /\ doing[q] = "done" =>
        /\ source[q] \in {"cover", "random"}
        /\ field[q] = IF source[q] = "cover" THEN "cover" ELSE Quiz!MadeUp(q)

\* The answers that are in found_answers.
Counted == {q \in Question : source[q] = "cover" /\ doing[q] # "count"}

\* What was decided on, once it was.
Decided ==
    /\ flag # "none" =>
        /\ \A q \in Question : doing[q] = "done"
        /\ form = Quiz!Filled(flag = "save")
    /\ flag = "submit" => ~saveOnly /\ quizFound * 100 >= NeedPercent * Cardinality(Question)
    /\ flag = "save" => saveOnly \/ quizFound * 100 < NeedPercent * Cardinality(Question)

QuizInv ==
    /\ QuizTypes
    /\ \A q \in Question : Staged(q)
    /\ quizFound = Cardinality(Counted)
    /\ Decided

LEMMA CountedFinite ==
  /\ IsFiniteSet(Counted) /\ Cardinality(Counted) \in 0 .. Cardinality(Question)
  /\ Cardinality(Question) \in Nat
BY QuizAssumption, FS_Subset, FS_CardinalityType DEF Counted

\* The instance has its own name for the number of elements.
LEMMA QuizNumber == Quiz!Cardinality(Question) = Cardinality(Question)
                    /\ Quiz!Cardinality(Quiz!Known) = Cardinality(Quiz!Known)
BY DEF Cardinality, Quiz!Cardinality

LEMMA QuizStarts == Quiz!Init => QuizInv
<1> SUFFICES ASSUME Quiz!Init PROVE QuizInv
  OBVIOUS
<1>1. QuizTypes
  BY QuizAssumption DEF Quiz!Init, QuizTypes, Quiz!Worth
<1>2. Counted = {}
  BY DEF Quiz!Init, Counted
<1>3. quizFound = Cardinality(Counted)
  BY <1>2, FS_EmptySet DEF Quiz!Init
<1> QED
  BY <1>1, <1>3 DEF Quiz!Init, QuizInv, Staged, Decided

\* Before the questions and after the decision.
LEMMA QuizFrameKeeps ==
  ASSUME QuizInv, Quiz!Fetch \/ Quiz!FetchAgain \/ Quiz!Post \/ UNCHANGED quizVars
  PROVE  QuizInv'
<1>1. UNCHANGED <<saveOnly, concurrent, doing, source, field, quizFound, form, flag>>
  BY DEF Quiz!Fetch, Quiz!FetchAgain, Quiz!Post, quizVars, Quiz!fetching, Quiz!answering
<1>2. QuizTypes'
  <2>1. CASE Quiz!Fetch
    BY <2>1 DEF QuizInv, QuizTypes, Quiz!Fetch, Quiz!Return, Quiz!fetching, Quiz!answering
  <2>2. CASE Quiz!FetchAgain
    BY <2>2, QuizAssumption
       DEF QuizInv, QuizTypes, Quiz!FetchAgain, Quiz!Return, Quiz!answering
  <2>3. CASE Quiz!Post
    BY <2>3 DEF QuizInv, QuizTypes, Quiz!Post, Quiz!Return, Quiz!fetching, Quiz!answering
  <2>4. CASE UNCHANGED quizVars
    BY <2>4 DEF QuizInv, QuizTypes, quizVars
  <2> QED
    BY <2>1, <2>2, <2>3, <2>4
<1> QED
  BY <1>1, <1>2 DEF QuizInv, Staged, Counted, Decided, Quiz!Filled

LEMMA DecideKeeps ==
  ASSUME QuizInv, Quiz!Decide
  PROVE  QuizInv'
<1> DEFINE save == saveOnly \/ quizFound * 100 < NeedPercent * Cardinality(Question)
<1>1. /\ \A q \in Question : doing[q] = "done"
      /\ flag' = IF save THEN "save" ELSE "submit"
      /\ form' = Quiz!Filled(save)
      /\ quizPlace' = "post"
      /\ UNCHANGED <<saveOnly, concurrent, quizTries, doing, source, field, quizFound, quizResult>>
  BY QuizNumber, Zenon DEF Quiz!Decide, Quiz!fetching, Quiz!answering
<1>2. QuizTypes'
  BY <1>1 DEF QuizInv, QuizTypes, Quiz!Filled, Quiz!Worth
<1>3. (\A q \in Question : Staged(q))' /\ (quizFound = Cardinality(Counted))'
  BY <1>1 DEF QuizInv, Staged, Counted
<1>4. quizFound * 100 \in Int /\ NeedPercent * Cardinality(Question) \in Int
  BY CountedFinite, QuizAssumption DEF QuizInv
<1>5. form' = Quiz!Filled(flag' = "save")
  BY <1>1
<1>6. Decided'
  BY <1>1, <1>4, <1>5 DEF Decided, Quiz!Filled
<1> QED
  BY <1>2, <1>3, <1>6 DEF QuizInv

\* What a thread does with a question leaves the others alone, and counts a
\* covered one once.
LEMMA QuestionKeeps ==
  ASSUME QuizInv, NEW q \in Question,
         \/ Quiz!Start(q) \/ Quiz!AnswerAtRandom(q) \/ Quiz!AnswerFits(q)
         \/ Quiz!Count(q) \/ Quiz!Fill(q) \/ Quiz!QueryRaises(q) \/ Quiz!Fallback(q)
  PROVE  QuizInv'
<1> USE DEF Quiz!Start, Quiz!AnswerAtRandom, Quiz!AnswerFits, Quiz!Count, Quiz!Fill,
            Quiz!QueryRaises, Quiz!Fallback, Quiz!Set, Quiz!fetching, Quiz!posting
<1>1. /\ UNCHANGED <<saveOnly, concurrent, quizTries, form, flag>>
      /\ doing[q] # "done"
      /\ \E s \in {"query", "count", "fill", "failed", "done"} : doing' = [doing EXCEPT ![q] = s]
  OBVIOUS
<1>2. /\ quizPlace' \in {quizPlace, "returned"}
      /\ quizResult' \in {quizResult, "raised"}
  BY DEF Quiz!Return
<1>3. /\ source' \in [Question -> {"none", "cover", "random"}]
      /\ \A p \in Question \ {q} : source'[p] = source[p]
  BY DEF QuizInv, QuizTypes
<1>4. /\ field' \in [Question -> Quiz!Worth]
      /\ \A p \in Question \ {q} : field'[p] = field[p]
  BY DEF QuizInv, QuizTypes, Quiz!Worth, Quiz!MadeUp
<1>5. QuizTypes'
  <2>1. doing' \in [Question -> {"todo", "query", "count", "fill", "failed", "done"}]
    BY <1>1 DEF QuizInv, QuizTypes
  <2>2. /\ quizPlace' \in {"fetch", "answer", "post", "returned"}
        /\ quizPlace' = "fetch" => quizPlace = "fetch"
        /\ quizResult' \in {"none", "success", "failure", "raised"}
    BY <1>2 DEF QuizInv, QuizTypes
  <2> QED
    BY <1>1, <1>3, <1>4, <2>1, <2>2 DEF QuizInv, QuizTypes
<1>6. (\A p \in Question : Staged(p))'
  <2> SUFFICES ASSUME NEW p \in Question PROVE Staged(p)'
    OBVIOUS
  <2>1. CASE p # q
    BY <1>1, <1>3, <1>4, <2>1 DEF QuizInv, QuizTypes, Staged, Quiz!MadeUp
  <2>2. CASE p = q
    BY <2>2 DEF QuizInv, QuizTypes, Staged, Quiz!MadeUp
  <2> QED
    BY <2>1, <2>2
<1>7. (quizFound = Cardinality(Counted))'
  <2>1. CASE Quiz!Count(q)
    <3>1. Counted' = Counted \cup {q} /\ q \notin Counted
      BY <2>1 DEF QuizInv, QuizTypes, Staged, Counted
    <3> QED
      BY <2>1, <3>1, CountedFinite, FS_AddElement DEF QuizInv
  <2>2. CASE ~Quiz!Count(q)
    <3>1. Counted' = Counted
      BY <2>2 DEF QuizInv, QuizTypes, Staged, Counted
    <3>2. quizFound' = quizFound
      BY <2>2
    <3> QED
      BY <3>1, <3>2 DEF QuizInv
  <2> QED
    BY <2>1, <2>2
<1>8. flag = "none"
  BY <1>1 DEF QuizInv, QuizTypes, Decided
<1>9. Decided'
  BY <1>1, <1>8 DEF Decided
<1> QED
  BY <1>5, <1>6, <1>7, <1>9 DEF QuizInv

LEMMA QuizKeeps == QuizInv /\ [Quiz!Next]_quizVars => QuizInv'
BY QuizFrameKeeps, DecideKeeps, QuestionKeeps DEF Quiz!Next

LEMMA QuizIsSound == QuizInv => Quiz!QuizSound
<1> SUFFICES ASSUME QuizInv PROVE Quiz!QuizSound
  OBVIOUS
<1>1. Quiz!TypeOK
  <2>1. quizFound \in 0 .. Cardinality(Question)
    BY CountedFinite DEF QuizInv
  <2>2. QuizTypes
    BY DEF QuizInv
  <2> QED
    BY <2>1, <2>2, QuizNumber DEF QuizTypes, Quiz!TypeOK
<1>2. CASE flag = "none"
  BY <1>1, <1>2 DEF Quiz!QuizSound, Quiz!HandedInAsAllowed, Quiz!Posted
<1>3. CASE flag # "none"
  <2>1. \A q \in Question :
          /\ field[q] = IF source[q] = "cover" THEN "cover" ELSE Quiz!MadeUp(q)
          /\ form[q] = IF flag = "save" /\ source[q] # "cover" THEN "blank" ELSE field[q]
    BY <1>3 DEF QuizInv, Decided, Staged, Quiz!Filled
  <2>2. \A q \in Question : form[q] = "cover" <=> source[q] = "cover"
    BY <2>1 DEF Quiz!MadeUp
  <2>3. quizFound = Cardinality(Quiz!Known)
    BY <1>3, <2>2 DEF QuizInv, Decided, Counted, Quiz!Known
  <2>4. flag = "submit" =>
          \A q \in Question : form[q] # "none" /\ (form[q] = "blank" => q \in Completion)
    BY <2>1 DEF Quiz!MadeUp
  <2>5. flag = "save" => \A q \in Question : form[q] \in {"cover", "blank"}
    BY <2>1
  <2>6. /\ flag = "submit" =>
             ~saveOnly /\ Cardinality(Quiz!Known) * 100 >= NeedPercent * Cardinality(Question)
        /\ flag = "save" =>
             saveOnly \/ Cardinality(Quiz!Known) * 100 < NeedPercent * Cardinality(Question)
    BY <2>3 DEF QuizInv, Decided
  <2>7. Quiz!HandedInAsAllowed
    BY <2>2, <2>4, <2>5, <2>6, QuizNumber, Zenon DEF Quiz!HandedInAsAllowed
  <2> QED
    BY <1>1, <2>7 DEF Quiz!QuizSound
<1> QED
  BY <1>2, <1>3

\* The quiz of a chapter (quiz_service.py), for any questions, threads and
\* required share: it is handed in only as its settings and its coverage allow,
\* and otherwise exactly the answers of the question bank are saved.
THEOREM QuizHandedInAsAllowed == PartSpec => []QuizSound
<1> DEFINE Inv == part = "quiz" => QuizInv
<1>1. PartInit => Inv
  BY QuizStarts DEF PartInit
<1>2. Inv /\ [PartNext]_partsVars => Inv'
  <2>1. [PartNext]_partsVars => part' = part /\ (part = "quiz" => [Quiz!Next]_quizVars)
    BY DEF PartNext, RestOf, partsVars
  <2> QED
    BY <2>1, QuizKeeps
<1>3. Inv => QuizSound
  BY QuizIsSound DEF QuizSound
<1> QED
  BY <1>1, <1>2, <1>3, PTL DEF PartSpec
=============================================================================
