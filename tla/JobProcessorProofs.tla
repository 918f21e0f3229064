-------------------------- MODULE JobProcessorProofs --------------------------
(***************************************************************************)
(* What JobProcessor guarantees for any course, workers and number of      *)
(* tries.                                                                  *)
(***************************************************************************)
EXTENDS JobProcessor, FiniteSetTheorems, TLAPS

Working == {"got", "attempt", "judge", "retry"}

HeldBy(w, t) == wpc[w] \in Working /\ hand[w] = t
HeldByRetry(t) == Handing /\ rhand = t

\* Who holds a chapter holds one of the course.
HandsFull ==
    /\ \A w \in Worker : wpc[w] \in Working => hand[w] \in Task
    /\ Handing => rhand \in Task

\* The four places exclude each other, and so do the workers.
Apart ==
    \A t \in Task :
        /\ t \in task_queue => /\ t \notin retry_queue /\ ~HeldByRetry(t)
                               /\ \A w \in Worker : ~HeldBy(w, t)
        /\ t \in retry_queue => /\ ~HeldByRetry(t)
                                /\ \A w \in Worker : ~HeldBy(w, t)
        /\ HeldByRetry(t) => \A w \in Worker : ~HeldBy(w, t)
        /\ \A v, w \in Worker : HeldBy(v, t) /\ HeldBy(w, t) => v = w

\* A chapter that is given up is in none of them.
Retired ==
    /\ failed_tasks = {t \in Task : tries[t] = MaxTries}
    /\ \A t \in failed_tasks :
          /\ t \notin task_queue /\ t \notin retry_queue /\ ~HeldByRetry(t)
          /\ \A w \in Worker : ~HeldBy(w, t)
          /\ t \notin inline_left

NoThreads == rpc \in {"unstarted", "exited"} /\ \A w \in Worker : wpc[w] \in {"unstarted", "exited"}
Empty     == task_queue = {} /\ retry_queue = {}

\* Before the start, in an inline run and after the return nothing runs beside
\* the controller; only an inline run has chapters left inline.
Phases ==
    /\ cpc \in {"start", "inline", "inline_attempt", "returned"} => NoThreads /\ Empty
    /\ inline_left # {} => NoThreads /\ Empty /\ cpc # "start"
    /\ cpc = "start" => failed_tasks = {}

BusyWorkers == {w \in Worker : Busy(w)}

\* The inductive invariant.
IInv == TypeOK /\ HandsFull /\ Apart /\ Retired /\ Phases /\ CountersExact

-----------------------------------------------------------------------------
(* Counting *)

LEMMA TasksFinite ==
  /\ IsFiniteSet(Task)
  /\ \A Q \in SUBSET Task : IsFiniteSet(Q) /\ Cardinality(Q) \in Nat
<1>1. IsFiniteSet(Task)
  BY FS_Interval, NumTasksAssumption DEF Task
<1>2. QED
  BY <1>1, FS_Subset, FS_CardinalityType

LEMMA WorkersFinite ==
  \A W \in SUBSET Worker : IsFiniteSet(W) /\ Cardinality(W) \in Nat
  BY WorkerAssumption, FS_Subset, FS_CardinalityType

\* A set that gains or loses one element.
LEMMA OneMore ==
  ASSUME NEW S, NEW x, IsFiniteSet(S), x \notin S
  PROVE  Cardinality(S \cup {x}) = Cardinality(S) + 1
  BY FS_AddElement

LEMMA OneLess ==
  ASSUME NEW S, NEW x, IsFiniteSet(S), x \in S
  PROVE  Cardinality(S \ {x}) = Cardinality(S) - 1 /\ Cardinality(S) > 0
<1>1. Cardinality(S \ {x}) = Cardinality(S) - 1
  BY FS_RemoveElement
<1>2. Cardinality(S) \in Nat /\ Cardinality(S) # 0
  BY FS_CardinalityType, FS_EmptySet
<1>3. QED
  BY <1>1, <1>2

\* Draining takes from each counter what it counted for the queue.
LEMMA DrainExact ==
  ASSUME TypeOK, CountersExact, Drain
  PROVE  /\ Empty' /\ unfinished' \in Nat /\ pending' \in Nat
         /\ unfinished' = Cardinality(BusyWorkers)
         /\ pending' = IF Handing THEN 1 ELSE 0
<1>1. /\ Cardinality(task_queue) \in Nat /\ Cardinality(retry_queue) \in Nat
      /\ Cardinality(BusyWorkers) \in Nat
  BY TasksFinite, WorkersFinite DEF TypeOK, BusyWorkers
<1>2. QED
  BY <1>1 DEF Drain, Empty, CountersExact, BusyWorkers, Minus

LEMMA ZeroCards == Cardinality({}) = 0
  BY FS_EmptySet

\* The state of the pipeline after a drain by a thread that keeps its place.
LEMMA DrainedCounters ==
  ASSUME TypeOK, CountersExact, Drain, BusyWorkers' = BusyWorkers, Handing' = Handing
  PROVE  CountersExact'
<1>1. /\ task_queue' = {} /\ retry_queue' = {}
      /\ unfinished' = Cardinality(BusyWorkers)
      /\ pending' = IF Handing THEN 1 ELSE 0
  BY DrainExact DEF Empty
<1>2. Cardinality(task_queue') = 0 /\ Cardinality(retry_queue') = 0
  BY <1>1, ZeroCards
<1>3. Cardinality(BusyWorkers) \in Nat
  BY WorkersFinite DEF BusyWorkers
<1>4. unfinished' = Cardinality(task_queue') + Cardinality(BusyWorkers')
  BY <1>1, <1>2, <1>3
<1>5. pending' = Cardinality(retry_queue') + (IF Handing' THEN 1 ELSE 0)
  BY <1>1, <1>2
<1>6. QED
  BY <1>4, <1>5 DEF CountersExact, BusyWorkers

-----------------------------------------------------------------------------
LEMMA InitInv == Init => IInv
<1> SUFFICES ASSUME Init PROVE IInv
  OBVIOUS
<1>1. TypeOK
  <2>1. tries \in [Task -> 0 .. MaxTries]
    BY MaxTriesAssumption DEF Init
  <2>2. result \in [Task -> Result]
    BY DEF Init, Result
  <2>3. wpc \in [Worker -> WorkerPC] /\ hand \in [Worker -> Task \cup {None}]
    BY DEF Init, WorkerPC
  <2>4. QED
    BY <2>1, <2>2, <2>3 DEF Init, TypeOK, RetryPC, ControlPC
<1>2. BusyWorkers = {} /\ ~Handing
  BY DEF Init, BusyWorkers, Busy, Handing
<1>3. CountersExact
  BY <1>2, ZeroCards DEF Init, CountersExact, BusyWorkers
<1>4. HandsFull /\ Apart /\ Phases
  BY DEF Init, HandsFull, Apart, Phases, NoThreads, Empty, Handing, Working, HeldBy, HeldByRetry
<1>5. Retired
  BY MaxTriesAssumption DEF Init, Retired
<1>6. QED
  BY <1>1, <1>3, <1>4, <1>5 DEF IInv

-----------------------------------------------------------------------------
(* The controller *)

\* A step of the controller that moves no chapter and no thread.
LEMMA ControllerStays ==
  ASSUME IInv, cpc \in ControlPC \ {"start", "returned"},
         cpc' \in ControlPC \ {"start", "returned"},
         cpc' \in {"inline", "inline_attempt"} => cpc \in {"inline", "inline_attempt"},
         seen_pending' \in Nat,
         UNCHANGED <<queues, chapter, flags, inline_left, workers, retrier>>
  PROVE  IInv'
<1> USE DEF IInv, queues, chapter, flags, workers, retrier
<1>1. TypeOK'
  BY DEF TypeOK
<1>2. HandsFull' /\ Apart' /\ Retired'
  BY DEF HandsFull, Apart, Retired, HeldBy, HeldByRetry, Handing
<1>3. Phases'
  BY DEF Phases, NoThreads, Empty
<1>4. CountersExact'
  BY DEF CountersExact, Busy, Handing
<1>5. QED
  BY <1>1, <1>2, <1>3, <1>4

LEMMA StepStartThreads == IInv /\ StartThreads => IInv'
<1> SUFFICES ASSUME IInv, StartThreads PROVE IInv'
  OBVIOUS
<1> USE DEF IInv, chapter, flags
<1>1. NoThreads /\ Empty /\ failed_tasks = {} /\ inline_left = {}
  BY DEF StartThreads, Phases
<1>2. /\ task_queue' = Task /\ unfinished' = NumTasks /\ retry_queue' = {}
      /\ cpc' = "top" /\ rpc' \in {"loop", "unstarted"}
      /\ wpc' \in [Worker -> {"idle", "unstarted"}]
  BY <1>1 DEF StartThreads, Empty
<1>3. TypeOK'
  BY <1>2, NumTasksAssumption DEF TypeOK, StartThreads, ControlPC, RetryPC, WorkerPC
<1>4. HandsFull' /\ Apart'
  BY <1>2 DEF HandsFull, Apart, HeldBy, HeldByRetry, Handing, Working
<1>5. Retired'
  BY <1>1, <1>2 DEF Retired, StartThreads, HeldBy, HeldByRetry, Handing, Working
<1>6. Phases'
  BY <1>1, <1>2 DEF Phases, StartThreads
<1>7. CountersExact'
  <2>1. BusyWorkers' = {} /\ BusyWorkers = {}
    BY <1>1, <1>2 DEF BusyWorkers, Busy, NoThreads
  <2>2. ~Handing /\ ~Handing'
    BY <1>1, <1>2 DEF Handing, NoThreads
  <2>3. Cardinality(Task) = NumTasks
    BY FS_Interval, NumTasksAssumption DEF Task
  <2>4. pending' = 0
    BY <1>1, <2>2, ZeroCards DEF CountersExact, Empty, StartThreads
  <2>5. pending' = Cardinality(retry_queue') + (IF Handing' THEN 1 ELSE 0)
    BY <1>2, <2>2, <2>4, ZeroCards
  <2>6. unfinished' = Cardinality(task_queue') + Cardinality(BusyWorkers')
    BY <1>2, <2>1, <2>3, ZeroCards, NumTasksAssumption
  <2>7. QED
    BY <2>5, <2>6 DEF CountersExact, BusyWorkers
<1>8. QED
  BY <1>3, <1>4, <1>5, <1>6, <1>7

LEMMA StepStartInline == IInv /\ StartInline => IInv'
<1> SUFFICES ASSUME IInv, StartInline PROVE IInv'
  OBVIOUS
<1> USE DEF IInv, chapter, flags, workers, retrier
<1>1. NoThreads /\ Empty /\ failed_tasks = {}
  BY DEF StartInline, Phases
<1>2. TypeOK'
  BY DEF TypeOK, StartInline, ControlPC
<1>3. HandsFull' /\ Apart'
  BY <1>1 DEF HandsFull, Apart, StartInline, HeldBy, HeldByRetry, Handing, Working, Empty
<1>4. Retired'
  BY <1>1 DEF Retired, StartInline
<1>5. Phases'
  BY <1>1 DEF Phases, StartInline, NoThreads, Empty
<1>6. CountersExact'
  <2>1. BusyWorkers' = {}
    BY <1>1 DEF BusyWorkers, Busy, NoThreads, StartInline
  <2>2. QED
    BY <1>1, <2>1, ZeroCards DEF CountersExact, StartInline, Empty, Handing, BusyWorkers
<1>7. QED
  BY <1>2, <1>3, <1>4, <1>5, <1>6

LEMMA StepControllerTop == IInv /\ ControllerTop => IInv'
<1> SUFFICES ASSUME IInv, ControllerTop PROVE IInv'
  OBVIOUS
<1> USE DEF IInv
<1>1. CASE UNCHANGED queues
  BY <1>1, ControllerStays DEF ControllerTop, ControlPC, TypeOK, flags, workers, retrier
<1>2. ASSUME NEW t \in retry_queue,
             retry_queue' = retry_queue \ {t}, task_queue' = task_queue \cup {t},
             unfinished' = unfinished + 1, pending' = Minus(pending, 1), cpc' = "poll"
      PROVE  IInv'
  <2> USE <1>2 DEF ControllerTop, chapter, flags, workers, retrier
  <2>1. t \in Task /\ IsFiniteSet(task_queue) /\ IsFiniteSet(retry_queue)
    BY TasksFinite DEF TypeOK
  <2>2. /\ t \notin task_queue /\ ~HeldByRetry(t) /\ \A w \in Worker : ~HeldBy(w, t)
        /\ t \notin failed_tasks
    BY <2>1 DEF Apart, Retired
  <2>3. /\ Cardinality(retry_queue') = Cardinality(retry_queue) - 1
        /\ Cardinality(retry_queue) \in Nat /\ Cardinality(retry_queue) > 0
        /\ Cardinality(task_queue') = Cardinality(task_queue) + 1
        /\ Cardinality(task_queue) \in Nat
    BY <2>1, <2>2, OneMore, OneLess, FS_CardinalityType
  <2>4. pending' = pending - 1 /\ pending' \in Nat
    BY <2>3 DEF Minus, CountersExact
  <2>5. TypeOK'
    BY <2>1, <2>4 DEF TypeOK, ControlPC
  <2>6. HandsFull' /\ Apart'
    BY <2>1, <2>2 DEF HandsFull, Apart, HeldBy, HeldByRetry, Handing
  <2>7. Retired'
    BY <2>2 DEF Retired, HeldBy, HeldByRetry, Handing
  <2>8. Phases'
    BY DEF Phases, Empty
  <2>9. CountersExact'
    <3>1. BusyWorkers' = BusyWorkers /\ Handing' = Handing
      BY DEF BusyWorkers, Busy, Handing
    <3>2. Cardinality(BusyWorkers) \in Nat
      BY WorkersFinite DEF BusyWorkers
    <3>3. unfinished = Cardinality(task_queue) + Cardinality(BusyWorkers)
      BY DEF CountersExact, BusyWorkers
    <3>4. pending = Cardinality(retry_queue) + (IF Handing THEN 1 ELSE 0)
      BY DEF CountersExact
    <3>5. unfinished' = Cardinality(task_queue') + Cardinality(BusyWorkers')
      BY <2>3, <3>1, <3>2, <3>3
    <3>6. pending' = Cardinality(retry_queue') + (IF Handing' THEN 1 ELSE 0)
      BY <2>3, <2>4, <3>1, <3>4
    <3>7. QED
      BY <3>5, <3>6 DEF CountersExact, BusyWorkers
  <2>10. QED
    BY <2>5, <2>6, <2>7, <2>8, <2>9
<1>3. QED
  BY <1>1, <1>2 DEF ControllerTop

\* A drain by the controller, which keeps every thread where it is.
LEMMA ControllerDrains ==
  ASSUME IInv, Drain, cpc \in ControlPC, cpc' \in {"read_pending", "join", "returned"},
         cpc' = "returned" => NoThreads,
         run_stop' \in BOOLEAN, cpc \notin {"start", "returned"},
         UNCHANGED <<chapter, should_stop, raised, seen_pending, inline_left, workers, retrier>>
  PROVE  IInv'
<1> USE DEF IInv, chapter, workers, retrier
<1>1. Empty' /\ unfinished' \in Nat /\ pending' \in Nat
  BY DrainExact
<1>2. TypeOK'
  BY <1>1 DEF TypeOK, ControlPC, Empty
<1>3. HandsFull' /\ Apart' /\ Retired'
  BY <1>1 DEF HandsFull, Apart, Retired, HeldBy, HeldByRetry, Handing, Empty
<1>4. Phases'
  BY <1>1 DEF Phases, NoThreads
<1>5. CountersExact'
  <2>1. BusyWorkers' = BusyWorkers /\ Handing' = Handing
    BY DEF BusyWorkers, Busy, Handing
  <2>2. QED
    BY <2>1, DrainedCounters
<1>6. QED
  BY <1>2, <1>3, <1>4, <1>5

LEMMA StepControllerPoll == IInv /\ ControllerPoll => IInv'
<1> SUFFICES ASSUME IInv, ControllerPoll PROVE IInv'
  OBVIOUS
<1>1. CASE should_stop /\ ~raised
  BY <1>1, ControllerDrains DEF ControllerPoll, IInv, TypeOK, flags, ControlPC
<1>2. CASE ~(should_stop /\ ~raised)
  BY <1>2, ControllerStays DEF ControllerPoll, IInv, TypeOK, ControlPC
<1>3. QED
  BY <1>1, <1>2

LEMMA StepReads == IInv /\ (ReadPending \/ ReadUnfinished \/ InlineCheck) => IInv'
  BY ControllerStays DEF ReadPending, ReadUnfinished, InlineCheck, IInv, TypeOK, ControlPC

LEMMA StepInlineRaises == IInv /\ InlineRaises => IInv'
<1> SUFFICES ASSUME IInv, InlineRaises PROVE IInv'
  OBVIOUS
<1> USE DEF IInv, InlineRaises, queues, chapter, workers, retrier
<1>1. TypeOK'
  BY DEF TypeOK, ControlPC
<1>2. HandsFull' /\ Apart' /\ Retired'
  BY DEF HandsFull, Apart, Retired, HeldBy, HeldByRetry, Handing
<1>3. Phases' /\ CountersExact'
  BY DEF Phases, NoThreads, Empty, CountersExact, Busy, Handing
<1>4. QED
  BY <1>1, <1>2, <1>3

LEMMA StepShutdown == IInv /\ (Shutdown \/ JoinThreads) => IInv'
  BY ControllerDrains
  DEF Shutdown, JoinThreads, IInv, TypeOK, flags, ControlPC, NoThreads

LEMMA StepInlineAttempt == IInv /\ InlineAttempt => IInv'
<1> SUFFICES ASSUME IInv, InlineAttempt PROVE IInv'
  OBVIOUS
<1> USE DEF IInv, queues, flags, workers, retrier
<1>1. PICK t \in inline_left, r \in Outcome :
         LET gives_up == Fails(r) /\ GivesUp(tries[t] + 1)
         IN  /\ result' = [result EXCEPT ![t] = r]
             /\ tries' = IF Fails(r) THEN [tries EXCEPT ![t] = @ + 1] ELSE tries
             /\ failed_tasks' = IF gives_up THEN failed_tasks \cup {t} ELSE failed_tasks
             /\ inline_left' = IF Settles(r) \/ gives_up THEN inline_left \ {t} ELSE inline_left
             /\ cpc' = IF r = "CANCELLED" THEN "shutdown" ELSE "inline"
  BY DEF InlineAttempt
<1>2. t \in Task /\ tries[t] \in 0 .. MaxTries /\ tries[t] # MaxTries
  BY DEF TypeOK, Retired
<1>3. tries[t] + 1 \in 0 .. MaxTries
  BY <1>2, MaxTriesAssumption
<1>4. TypeOK'
  <2>1. tries' \in [Task -> 0 .. MaxTries]
    BY <1>1, <1>3 DEF TypeOK
  <2>2. result' \in [Task -> Result]
    BY <1>1 DEF TypeOK, Outcome, Result
  <2>3. failed_tasks' \in SUBSET Task /\ inline_left' \in SUBSET Task /\ cpc' \in ControlPC
    BY <1>1, <1>2 DEF TypeOK, ControlPC
  <2>4. QED
    BY <2>1, <2>2, <2>3 DEF TypeOK, InlineAttempt
<1>5. NoThreads /\ Empty
  BY DEF Phases, InlineAttempt
<1>6. HandsFull' /\ Apart'
  BY DEF HandsFull, Apart, HeldBy, HeldByRetry, Handing, InlineAttempt
<1>7. Retired'
  <2>1. failed_tasks' = {u \in Task : tries'[u] = MaxTries}
    <3>1. CASE Fails(r)
      <4>1. GivesUp(tries[t] + 1) <=> tries[t] + 1 = MaxTries
        BY <1>3, MaxTriesAssumption DEF GivesUp
      <4>2. \A u \in Task : tries'[u] = IF u = t THEN tries[t] + 1 ELSE tries[u]
        BY <1>1, <1>2, <3>1 DEF TypeOK
      <4>3. QED
        BY <1>1, <1>2, <3>1, <4>1, <4>2 DEF Retired
    <3>2. CASE ~Fails(r)
      BY <1>1, <3>2 DEF Retired
    <3>3. QED
      BY <3>1, <3>2
  <2>2. \A u \in failed_tasks' : u \notin inline_left'
    BY <1>1 DEF Retired
  <2>3. \A u \in Task : ~HeldByRetry(u)' /\ \A w \in Worker : ~HeldBy(w, u)'
    BY <1>5 DEF HeldByRetry, Handing, HeldBy, Working, NoThreads, InlineAttempt
  <2>4. failed_tasks' \in SUBSET Task /\ task_queue' = {} /\ retry_queue' = {}
    BY <1>4, <1>5 DEF TypeOK, Empty, InlineAttempt
  <2>5. QED
    BY <2>1, <2>2, <2>3, <2>4 DEF Retired
<1>8. Phases'
  BY <1>1, <1>5 DEF Phases, NoThreads, Empty, InlineAttempt
<1>9. CountersExact'
  BY DEF CountersExact, Busy, Handing, InlineAttempt
<1>10. QED
  BY <1>4, <1>6, <1>7, <1>8, <1>9

LEMMA StepRequestStop == IInv /\ RequestStop => IInv'
<1> SUFFICES ASSUME IInv, RequestStop PROVE IInv'
  OBVIOUS
<1> USE DEF IInv, RequestStop, queues, chapter, control, workers, retrier
<1>1. TypeOK'
  BY DEF TypeOK
<1>2. HandsFull' /\ Apart' /\ Retired'
  BY DEF HandsFull, Apart, Retired, HeldBy, HeldByRetry, Handing
<1>3. Phases' /\ CountersExact'
  BY DEF Phases, NoThreads, Empty, CountersExact, Busy, Handing
<1>4. QED
  BY <1>1, <1>2, <1>3

LEMMA StepStutter == IInv /\ UNCHANGED vars => IInv'
<1> SUFFICES ASSUME IInv, UNCHANGED vars PROVE IInv'
  OBVIOUS
<1> USE DEF IInv, vars, queues, chapter, flags, control, workers, retrier
<1>1. TypeOK'
  BY DEF TypeOK
<1>2. HandsFull' /\ Apart' /\ Retired'
  BY DEF HandsFull, Apart, Retired, HeldBy, HeldByRetry, Handing
<1>3. Phases' /\ CountersExact'
  BY DEF Phases, NoThreads, Empty, CountersExact, Busy, Handing
<1>4. QED
  BY <1>1, <1>2, <1>3

-----------------------------------------------------------------------------
(* A worker *)

\* While a thread runs, the controller has started them all and has nothing
\* to do inline.
LEMMA ThreadsAlive ==
  ASSUME IInv, ~NoThreads, cpc' = cpc, inline_left' = inline_left
  PROVE  Phases' /\ inline_left = {}
  BY DEF IInv, Phases

\* The set of busy workers when one of them moves.
LEMMA BusyAfter ==
  ASSUME TypeOK, NEW w \in Worker, NEW s, wpc' = [wpc EXCEPT ![w] = s]
  PROVE  /\ Busy(w)' /\ Busy(w) => BusyWorkers' = BusyWorkers
         /\ Busy(w)' /\ ~Busy(w) => Cardinality(BusyWorkers') = Cardinality(BusyWorkers) + 1
         /\ ~Busy(w)' /\ Busy(w) => Cardinality(BusyWorkers') = Cardinality(BusyWorkers) - 1
         /\ ~Busy(w)' /\ ~Busy(w) => BusyWorkers' = BusyWorkers
         /\ Cardinality(BusyWorkers) \in Nat /\ Cardinality(BusyWorkers') \in Nat
<1>1. \A v \in Worker : v # w => (Busy(v)' <=> Busy(v))
  BY DEF TypeOK, Busy
<1>2. IsFiniteSet(BusyWorkers)
  BY WorkersFinite DEF BusyWorkers
<1>3. ASSUME Busy(w)', Busy(w) PROVE BusyWorkers' = BusyWorkers
  BY <1>1, <1>3 DEF BusyWorkers
<1>4. ASSUME Busy(w)', ~Busy(w)
      PROVE  Cardinality(BusyWorkers') = Cardinality(BusyWorkers) + 1
  <2>1. BusyWorkers' = BusyWorkers \cup {w} /\ w \notin BusyWorkers
    BY <1>1, <1>4 DEF BusyWorkers
  <2>2. QED
    BY <1>2, <2>1, OneMore
<1>5. ASSUME ~Busy(w)', Busy(w)
      PROVE  Cardinality(BusyWorkers') = Cardinality(BusyWorkers) - 1
  <2>1. BusyWorkers' = BusyWorkers \ {w} /\ w \in BusyWorkers
    BY <1>1, <1>5 DEF BusyWorkers
  <2>2. QED
    BY <1>2, <2>1, OneLess
<1>6. ASSUME ~Busy(w)', ~Busy(w) PROVE BusyWorkers' = BusyWorkers
  BY <1>1, <1>6 DEF BusyWorkers
<1>7. Cardinality(BusyWorkers) \in Nat /\ Cardinality(BusyWorkers') \in Nat
  <2>1. BusyWorkers \in SUBSET Worker /\ BusyWorkers' \in SUBSET Worker
    BY DEF BusyWorkers
  <2>2. QED
    BY <2>1, WorkersFinite
<1>8. QED
  BY <1>3, <1>4, <1>5, <1>6, <1>7

\* A busy worker goes on with the chapter it has, or lets go of it.
LEMMA WorkerStays ==
  ASSUME IInv, NEW w \in Worker, wpc[w] \in Working,
         NEW s \in {"attempt", "judge", "retry", "done", "leave", "raise"},
         wpc' = [wpc EXCEPT ![w] = s], result' \in [Task -> Result],
         UNCHANGED <<queues, tries, failed_tasks, flags, control, hand, retrier>>
  PROVE  IInv'
<1> USE DEF IInv, queues, flags, control, retrier
<1>1. TypeOK'
  BY DEF TypeOK, WorkerPC
<1>2. \A v \in Worker, t \in Task : HeldBy(v, t)' => HeldBy(v, t)
  BY DEF HeldBy, TypeOK, Working
<1>3. \A t \in Task : HeldByRetry(t)' <=> HeldByRetry(t)
  BY DEF HeldByRetry, Handing
<1>4. HandsFull'
  BY DEF HandsFull, Handing, TypeOK, Working
<1>5. Apart'
  BY <1>2, <1>3 DEF Apart
<1>6. Retired'
  BY <1>2, <1>3 DEF Retired
<1>7. Phases'
  BY ThreadsAlive DEF NoThreads, Working
<1>8. CountersExact'
  <2>1. Busy(w) /\ Busy(w)'
    BY DEF Busy, Working, TypeOK
  <2>2. BusyWorkers' = BusyWorkers
    BY <2>1, BusyAfter
  <2>3. QED
    BY <2>2 DEF CountersExact, BusyWorkers, Handing
<1>9. QED
  BY <1>1, <1>4, <1>5, <1>6, <1>7, <1>8

LEMMA StepGetTask == ASSUME IInv, NEW w \in Worker, GetTask(w) PROVE IInv'
<1> USE DEF IInv, GetTask, chapter, flags, control, retrier
<1>1. PICK t \in task_queue : /\ task_queue' = task_queue \ {t}
                              /\ hand' = [hand EXCEPT ![w] = t]
  OBVIOUS
<1>2. t \in Task /\ wpc' = [wpc EXCEPT ![w] = "got"]
  BY DEF TypeOK
<1>3. TypeOK'
  BY <1>1, <1>2 DEF TypeOK, WorkerPC
<1>4. \A v \in Worker, u \in Task : HeldBy(v, u)' <=> HeldBy(v, u) \/ (v = w /\ u = t)
  BY <1>1, <1>2 DEF HeldBy, TypeOK, Working
<1>5. \A u \in Task : HeldByRetry(u)' <=> HeldByRetry(u)
  BY DEF HeldByRetry, Handing
<1>6. HandsFull'
  BY <1>1, <1>2 DEF HandsFull, TypeOK, Handing
<1>7. Apart'
  BY <1>1, <1>2, <1>4, <1>5 DEF Apart
<1>8. Retired'
  BY <1>1, <1>2, <1>4, <1>5 DEF Retired
<1>9. Phases'
  BY ThreadsAlive DEF NoThreads
<1>10. CountersExact'
  <2>1. ~Busy(w) /\ Busy(w)'
    BY <1>2 DEF Busy, TypeOK
  <2>2. Cardinality(BusyWorkers') = Cardinality(BusyWorkers) + 1 /\ Cardinality(BusyWorkers) \in Nat
    BY <1>2, <2>1, BusyAfter
  <2>3. /\ Cardinality(task_queue') = Cardinality(task_queue) - 1
        /\ Cardinality(task_queue) \in Nat
    BY <1>1, OneLess, TasksFinite DEF TypeOK
  <2>4. QED
    BY <2>2, <2>3 DEF CountersExact, BusyWorkers, Handing
<1>11. QED
  BY <1>3, <1>6, <1>7, <1>8, <1>9, <1>10

LEMMA StepEmptyQueue == ASSUME IInv, NEW w \in Worker, EmptyQueue(w) PROVE IInv'
<1> USE DEF IInv, EmptyQueue, queues, chapter, flags, control, retrier
<1>1. TypeOK'
  BY DEF TypeOK, WorkerPC
<1>2. \A v \in Worker, t \in Task : HeldBy(v, t)' => HeldBy(v, t)
  BY DEF HeldBy, TypeOK, Working
<1>3. \A t \in Task : HeldByRetry(t)' <=> HeldByRetry(t)
  BY DEF HeldByRetry, Handing
<1>4. HandsFull' /\ Apart' /\ Retired'
  BY <1>2, <1>3 DEF HandsFull, Handing, TypeOK, Working, Apart, Retired
<1>5. Phases'
  BY ThreadsAlive DEF NoThreads
<1>6. CountersExact'
  <2>1. ~Busy(w) /\ ~Busy(w)'
    BY DEF Busy, TypeOK
  <2>2. BusyWorkers' = BusyWorkers
    BY <2>1, BusyAfter
  <2>3. QED
    BY <2>2 DEF CountersExact, BusyWorkers, Handing
<1>7. QED
  BY <1>1, <1>4, <1>5, <1>6

LEMMA StepAttempt ==
  ASSUME IInv, NEW w \in Worker, BeginAttempt(w) \/ EndAttempt(w) \/ AttemptRaises(w)
  PROVE  IInv'
<1> USE DEF queues, chapter
<1>1. wpc[w] \in Working /\ result \in [Task -> Result]
  BY DEF IInv, TypeOK, BeginAttempt, EndAttempt, AttemptRaises, Working
<1>2. CASE BeginAttempt(w)
  <2>1. PICK s \in {"leave", "attempt"} : wpc' = [wpc EXCEPT ![w] = s]
    BY <1>2 DEF BeginAttempt
  <2>2. QED
    BY <1>1, <1>2, <2>1, WorkerStays DEF BeginAttempt
<1>3. CASE EndAttempt(w)
  <2>1. result' \in [Task -> Result]
    BY <1>1, <1>3 DEF EndAttempt, Outcome, Result
  <2>2. QED
    BY <1>1, <1>3, <2>1, WorkerStays DEF EndAttempt
<1>4. CASE AttemptRaises(w)
  BY <1>1, <1>4, WorkerStays DEF AttemptRaises
<1>5. QED
  BY <1>2, <1>3, <1>4

LEMMA StepJudge == ASSUME IInv, NEW w \in Worker, Judge(w) PROVE IInv'
<1> DEFINE t == hand[w]
           next(s) == wpc' = [wpc EXCEPT ![w] = s]
<1>1. wpc[w] \in Working /\ result' = result /\ result \in [Task -> Result]
  BY DEF IInv, TypeOK, Judge, Working
<1>2. t \in Task /\ HeldBy(w, t)
  BY <1>1 DEF IInv, HandsFull, HeldBy
<1>3. ASSUME next("leave") \/ next("done"), UNCHANGED <<queues, tries, failed_tasks>>
      PROVE  IInv'
  <2>1. PICK s \in {"leave", "done"} : wpc' = [wpc EXCEPT ![w] = s]
    BY <1>3
  <2>2. QED
    BY <1>1, <1>3, <2>1, WorkerStays DEF Judge
<1>4. ASSUME tries' = [tries EXCEPT ![t] = @ + 1], UNCHANGED queues,
             \/ /\ GivesUp(tries[t] + 1)
                /\ failed_tasks' = failed_tasks \cup {t}
                /\ next("done")
             \/ /\ ~GivesUp(tries[t] + 1)
                /\ UNCHANGED failed_tasks
                /\ next("retry")
      PROVE  IInv'
  <2> USE <1>4 DEF IInv, Judge, queues, flags, control, retrier
  <2>1. /\ t \notin failed_tasks /\ t \notin task_queue /\ t \notin retry_queue
        /\ ~HeldByRetry(t) /\ \A v \in Worker : HeldBy(v, t) => v = w
    BY <1>2 DEF Apart, Retired
  <2>2. tries[t] \in 0 .. MaxTries /\ tries[t] # MaxTries
    BY <1>2, <2>1 DEF TypeOK, Retired
  <2>3. tries[t] + 1 \in 0 .. MaxTries /\ (GivesUp(tries[t] + 1) <=> tries[t] + 1 = MaxTries)
    BY <2>2, MaxTriesAssumption DEF GivesUp
  <2>4. PICK s \in {"done", "retry"} : wpc' = [wpc EXCEPT ![w] = s]
    OBVIOUS
  <2>5. TypeOK'
    <3>1. tries' \in [Task -> 0 .. MaxTries]
      BY <2>3 DEF TypeOK
    <3>2. failed_tasks' \in SUBSET Task /\ wpc' \in [Worker -> WorkerPC]
      BY <1>2, <2>4 DEF TypeOK, WorkerPC
    <3>3. QED
      BY <1>1, <3>1, <3>2 DEF TypeOK
  <2>6. \A v \in Worker, u \in Task : HeldBy(v, u)' => HeldBy(v, u)
    BY <1>1, <2>4 DEF HeldBy, TypeOK
  <2>7. \A u \in Task : HeldByRetry(u)' <=> HeldByRetry(u)
    BY DEF HeldByRetry, Handing
  <2>8. HandsFull'
    BY <1>2, <2>4 DEF HandsFull, Handing, TypeOK
  <2>9. Apart'
    BY <2>6, <2>7 DEF Apart
  <2>10. Retired'
    <3>1. failed_tasks' = {u \in Task : tries'[u] = MaxTries}
      <4>1. \A u \in Task : tries'[u] = IF u = t THEN tries[t] + 1 ELSE tries[u]
        BY DEF TypeOK
      <4>2. QED
        BY <1>2, <2>2, <2>3, <4>1 DEF Retired
    <3>2. t \in failed_tasks' => \A v \in Worker : ~HeldBy(v, t)'
      <4>1. CASE GivesUp(tries[t] + 1)
        BY <2>1, <2>6, <1>2, <4>1 DEF HeldBy, Working, TypeOK
      <4>2. CASE ~GivesUp(tries[t] + 1)
        BY <2>1, <4>2
      <4>3. QED
        BY <4>1, <4>2
    <3>3. inline_left' = {}
      BY <1>1, ThreadsAlive DEF NoThreads, Working
    <3>4. \A u \in failed_tasks' : u = t \/ u \in failed_tasks
      OBVIOUS
    <3>5. QED
      BY <1>2, <2>1, <2>6, <2>7, <2>5, <3>1, <3>2, <3>3, <3>4 DEF Retired, TypeOK
  <2>11. Phases'
    BY <1>1, ThreadsAlive DEF NoThreads, Working
  <2>12. CountersExact'
    <3>1. Busy(w) /\ Busy(w)'
      BY <1>1, <2>4 DEF Busy, Working, TypeOK
    <3>2. BusyWorkers' = BusyWorkers
      BY <2>4, <3>1, BusyAfter
    <3>3. QED
      BY <3>2 DEF CountersExact, BusyWorkers, Handing
  <2>13. QED
    BY <2>5, <2>8, <2>9, <2>10, <2>11, <2>12
<1>5. ASSUME Drain, next("leave"), UNCHANGED <<tries, failed_tasks>>
      PROVE  IInv'
  <2> USE <1>5 DEF IInv, Judge, flags, control, retrier
  <2>1. Empty' /\ unfinished' \in Nat /\ pending' \in Nat
    BY DrainExact
  <2>2. TypeOK'
    BY <2>1 DEF TypeOK, WorkerPC, Empty
  <2>3. \A v \in Worker, u \in Task : HeldBy(v, u)' => HeldBy(v, u)
    BY DEF HeldBy, TypeOK, Working
  <2>4. \A u \in Task : HeldByRetry(u)' <=> HeldByRetry(u)
    BY DEF HeldByRetry, Handing
  <2>5. HandsFull'
    BY DEF HandsFull, Handing, TypeOK, Working
  <2>6. Apart' /\ Retired'
    BY <2>1, <2>3, <2>4 DEF Apart, Retired, Empty
  <2>7. Phases'
    BY <1>1, ThreadsAlive DEF NoThreads, Working
  <2>8. CountersExact'
    <3>1. Busy(w) /\ Busy(w)'
      BY <1>1 DEF Busy, Working, TypeOK
    <3>2. BusyWorkers' = BusyWorkers /\ Handing' = Handing
      BY <3>1, BusyAfter DEF Handing
    <3>3. QED
      BY <3>2, DrainedCounters
  <2>9. QED
    BY <2>2, <2>5, <2>6, <2>7, <2>8
<1>6. QED
  BY <1>3, <1>4, <1>5 DEF Judge

LEMMA StepEnqueueRetry == ASSUME IInv, NEW w \in Worker, EnqueueRetry(w) PROVE IInv'
<1> USE DEF IInv, EnqueueRetry, chapter, flags, control, retrier
<1> DEFINE t == hand[w]
<1>1. t \in Task /\ HeldBy(w, t) /\ wpc' = [wpc EXCEPT ![w] = "done"]
  BY DEF HandsFull, HeldBy, Working
<1>2. /\ t \notin failed_tasks /\ t \notin task_queue /\ t \notin retry_queue
      /\ ~HeldByRetry(t) /\ \A v \in Worker : HeldBy(v, t) => v = w
  BY <1>1 DEF Apart, Retired
<1>3. \/ retry_queue' = retry_queue /\ pending' = pending
      \/ retry_queue' = retry_queue \cup {t} /\ pending' = pending + 1
  OBVIOUS
<1>4. TypeOK'
  BY <1>1, <1>3 DEF TypeOK, WorkerPC
<1>5. \A v \in Worker, u \in Task : HeldBy(v, u)' => HeldBy(v, u) /\ v # w
  BY <1>1 DEF HeldBy, TypeOK, Working
<1>6. \A u \in Task : HeldByRetry(u)' <=> HeldByRetry(u)
  BY DEF HeldByRetry, Handing
<1>7. HandsFull'
  BY DEF HandsFull, Handing, TypeOK, Working
<1>8. Apart'
  BY <1>2, <1>3, <1>5, <1>6 DEF Apart
<1>9. Retired'
  BY <1>2, <1>3, <1>5, <1>6 DEF Retired
<1>10. Phases'
  BY ThreadsAlive DEF NoThreads
<1>11. CountersExact'
  <2>1. Busy(w) /\ Busy(w)'
    BY <1>1 DEF Busy, TypeOK
  <2>2. BusyWorkers' = BusyWorkers
    BY <1>1, <2>1, BusyAfter
  <2>3. Cardinality(retry_queue) \in Nat /\ IsFiniteSet(retry_queue)
    BY TasksFinite DEF TypeOK
  <2>4. Cardinality(retry_queue \cup {t}) = Cardinality(retry_queue) + 1
    BY <1>2, <2>3, OneMore
  <2>5. pending' = Cardinality(retry_queue') + (IF Handing' THEN 1 ELSE 0)
    <3>1. CASE retry_queue' = retry_queue /\ pending' = pending
      BY <3>1 DEF CountersExact, Handing
    <3>2. CASE retry_queue' = retry_queue \cup {t} /\ pending' = pending + 1
      BY <2>3, <2>4, <3>2 DEF CountersExact, Handing
    <3>3. QED
      BY <1>3, <3>1, <3>2
  <2>6. QED
    BY <2>2, <2>5 DEF CountersExact, BusyWorkers
<1>12. QED
  BY <1>4, <1>7, <1>8, <1>9, <1>10, <1>11

LEMMA StepTaskDone == ASSUME IInv, NEW w \in Worker, TaskDone(w) PROVE IInv'
<1> USE DEF IInv, TaskDone, chapter, control, retrier
<1>1. PICK s \in {"idle", "exited"} : wpc' = [wpc EXCEPT ![w] = s]
  OBVIOUS
<1>2. Busy(w) /\ ~Busy(w)'
  BY <1>1 DEF Busy, TypeOK
<1>3. /\ Cardinality(BusyWorkers') = Cardinality(BusyWorkers) - 1
      /\ Cardinality(BusyWorkers) \in Nat /\ Cardinality(BusyWorkers') \in Nat
      /\ Cardinality(task_queue) \in Nat
  BY <1>1, <1>2, BusyAfter, TasksFinite DEF TypeOK
<1>4. unfinished = Cardinality(task_queue) + Cardinality(BusyWorkers)
  BY DEF CountersExact, BusyWorkers
<1>5. unfinished' \in Nat /\ unfinished' = Cardinality(task_queue') + Cardinality(BusyWorkers')
  BY <1>3, <1>4
<1>6. TypeOK'
  BY <1>1, <1>5 DEF TypeOK, WorkerPC
<1>7. \A v \in Worker, u \in Task : HeldBy(v, u)' => HeldBy(v, u)
  BY <1>1 DEF HeldBy, TypeOK, Working
<1>8. \A u \in Task : HeldByRetry(u)' <=> HeldByRetry(u)
  BY DEF HeldByRetry, Handing
<1>9. HandsFull'
  BY <1>1 DEF HandsFull, Handing, TypeOK, Working
<1>10. Apart' /\ Retired'
  BY <1>7, <1>8 DEF Apart, Retired
<1>11. Phases'
  BY ThreadsAlive DEF NoThreads
<1>12. CountersExact'
  BY <1>5 DEF CountersExact, BusyWorkers, Handing
<1>13. QED
  BY <1>6, <1>9, <1>10, <1>11, <1>12

-----------------------------------------------------------------------------
(* The retry thread *)

LEMMA StepRetryLoop == IInv /\ (RetryLoop \/ RetryDecide) => IInv'
<1> SUFFICES ASSUME IInv, RetryLoop \/ RetryDecide PROVE IInv'
  OBVIOUS
<1> USE DEF IInv, chapter, flags, control, workers
<1>1. Handing' = Handing /\ rhand' = rhand /\ BusyWorkers' = BusyWorkers
  BY DEF Handing, RetryLoop, RetryDecide, BusyWorkers, Busy
<1>2. /\ UNCHANGED <<tries, result, failed_tasks, should_stop, run_stop, raised, cpc,
                     seen_pending, inline_left, wpc, hand>>
      /\ rpc' \in RetryPC /\ rstopping' \in BOOLEAN /\ rpc \notin {"unstarted", "exited"}
  BY DEF RetryLoop, RetryDecide, RetryPC, TypeOK
<1>3. CASE Drain
  <2>1. Empty' /\ unfinished' \in Nat /\ pending' \in Nat
    BY <1>3, DrainExact
  <2>2. TypeOK'
    BY <1>1, <1>2, <2>1 DEF TypeOK, Empty
  <2>3. HandsFull' /\ Apart' /\ Retired'
    BY <1>1, <1>2, <2>1 DEF HandsFull, Apart, Retired, HeldBy, HeldByRetry, Empty
  <2>4. Phases'
    BY <1>2, ThreadsAlive DEF NoThreads
  <2>5. QED
    BY <1>1, <1>3, <2>2, <2>3, <2>4, DrainedCounters
<1>4. CASE UNCHANGED queues
  <2> USE <1>4 DEF queues
  <2>1. TypeOK'
    BY <1>1, <1>2 DEF TypeOK
  <2>2. HandsFull' /\ Apart' /\ Retired'
    BY <1>1, <1>2 DEF HandsFull, Apart, Retired, HeldBy, HeldByRetry
  <2>3. Phases'
    BY <1>2, ThreadsAlive DEF NoThreads
  <2>4. CountersExact'
    BY <1>1 DEF CountersExact, BusyWorkers
  <2>5. QED
    BY <2>1, <2>2, <2>3, <2>4
<1>5. QED
  BY <1>3, <1>4 DEF RetryLoop, RetryDecide

LEMMA StepRetryGet == IInv /\ RetryGet => IInv'
<1> SUFFICES ASSUME IInv, RetryGet PROVE IInv'
  OBVIOUS
<1> USE DEF IInv, RetryGet, chapter, flags, control, workers
<1>1. BusyWorkers' = BusyWorkers /\ ~Handing /\ Phases'
  BY ThreadsAlive DEF BusyWorkers, Busy, Handing, NoThreads
<1>2. CASE rpc' = "loop" /\ UNCHANGED <<retry_queue, rhand>>
  <2>1. TypeOK'
    BY <1>2 DEF TypeOK, RetryPC
  <2>2. ~Handing'
    BY <1>2 DEF Handing
  <2>3. HandsFull' /\ Apart' /\ Retired'
    BY <1>1, <1>2, <2>2 DEF HandsFull, Apart, Retired, HeldBy, HeldByRetry
  <2>4. CountersExact'
    BY <1>1, <1>2, <2>2 DEF CountersExact, BusyWorkers
  <2>5. QED
    BY <1>1, <2>1, <2>3, <2>4
<1>3. ASSUME NEW t \in retry_queue, retry_queue' = retry_queue \ {t}, rhand' = t, rpc' = "got"
      PROVE  IInv'
  <2> USE <1>3
  <2>1. t \in Task /\ Handing'
    BY DEF TypeOK, Handing
  <2>2. /\ t \notin failed_tasks /\ t \notin task_queue
        /\ \A v \in Worker : ~HeldBy(v, t)
    BY <2>1 DEF Apart, Retired
  <2>3. TypeOK'
    BY <2>1 DEF TypeOK, RetryPC
  <2>4. \A u \in Task : HeldByRetry(u)' <=> u = t
    BY <2>1 DEF HeldByRetry
  <2>5. HandsFull'
    BY <2>1 DEF HandsFull
  <2>6. Apart' /\ Retired'
    BY <2>1, <2>2, <2>4 DEF Apart, Retired, HeldBy
  <2>7. Cardinality(retry_queue') = Cardinality(retry_queue) - 1 /\ Cardinality(retry_queue) \in Nat
    BY OneLess, TasksFinite DEF TypeOK
  <2>8. CountersExact'
    BY <1>1, <2>1, <2>7 DEF CountersExact, BusyWorkers
  <2>9. QED
    BY <1>1, <2>3, <2>5, <2>6, <2>8
<1>4. QED
  BY <1>2, <1>3

LEMMA StepRetryRequeue == IInv /\ RetryRequeue => IInv'
<1> SUFFICES ASSUME IInv, RetryRequeue PROVE IInv'
  OBVIOUS
<1> USE DEF IInv, RetryRequeue, chapter, flags, control, workers
<1> DEFINE t == rhand
<1>1. BusyWorkers' = BusyWorkers /\ Handing /\ ~Handing' /\ Phases'
  BY ThreadsAlive DEF BusyWorkers, Busy, Handing, NoThreads
<1>2. t \in Task /\ HeldByRetry(t) /\ pending = Cardinality(retry_queue) + 1
  BY <1>1 DEF HandsFull, HeldByRetry, CountersExact
<1>3. /\ Cardinality(retry_queue) \in Nat /\ Cardinality(task_queue) \in Nat
      /\ IsFiniteSet(task_queue) /\ Cardinality(BusyWorkers) \in Nat
  BY TasksFinite, WorkersFinite DEF TypeOK, BusyWorkers
<1>4. /\ t \notin failed_tasks /\ t \notin task_queue /\ t \notin retry_queue
      /\ \A v \in Worker : ~HeldBy(v, t)
  BY <1>2 DEF Apart, Retired
<1>5. \A u \in Task : ~HeldByRetry(u)'
  BY <1>1 DEF HeldByRetry
<1>6. unfinished = Cardinality(task_queue) + Cardinality(BusyWorkers)
  BY DEF CountersExact, BusyWorkers
<1>7. CASE ReleaseAndDrain /\ rpc' = "exited"
  <2> USE <1>7 DEF ReleaseAndDrain
  <2>1. /\ task_queue' = {} /\ retry_queue' = {}
        /\ unfinished' = Cardinality(BusyWorkers) /\ pending' = 0
    BY <1>2, <1>3, <1>6 DEF Minus
  <2>2. TypeOK'
    <3>1. rpc' \in RetryPC /\ rhand' \in Task \cup {None} /\ rstopping' \in BOOLEAN
      BY DEF RetryPC
    <3>2. unfinished' \in Nat /\ pending' \in Nat
      BY <1>3, <2>1
    <3>3. QED
      BY <2>1, <3>1, <3>2 DEF TypeOK
  <2>3. HandsFull' /\ Apart' /\ Retired'
    BY <1>1, <1>5, <2>1 DEF HandsFull, Apart, Retired, HeldBy
  <2>4. CountersExact'
    <3>1. unfinished' = Cardinality(task_queue') + Cardinality(BusyWorkers')
      BY <1>1, <1>3, <2>1, ZeroCards
    <3>2. pending' = Cardinality(retry_queue') + (IF Handing' THEN 1 ELSE 0)
      BY <1>1, <2>1, ZeroCards
    <3>3. QED
      BY <3>1, <3>2 DEF CountersExact, BusyWorkers
  <2>5. QED
    BY <1>1, <2>2, <2>3, <2>4
<1>8. CASE /\ task_queue' = task_queue \cup {t}
           /\ unfinished' = unfinished + 1
           /\ pending' = Minus(pending, 1)
           /\ rpc' = "loop"
           /\ UNCHANGED retry_queue
  <2> USE <1>8
  <2>1. pending' = Cardinality(retry_queue) /\ unfinished' \in Nat
    BY <1>2, <1>3 DEF Minus, TypeOK
  <2>2. TypeOK'
    BY <1>2, <1>3, <2>1 DEF TypeOK, RetryPC
  <2>3. HandsFull' /\ Apart' /\ Retired'
    BY <1>1, <1>2, <1>4, <1>5 DEF HandsFull, Apart, Retired, HeldBy
  <2>4. Cardinality(task_queue') = Cardinality(task_queue) + 1
    BY <1>3, <1>4, OneMore
  <2>5. CountersExact'
    <3>1. unfinished' = Cardinality(task_queue') + Cardinality(BusyWorkers')
      BY <1>1, <1>3, <1>6, <2>4
    <3>2. pending' = Cardinality(retry_queue') + (IF Handing' THEN 1 ELSE 0)
      BY <1>1, <1>3, <2>1
    <3>3. QED
      BY <3>1, <3>2 DEF CountersExact, BusyWorkers
  <2>6. QED
    BY <1>1, <2>2, <2>3, <2>5
<1>9. QED
  BY <1>7, <1>8

-----------------------------------------------------------------------------
(* The theorems *)

\* IInv holds in every reachable state of a run, whatever its threads do.
THEOREM Invariance == Spec => []IInv
<1>1. Init => IInv
  BY InitInv
<1>2. IInv /\ [Next]_vars => IInv'
  <2> SUFFICES ASSUME IInv, [Next]_vars PROVE IInv'
    OBVIOUS
  <2>1. CASE Controller
    BY <2>1, StepStartThreads, StepStartInline, StepControllerTop, StepControllerPoll,
       StepReads, StepInlineAttempt, StepInlineRaises, StepShutdown
    DEF Controller
  <2>2. ASSUME NEW w \in Worker, WorkerStep(w) PROVE IInv'
    BY <2>2, StepGetTask, StepEmptyQueue, StepAttempt, StepJudge, StepEnqueueRetry, StepTaskDone
    DEF WorkerStep
  <2>3. CASE RetryStep
    BY <2>3, StepRetryLoop, StepRetryGet, StepRetryRequeue DEF RetryStep
  <2>4. CASE RequestStop
    BY <2>4, StepRequestStop
  <2>5. CASE Done \/ UNCHANGED vars
    BY <2>5, StepStutter DEF Done
  <2>6. QED
    BY <2>1, <2>2, <2>3, <2>4, <2>5 DEF Next
<1>3. QED
  BY <1>1, <1>2, PTL DEF Spec

\* Every variable keeps its type; in particular tries never passes max_tries
\* and the two counters never go below zero.
THEOREM TypeCorrect == Spec => []TypeOK
  BY Invariance, PTL DEF IInv

\* unfinished_tasks and _pending_retries are exact at every step of every
\* thread, whoever drains, promotes, requeues or raises.
THEOREM CountersStayExact == Spec => []CountersExact
  BY Invariance, PTL DEF IInv

\* No chapter is ever at two places of the pipeline or in two hands.
THEOREM NeverTwice == Spec => []OnePlace
<1>1. IInv => OnePlace
  <2> SUFFICES ASSUME IInv, NEW t \in Task, NEW p \in Places(t), NEW q \in Places(t)
               PROVE  p = q
    BY DEF OnePlace
  <2>1. \A x \in Places(t) :
           \/ x = "task_queue" /\ t \in task_queue
           \/ x = "retry_queue" /\ t \in retry_queue
           \/ x = "retry_thread" /\ HeldByRetry(t)
           \/ x \in Worker /\ HeldBy(x, t)
    <3>1. \A x \in Holders(t) : x \in Worker /\ HeldBy(x, t)
      BY DEF Holders, HeldBy, Working
    <3>2. QED
      BY <3>1 DEF Places, HeldByRetry
  <2>2. QED
    BY <2>1 DEF IInv, Apart
<1>2. QED
  BY <1>1, Invariance, PTL

\* A chapter given up used all its tries and is never handed on again.
THEOREM GivenUpOnce == Spec => []GivenUpForGood
<1>1. IInv => GivenUpForGood
  <2> SUFFICES ASSUME IInv PROVE GivenUpForGood
    OBVIOUS
  <2>1. ASSUME NEW t \in failed_tasks PROVE Places(t) = {} /\ t \notin inline_left
    <3>1. t \in Task /\ Holders(t) = {}
      BY <2>1 DEF IInv, TypeOK, Retired, Holders, HeldBy, Working
    <3>2. QED
      BY <2>1, <3>1 DEF IInv, Retired, Places, HeldByRetry
  <2>2. QED
    BY <2>1 DEF GivenUpForGood, IInv, Retired
<1>2. QED
  BY <1>1, Invariance, PTL

\* After run() has returned or raised, nothing of the run is left.
THEOREM NothingLeftBehind == Spec => []QuietAfterReturn
<1>1. IInv => QuietAfterReturn
  <2> SUFFICES ASSUME IInv, cpc = "returned"
               PROVE  NoThreads /\ Empty /\ unfinished = 0 /\ pending = 0
    BY DEF QuietAfterReturn, NoThreads, Empty
  <2>1. NoThreads /\ Empty
    BY DEF IInv, Phases
  <2>2. BusyWorkers = {} /\ ~Handing
    BY <2>1 DEF BusyWorkers, Busy, Handing, NoThreads
  <2>3. QED
    BY <2>1, <2>2, ZeroCards DEF IInv, CountersExact, BusyWorkers, Empty
<1>2. QED
  BY <1>1, Invariance, PTL

-----------------------------------------------------------------------------
(* Nothing is lost on the way *)

\* Chapter t is at one of its places.
Somewhere(t) ==
    \/ t \in task_queue \/ t \in retry_queue \/ HeldByRetry(t)
    \/ \E w \in Worker : HeldBy(w, t)

Polling == {"top", "poll", "read_pending", "read_unfinished"}

\* The run goes on: the controller polls, nobody stopped it, nothing raised.
Undisturbed ==
    cpc \in Polling /\ ~should_stop /\ ~raised /\ \A w \in Worker : wpc[w] # "raise"

\* Only a stop makes a thread let go of a chapter that is not settled: the
\* run's own flag stays down until the controller has left its loop, and what
\* a thread remembers of a stop ("stopping", CANCELLED) was true.
StopsAreReal ==
    /\ cpc \in Polling \cup {"start"} => ~run_stop
    /\ rstopping => run_stop \/ should_stop
    /\ \A t \in Task : result[t] = "CANCELLED" => should_stop

KInv ==
    /\ IInv /\ StopsAreReal
    /\ Undisturbed => \A t \in Task : Settled(t) \/ Somewhere(t)

\* A step that neither ends a run, stops it nor moves a chapter.
LEMMA NothingMoves ==
  ASSUME KInv, UNCHANGED <<task_queue, retry_queue, result, failed_tasks, should_stop, run_stop>>,
         UNCHANGED retrier,
         raised => raised', cpc' \in Polling => cpc \in Polling, cpc' # "start",
         \A w \in Worker, t \in Task : HeldBy(w, t) => HeldBy(w, t)' \/ ~Undisturbed',
         \A w \in Worker : wpc[w] = "raise" => wpc'[w] = "raise" \/ raised'
  PROVE  StopsAreReal' /\ (Undisturbed' => \A t \in Task : Settled(t)' \/ Somewhere(t)')
<1>1. StopsAreReal'
  BY DEF KInv, StopsAreReal, retrier
<1>2. Undisturbed' => Undisturbed
  BY DEF Undisturbed
<1>3. \A t \in Task : Settled(t) => Settled(t)'
  BY DEF Settled, Settles
<1>4. \A t \in Task : HeldByRetry(t) => HeldByRetry(t)'
  BY DEF HeldByRetry, Handing, retrier
<1> QED
  BY <1>1, <1>2, <1>3, <1>4 DEF KInv, Somewhere

LEMMA KeptByController ==
  ASSUME KInv, Controller
  PROVE  StopsAreReal' /\ (Undisturbed' => \A t \in Task : Settled(t)' \/ Somewhere(t)')
<1> USE DEF queues, chapter, flags, workers, retrier
<1>t. TypeOK /\ IInv
  BY DEF KInv, IInv
<1>1. CASE StartThreads
  <2>1. task_queue' = Task /\ cpc = "start" /\ UNCHANGED <<flags, result, rstopping>>
    BY <1>1 DEF StartThreads
  <2> QED
    BY <2>1 DEF KInv, StopsAreReal, Somewhere, Polling
<1>2. CASE StartInline \/ InlineCheck \/ InlineRaises \/ Shutdown \/ JoinThreads
  <2>1. /\ cpc' \notin Polling \cup {"start"} /\ UNCHANGED <<result, rstopping, should_stop>>
        /\ run_stop => run_stop'
    BY <1>2 DEF StartInline, InlineCheck, InlineRaises, Shutdown, JoinThreads, Polling
  <2> QED
    BY <2>1 DEF KInv, StopsAreReal, Undisturbed
<1>3. CASE InlineAttempt
  <2>1. PICK t \in inline_left, r \in Outcome :
          result' = [result EXCEPT ![t] = r] /\ cpc' \in {"shutdown", "inline"}
    BY <1>3 DEF InlineAttempt
  <2>2. r = "CANCELLED" => should_stop
    BY DEF Outcome
  <2>3. \A u \in Task : result'[u] = "CANCELLED" => should_stop
    BY <1>t, <2>1, <2>2 DEF TypeOK, KInv, StopsAreReal
  <2>4. UNCHANGED <<should_stop, run_stop, rstopping>> /\ cpc' \notin Polling \cup {"start"}
    BY <1>3, <2>1 DEF InlineAttempt, Polling
  <2> QED
    BY <2>3, <2>4 DEF KInv, StopsAreReal, Undisturbed
<1>4. CASE ControllerTop
  <2>1. CASE UNCHANGED queues
    BY <1>4, <2>1, NothingMoves DEF ControllerTop, Polling, HeldBy
  <2>2. CASE \E t \in retry_queue : /\ retry_queue' = retry_queue \ {t}
                                    /\ task_queue' = task_queue \cup {t}
    <3>1. /\ UNCHANGED <<flags, result, failed_tasks, workers, retrier>> /\ cpc = "top" /\ cpc' # "start"
      BY <1>4 DEF ControllerTop
    <3>2. StopsAreReal'
      BY <3>1 DEF KInv, StopsAreReal, Polling
    <3>3. Undisturbed' => Undisturbed
      BY <3>1 DEF Undisturbed, Polling
    <3>4. \A t \in Task : Settled(t) => Settled(t)'
      BY <3>1 DEF Settled, Settles
    <3>5. \A t \in Task : Somewhere(t) => Somewhere(t)'
      BY <2>2, <3>1 DEF Somewhere, HeldBy, HeldByRetry, Handing
    <3> QED
      BY <3>2, <3>3, <3>4, <3>5 DEF KInv
  <2> QED
    BY <1>4, <2>1, <2>2 DEF ControllerTop
<1>5. CASE ControllerPoll
  <2>1. CASE should_stop
    <3>1. UNCHANGED <<flags, result, rstopping>> /\ cpc = "poll" /\ cpc' # "start"
      BY <1>5 DEF ControllerPoll
    <3> QED
      BY <2>1, <3>1 DEF KInv, StopsAreReal, Undisturbed, Polling
  <2>2. CASE ~should_stop
    BY <1>5, <2>2, NothingMoves DEF ControllerPoll, Polling, HeldBy
  <2> QED
    BY <2>1, <2>2
<1>6. CASE ReadPending \/ ReadUnfinished
  BY <1>6, NothingMoves DEF ReadPending, ReadUnfinished, Polling, HeldBy
<1> QED
  BY <1>1, <1>2, <1>3, <1>4, <1>5, <1>6 DEF Controller

LEMMA KeptByWorker ==
  ASSUME KInv, NEW w \in Worker, WorkerStep(w)
  PROVE  StopsAreReal' /\ (Undisturbed' => \A t \in Task : Settled(t)' \/ Somewhere(t)')
<1> USE DEF queues, chapter, flags, control, retrier
<1>t. /\ TypeOK /\ HandsFull /\ wpc \in [Worker -> WorkerPC] /\ hand \in [Worker -> Task \cup {None}]
      /\ result \in [Task -> Result]
  BY DEF KInv, IInv, TypeOK
<1>w. wpc[w] \notin {"unstarted", "exited"} => cpc # "start"
  BY DEF KInv, IInv, Phases, NoThreads
<1>c. UNCHANGED control /\ UNCHANGED retrier /\ cpc # "start"
  BY <1>w DEF WorkerStep, GetTask, EmptyQueue, BeginAttempt, EndAttempt, AttemptRaises, Judge,
              EnqueueRetry, TaskDone
<1>1. CASE GetTask(w)
  <2>1. PICK t \in task_queue : task_queue' = task_queue \ {t} /\ hand' = [hand EXCEPT ![w] = t]
    BY <1>1 DEF GetTask
  <2>2. /\ wpc[w] = "idle" /\ wpc' = [wpc EXCEPT ![w] = "got"]
        /\ UNCHANGED <<retry_queue, result, failed_tasks, flags>>
    BY <1>1 DEF GetTask
  <2>3. StopsAreReal'
    BY <1>c, <2>2 DEF KInv, StopsAreReal
  <2>4. Undisturbed' => Undisturbed
    BY <1>t, <1>c, <2>2 DEF Undisturbed
  <2>5. \A u \in Task : Settled(u) => Settled(u)'
    BY <2>2 DEF Settled, Settles
  <2>6. \A u \in Task : Somewhere(u) => Somewhere(u)'
    <3>1. HeldBy(w, t)'
      BY <1>t, <2>1, <2>2 DEF HeldBy, Working
    <3>2. \A v \in Worker, u \in Task : HeldBy(v, u) => HeldBy(v, u)'
      BY <1>t, <2>1, <2>2 DEF HeldBy, Working
    <3> QED
      BY <1>c, <2>1, <2>2, <3>1, <3>2 DEF Somewhere, HeldByRetry, Handing
  <2> QED
    BY <2>3, <2>4, <2>5, <2>6 DEF KInv
<1>2. CASE EmptyQueue(w)
  BY <1>2, <1>t, <1>c, NothingMoves DEF EmptyQueue, HeldBy, Working
<1>3. CASE BeginAttempt(w)
  <2>1. CASE run_stop
    <3>1. run_stop' /\ UNCHANGED <<flags, result>>
      BY <1>3, <2>1 DEF BeginAttempt
    <3> QED
      BY <1>c, <2>1, <3>1 DEF KInv, StopsAreReal, Undisturbed
  <2>2. CASE ~run_stop
    BY <1>3, <2>2, <1>t, <1>c, NothingMoves DEF BeginAttempt, HeldBy, Working
  <2> QED
    BY <2>1, <2>2
<1>4. CASE EndAttempt(w)
  <2>1. PICK t \in Task, r \in Outcome : t = hand[w] /\ result' = [result EXCEPT ![t] = r]
    BY <1>4, <1>t DEF EndAttempt, HandsFull, Working
  <2>2. /\ wpc[w] = "attempt" /\ wpc' = [wpc EXCEPT ![w] = "judge"]
        /\ UNCHANGED <<queues, failed_tasks, flags, hand>>
    BY <1>4 DEF EndAttempt
  <2>3. r = "CANCELLED" => should_stop
    BY DEF Outcome
  <2>5. \A u \in Task : result'[u] = IF u = t THEN r ELSE result[u]
    BY <1>t, <2>1
  <2>6. StopsAreReal'
    BY <1>c, <2>2, <2>3, <2>5 DEF KInv, StopsAreReal
  <2>7. Undisturbed' => Undisturbed
    BY <1>t, <1>c, <2>2 DEF Undisturbed
  <2>8. HeldBy(w, t)' /\ \A v \in Worker, u \in Task : HeldBy(v, u) => HeldBy(v, u)'
    BY <1>t, <2>1, <2>2 DEF HeldBy, Working
  <2>9. \A u \in Task \ {t} : Settled(u) => Settled(u)'
    BY <2>2, <2>5 DEF Settled, Settles
  <2>10. \A u \in Task : Somewhere(u) => Somewhere(u)'
    BY <1>c, <2>2, <2>8 DEF Somewhere, HeldByRetry, Handing
  <2>11. Somewhere(t)'
    BY <2>8 DEF Somewhere
  <2> QED
    BY <2>6, <2>7, <2>9, <2>10, <2>11 DEF KInv
<1>5. CASE AttemptRaises(w)
  <2>1. wpc'[w] = "raise" /\ UNCHANGED <<flags, result>>
    BY <1>5, <1>t DEF AttemptRaises
  <2> QED
    BY <1>c, <2>1 DEF KInv, StopsAreReal, Undisturbed
<1>6. CASE Judge(w)
  <2>1. wpc[w] = "judge" /\ UNCHANGED <<result, flags, hand>>
    BY <1>6 DEF Judge
  <2>2. StopsAreReal'
    BY <1>c, <2>1 DEF KInv, StopsAreReal
  <2> SUFFICES ASSUME Undisturbed' PROVE \A u \in Task : Settled(u)' \/ Somewhere(u)'
    BY <2>2
  <2>3. ~run_stop /\ ~should_stop /\ cpc \in Polling
    BY <1>c, <2>1 DEF KInv, StopsAreReal, Undisturbed
  <2>4. PICK t \in Task : t = hand[w]
    BY <1>t, <2>1 DEF HandsFull, Working
  <2>5. result[t] # "CANCELLED"
    BY <2>3, <2>4 DEF KInv, StopsAreReal
  <2>6. /\ UNCHANGED queues /\ failed_tasks \subseteq failed_tasks'
        /\ \E s \in {"done", "retry"} : wpc' = [wpc EXCEPT ![w] = s]
        /\ wpc'[w] = "done" => Settles(result[t]) \/ t \in failed_tasks'
    BY <1>6, <1>t, <2>3, <2>4, <2>5 DEF Judge
  <2>7. Undisturbed
    BY <1>t, <1>c, <2>1, <2>6 DEF Undisturbed
  <2>8. \A u \in Task : Settled(u) => Settled(u)'
    BY <2>1, <2>6 DEF Settled, Settles
  <2>9. \A v \in Worker, u \in Task : HeldBy(v, u) => HeldBy(v, u)' \/ (v = w /\ u = t)
    BY <1>t, <2>1, <2>4, <2>6 DEF HeldBy, Working
  <2>10. Settled(t)' \/ HeldBy(w, t)'
    BY <1>t, <2>1, <2>4, <2>6 DEF Settled, Settles, HeldBy, Working
  <2>11. ASSUME NEW u \in Task, Somewhere(u) PROVE Somewhere(u)' \/ Settled(u)'
    <3>1. CASE u \in task_queue \/ u \in retry_queue \/ HeldByRetry(u)
      BY <1>c, <2>6, <3>1 DEF Somewhere, HeldByRetry, Handing
    <3>2. ASSUME NEW v \in Worker, HeldBy(v, u) PROVE Somewhere(u)' \/ Settled(u)'
      BY <3>2, <2>9, <2>10 DEF Somewhere
    <3> QED
      BY <2>11, <3>1, <3>2 DEF Somewhere
  <2> QED
    BY <2>7, <2>8, <2>11 DEF KInv
<1>7. CASE EnqueueRetry(w)
  <2>1. /\ wpc[w] = "retry" /\ wpc' = [wpc EXCEPT ![w] = "done"] /\ hand' = [hand EXCEPT ![w] = None]
        /\ UNCHANGED <<task_queue, chapter, flags>>
        /\ ~run_stop => retry_queue' = retry_queue \cup {hand[w]}
    BY <1>7 DEF EnqueueRetry
  <2>2. StopsAreReal'
    BY <1>c, <2>1 DEF KInv, StopsAreReal
  <2> SUFFICES ASSUME Undisturbed' PROVE \A u \in Task : Settled(u)' \/ Somewhere(u)'
    BY <2>2
  <2>3. ~run_stop /\ Undisturbed
    BY <1>t, <1>c, <2>1 DEF KInv, StopsAreReal, Undisturbed
  <2>4. \A u \in Task : Settled(u) => Settled(u)'
    BY <2>1 DEF Settled, Settles
  <2>5. \A v \in Worker, u \in Task : HeldBy(v, u) => HeldBy(v, u)' \/ (v = w /\ u = hand[w])
    BY <1>t, <2>1 DEF HeldBy, Working
  <2>6. \A u \in Task : Somewhere(u) => Somewhere(u)'
    BY <1>c, <2>1, <2>3, <2>5 DEF Somewhere, HeldByRetry, Handing
  <2> QED
    BY <2>3, <2>4, <2>6 DEF KInv
<1>8. CASE TaskDone(w)
  <2>1. \A v \in Worker, t \in Task : HeldBy(v, t) => HeldBy(v, t)'
    BY <1>8, <1>t DEF TaskDone, HeldBy, Working
  <2>2. \A v \in Worker : wpc[v] = "raise" => wpc'[v] = "raise" \/ raised'
    BY <1>8, <1>t DEF TaskDone
  <2>3. UNCHANGED <<task_queue, retry_queue, result, failed_tasks, should_stop, run_stop>> /\ (raised => raised')
    BY <1>8 DEF TaskDone
  <2> QED
    BY <1>c, <2>1, <2>2, <2>3, NothingMoves
<1> QED
  BY <1>1, <1>2, <1>3, <1>4, <1>5, <1>6, <1>7, <1>8 DEF WorkerStep

LEMMA KeptByRetry ==
  ASSUME KInv, RetryStep
  PROVE  StopsAreReal' /\ (Undisturbed' => \A t \in Task : Settled(t)' \/ Somewhere(t)')
<1> USE DEF queues, chapter, flags, control, workers
<1>t. TypeOK /\ rstopping \in BOOLEAN
  BY DEF KInv, IInv, TypeOK
<1>c. UNCHANGED <<cpc, chapter, flags, workers>> /\ (Undisturbed' => Undisturbed)
  BY DEF RetryStep, RetryLoop, RetryGet, RetryDecide, RetryRequeue, Undisturbed
<1>r. rstopping' => run_stop \/ should_stop
  BY DEF RetryStep, RetryLoop, RetryGet, RetryDecide, RetryRequeue, KInv, StopsAreReal
<1>1. StopsAreReal'
  BY <1>c, <1>r DEF KInv, StopsAreReal
<1> SUFFICES ASSUME Undisturbed' PROVE \A u \in Task : Settled(u)' \/ Somewhere(u)'
  BY <1>1
<1>2. ~run_stop /\ ~should_stop /\ ~rstopping
  BY <1>c, <1>t DEF KInv, StopsAreReal, Undisturbed
<1>3. \A u \in Task : Settled(u) => Settled(u)'
  BY <1>c DEF Settled, Settles
<1>4. \A v \in Worker, u \in Task : HeldBy(v, u) => HeldBy(v, u)'
  BY <1>c DEF HeldBy
<1>5. \A u \in Task : Somewhere(u) => Somewhere(u)'
  <2>1. CASE RetryLoop \/ RetryDecide
    BY <2>1, <1>2, <1>4 DEF RetryLoop, RetryDecide, Somewhere, HeldByRetry, Handing
  <2>2. CASE RetryGet
    BY <2>2, <1>4 DEF RetryGet, Somewhere, HeldByRetry, Handing
  <2>3. CASE RetryRequeue
    BY <2>3, <1>2, <1>4 DEF RetryRequeue, Somewhere, HeldByRetry, Handing
  <2> QED
    BY <2>1, <2>2, <2>3 DEF RetryStep
<1> QED
  BY <1>c, <1>3, <1>5 DEF KInv

\* KInv holds in every reachable state: the strengthening of what follows.
LEMMA KeptAlways == Spec => []KInv
<1>1. Init => KInv
  <2> SUFFICES ASSUME Init PROVE KInv
    OBVIOUS
  <2>1. StopsAreReal /\ ~Undisturbed
    BY DEF Init, StopsAreReal, Undisturbed, Polling
  <2> QED
    BY <2>1, InitInv DEF KInv
<1>2. KInv /\ IInv' /\ [Next]_vars => KInv'
  <2> SUFFICES ASSUME KInv, [Next]_vars
               PROVE  StopsAreReal' /\ (Undisturbed' => \A t \in Task : Settled(t)' \/ Somewhere(t)')
    BY DEF KInv
  <2>1. CASE Controller
    BY <2>1, KeptByController
  <2>2. CASE \E w \in Worker : WorkerStep(w)
    BY <2>2, KeptByWorker
  <2>3. CASE RetryStep
    BY <2>3, KeptByRetry
  <2>4. CASE RequestStop
    <3>1. should_stop' /\ UNCHANGED <<cpc, run_stop, result, rstopping>>
      BY <2>4 DEF RequestStop, control, chapter, retrier
    <3> QED
      BY <3>1 DEF KInv, StopsAreReal, Undisturbed
  <2>5. CASE Done \/ UNCHANGED vars
    <3>1. UNCHANGED <<task_queue, retry_queue, result, failed_tasks, should_stop, run_stop, raised,
                      cpc, wpc, hand, rpc, rhand, rstopping>>
      BY <2>5 DEF Done, vars, queues, chapter, flags, control, workers, retrier
    <3> QED
      BY <3>1 DEF KInv, StopsAreReal, Undisturbed, Settled, Settles, Somewhere, HeldBy, HeldByRetry,
                  Handing
  <2> QED
    BY <2>1, <2>2, <2>3, <2>4, <2>5 DEF Next
<1> QED
  BY <1>1, <1>2, Invariance, PTL DEF Spec

\* While the run goes on undisturbed every chapter is settled, given up or in
\* the pipeline: no get, requeue, promotion or retry drops one.
THEOREM NoChapterLost == Spec => []NothingLostWhileRunning
<1>1. KInv => NothingLostWhileRunning
  <2> SUFFICES ASSUME KInv, Undisturbed, NEW t \in Task PROVE Settled(t) \/ Places(t) # {}
    BY DEF NothingLostWhileRunning, Undisturbed, Polling
  <2>1. CASE Settled(t)
    BY <2>1
  <2>2. CASE Somewhere(t)
    BY <2>2 DEF Somewhere, Places, Holders, HeldBy, HeldByRetry, Working
  <2> QED
    BY <2>1, <2>2 DEF KInv
<1> QED
  BY <1>1, KeptAlways, PTL
=============================================================================
