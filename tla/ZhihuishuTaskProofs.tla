-------------------------- MODULE ZhihuishuTaskProofs --------------------------
(***************************************************************************)
(* What the study tasks of a ZhihuishuAdapter guarantee for any tasks,     *)
(* requests and numbers of videos.                                         *)
(***************************************************************************)
EXTENDS ZhihuishuTask, TLAPS

\* The thread is at a video of the list.
AtVideo(t) == loop[t] \in {"poll", "play", "watched", "record"}

\* A task not yet created has no thread and nothing counted.
Fresh(t) ==
    status[t] = "absent" =>
        /\ loop[t] = "none"
        /\ index[t] = 0 /\ completed[t] = 0 /\ failed[t] = 0

\* Every video before the current one is counted once, as completed or failed.
Counted(t) ==
    /\ completed[t] + failed[t] = index[t]
    /\ index[t] <= total[t]
    /\ AtVideo(t) => index[t] < total[t]

\* A thread that still studies is shown as active or was cancelled: what lets
\* the second check of start_course, which looks at the status of the current
\* task, stand for a look at its thread.
ShownOrCancelled(t) == Alive(t) => status[t] \in Active \/ cancelled[t]

\* A task that says "completed" has ended with every video of it counted.
Honest(t) ==
    status[t] = "completed" => ~Alive(t) /\ completed[t] = total[t] /\ failed[t] = 0

Sound(t) == Fresh(t) /\ Counted(t) /\ ShownOrCancelled(t) /\ Honest(t)

\* The inductive invariant.
ZInv ==
    /\ TypeOK
    /\ current # None => status[current] # "absent"
    /\ \A t \in TaskId : Sound(t)
    /\ OthersCancelled

-----------------------------------------------------------------------------
LEMMA InitInv == Init => ZInv
<1> SUFFICES ASSUME Init PROVE ZInv
  OBVIOUS
<1>0. 0 \in 0 .. MaxVideos
  BY VideoAssumption
<1>1. TypeOK
  <2>1. /\ {paused, cancelled, watch_ok} \subseteq [TaskId -> BOOLEAN]
        /\ {total, completed, failed, index} \subseteq [TaskId -> 0 .. MaxVideos]
    BY <1>0 DEF Init
  <2>2. /\ status \in [TaskId -> Active \cup {"absent", "completed", "error", "cancelled"}]
        /\ loop \in [TaskId -> {"none", "spawn", "top", "poll", "play", "watched", "record", "ended"}]
        /\ rpc \in [Request -> {"idle", "load", "create"}]
    BY DEF Init
  <2> QED
    BY <2>1, <2>2 DEF Init, TypeOK
<1>2. ASSUME NEW t \in TaskId PROVE Sound(t)
  <2>1. /\ status[t] = "absent" /\ loop[t] = "none" /\ total[t] = 0
        /\ index[t] = 0 /\ completed[t] = 0 /\ failed[t] = 0
    BY DEF Init
  <2> QED
    BY <2>1 DEF Sound, Fresh, Counted, ShownOrCancelled, Honest, Alive, AtVideo
<1>3. OthersCancelled
  BY DEF Init, OthersCancelled, Alive
<1> QED
  BY <1>1, <1>2, <1>3 DEF ZInv, Init

\* The facts every step starts from.
LEMMA Typed ==
  ASSUME TypeOK
  PROVE  /\ status \in [TaskId -> {"running", "paused", "absent", "completed", "error", "cancelled"}]
         /\ paused \in [TaskId -> BOOLEAN] /\ cancelled \in [TaskId -> BOOLEAN]
         /\ watch_ok \in [TaskId -> BOOLEAN]
         /\ total \in [TaskId -> 0 .. MaxVideos] /\ completed \in [TaskId -> 0 .. MaxVideos]
         /\ failed \in [TaskId -> 0 .. MaxVideos] /\ index \in [TaskId -> 0 .. MaxVideos]
         /\ loop \in [TaskId -> {"none", "spawn", "top", "poll", "play", "watched", "record", "ended"}]
         /\ rpc \in [Request -> {"idle", "load", "create"}]
         /\ current \in TaskId \cup {None}
  BY DEF TypeOK, Active

\* Nothing but requests and the login changes.
LEMMA TasksRest ==
  ASSUME ZInv, UNCHANGED <<current, task, thread>>, TypeOK'
  PROVE  ZInv'
BY DEF ZInv, task, thread, Sound, Fresh, Counted, ShownOrCancelled, Honest, Alive, AtVideo,
       OthersCancelled

LEMMA StartKeeps ==
  ASSUME ZInv, NEW r \in Request, StartStep(r)
  PROVE  ZInv'
<1>t. TypeOK
  BY DEF ZInv
<1>1. CASE Check(r) \/ Load(r) \/ Conflict(r)
  <2>1. UNCHANGED <<current, task, thread, logged_in>>
    BY <1>1 DEF Check, Load, Conflict
  <2>2. rpc' \in [Request -> {"idle", "load", "create"}]
    BY <1>1, <1>t, Typed DEF Check, Load, Conflict, Respond
  <2>3. TypeOK'
    BY <1>t, <2>1, <2>2 DEF TypeOK, task, thread
  <2> QED
    BY <2>1, <2>3, TasksRest
<1>2. CASE Create(r)
  <2>1. PICK t \in TaskId, n \in 0 .. MaxVideos :
          /\ status[t] = "absent"
          /\ status' = [status EXCEPT ![t] = IF n = 0 THEN "completed" ELSE "running"]
          /\ total' = [total EXCEPT ![t] = n]
          /\ current' = t
          /\ loop' = [loop EXCEPT ![t] = IF n = 0 THEN "ended" ELSE "spawn"]
    BY <1>2 DEF Create
  <2>2. /\ ~Busy /\ rpc' = [rpc EXCEPT ![r] = "idle"]
        /\ UNCHANGED <<paused, cancelled, completed, failed, index, watch_ok, logged_in>>
    BY <1>2 DEF Create, Respond
  <2>3. TypeOK'
    <3>1. /\ status' \in [TaskId -> Active \cup {"absent", "completed", "error", "cancelled"}]
          /\ total' \in [TaskId -> 0 .. MaxVideos]
          /\ loop' \in [TaskId -> {"none", "spawn", "top", "poll", "play", "watched", "record", "ended"}]
          /\ rpc' \in [Request -> {"idle", "load", "create"}]
      BY <1>t, <2>1, <2>2, Typed DEF Active
    <3> QED
      BY <1>t, <2>1, <2>2, <3>1 DEF TypeOK
  <2>4. \A x \in TaskId : Sound(x)'
    <3> SUFFICES ASSUME NEW x \in TaskId PROVE Sound(x)'
      OBVIOUS
    <3>1. Sound(x)
      BY DEF ZInv
    <3>2. CASE x # t
      BY <1>t, <2>1, <2>2, <3>1, <3>2, Typed
         DEF Sound, Fresh, Counted, ShownOrCancelled, Honest, Alive, AtVideo
    <3>3. CASE x = t
      BY <1>t, <2>1, <2>2, <3>1, <3>3, Typed
         DEF Sound, Fresh, Counted, ShownOrCancelled, Honest, Alive, AtVideo, Active
    <3> QED
      BY <3>2, <3>3
  <2>5. OthersCancelled'
    <3> SUFFICES ASSUME NEW x \in TaskId, Alive(x)', x # t PROVE cancelled'[x]
      BY <2>1 DEF OthersCancelled
    <3>1. Alive(x)
      BY <1>t, <2>1, Typed DEF Alive
    <3>2. CASE x = current
      <4>1. status[x] \notin Active
        BY <2>2, <3>2, NoneAssumption DEF Busy
      <4> QED
        BY <2>2, <3>1, <4>1 DEF ZInv, Sound, ShownOrCancelled
    <3>3. CASE x # current
      BY <2>2, <3>1, <3>3 DEF ZInv, OthersCancelled
    <3> QED
      BY <3>2, <3>3
  <2>6. current' # None => status'[current'] # "absent"
    BY <1>t, <2>1, Typed
  <2> QED
    BY <2>3, <2>4, <2>5, <2>6 DEF ZInv
<1> QED
  BY <1>1, <1>2 DEF StartStep

\* Task t changes its status to s and maybe its two flags: what requests do.
LEMMA RequestKeeps ==
  ASSUME ZInv, NEW t \in TaskId, status[t] # "absent",
         NEW s \in {"running", "paused", "cancelled"}, SetStatus(t, s),
         s = "cancelled" => cancelled' = [cancelled EXCEPT ![t] = TRUE],
         s # "cancelled" => UNCHANGED cancelled,
         NEW b \in BOOLEAN, paused' = [paused EXCEPT ![t] = b],
         UNCHANGED <<current, total, completed, failed, thread, rpc>>, logged_in' \in BOOLEAN
  PROVE  ZInv'
<1>t. TypeOK
  BY DEF ZInv
<1>1. /\ status' \in [TaskId -> Active \cup {"absent", "completed", "error", "cancelled"}]
      /\ cancelled' \in [TaskId -> BOOLEAN] /\ paused' \in [TaskId -> BOOLEAN]
  BY <1>t, Typed DEF SetStatus, Active
<1>2. TypeOK'
  BY <1>t, <1>1 DEF TypeOK, thread
<1>3. \A x \in TaskId : /\ cancelled[x] => cancelled'[x]
                        /\ status'[x] = IF x = t THEN s ELSE status[x]
                        /\ x = t /\ s = "cancelled" => cancelled'[x]
  BY <1>t, Typed DEF SetStatus
<1>4. \A x \in TaskId : Sound(x)'
  BY <1>3 DEF ZInv, thread, Sound, Fresh, Counted, ShownOrCancelled, Honest, Alive, AtVideo, Active
<1>5. OthersCancelled'
  BY <1>3 DEF ZInv, OthersCancelled, Alive, thread
<1>6. current' # None => status'[current'] # "absent"
  BY <1>3, <1>t, Typed DEF ZInv
<1> QED
  BY <1>2, <1>4, <1>5, <1>6 DEF ZInv

LEMMA RequestsKeep ==
  ASSUME ZInv, Pause \/ Resume \/ Logout \/ \E t \in TaskId : Cancel(t)
  PROVE  ZInv'
<1>t. TypeOK /\ current \in TaskId \cup {None} /\ logged_in \in BOOLEAN
  BY DEF ZInv, TypeOK
<1>1. CASE Pause \/ Resume
  <2>1. current \in TaskId /\ status[current] # "absent"
    BY <1>1, <1>t DEF Pause, Resume, ZInv
  <2>2. PICK t \in TaskId : t = current
    BY <2>1
  <2>3. \E s \in {"running", "paused"}, b \in BOOLEAN :
           SetStatus(t, s) /\ paused' = [paused EXCEPT ![t] = b]
    BY <1>1, <2>2 DEF Pause, Resume
  <2>4. UNCHANGED <<current, cancelled, total, completed, failed, thread, logged_in, rpc>>
    BY <1>1 DEF Pause, Resume
  <2> QED
    BY <1>t, <2>1, <2>2, <2>3, <2>4, RequestKeeps
<1>2. ASSUME NEW t \in TaskId, Cancel(t) PROVE ZInv'
  BY <1>2, <1>t, RequestKeeps DEF Cancel, Cancelled
<1>3. CASE Logout
  <2>1. CASE current = None
    <3>1. UNCHANGED <<current, task, thread, rpc>> /\ logged_in' \in BOOLEAN
      BY <1>3, <2>1 DEF Logout, task
    <3>2. TypeOK'
      BY <1>t, <3>1 DEF TypeOK, task, thread
    <3> QED
      BY <3>1, <3>2, TasksRest
  <2>2. CASE current # None
    <3>1. PICK t \in TaskId : t = current
      BY <1>t, <2>2
    <3>2. status[t] # "absent" /\ Cancelled(t)
      BY <1>3, <2>2, <3>1 DEF Logout, ZInv
    <3>3. UNCHANGED <<current, total, completed, failed, thread, rpc>> /\ logged_in' \in BOOLEAN
      BY <1>3 DEF Logout
    <3> QED
      BY <3>2, <3>3, RequestKeeps DEF Cancelled
  <2> QED
    BY <2>1, <2>2
<1> QED
  BY <1>1, <1>2, <1>3

-----------------------------------------------------------------------------
(* The threads *)

\* Task t's thread goes to pc with status s; its counters stay.
LEMMA ThreadKeeps ==
  ASSUME ZInv, NEW t \in TaskId,
         NEW pc \in {"top", "poll", "play", "watched", "record", "ended"}, Go(t, pc),
         NEW s \in {"running", "paused", "completed", "error", "cancelled"},
         UNCHANGED status \/ SetStatus(t, s),
         Alive(t),
         pc \in {"poll", "play", "watched", "record"} => index[t] < total[t],
         pc = "ended" \/ UNCHANGED status \/ s \in Active,
         SetStatus(t, s) /\ s = "completed" => completed[t] = total[t] /\ failed[t] = 0 /\ pc = "ended",
         watch_ok' \in [TaskId -> BOOLEAN],
         UNCHANGED <<current, paused, cancelled, total, completed, failed, index, logged_in, rpc>>
  PROVE  ZInv'
<1>t. TypeOK
  BY DEF ZInv
<1>1. /\ status' \in [TaskId -> Active \cup {"absent", "completed", "error", "cancelled"}]
      /\ loop' \in [TaskId -> {"none", "spawn", "top", "poll", "play", "watched", "record", "ended"}]
  BY <1>t, Typed DEF SetStatus, Go, Active
<1>2. TypeOK'
  BY <1>t, <1>1 DEF TypeOK
<1>3. \A x \in TaskId : loop'[x] = IF x = t THEN pc ELSE loop[x]
  BY <1>t, Typed DEF Go
<1>4. \A x \in TaskId : x # t => status'[x] = status[x]
  BY <1>t, Typed DEF SetStatus
<1>5. UNCHANGED status \/ status'[t] = s
  BY <1>t, Typed DEF SetStatus
<1>6. status[t] # "absent" /\ status[t] # "completed"
  BY DEF ZInv, Sound, Fresh, Honest, Alive
<1>7. \A x \in TaskId : Sound(x)'
  <2> SUFFICES ASSUME NEW x \in TaskId PROVE Sound(x)'
    OBVIOUS
  <2>1. Sound(x)
    BY DEF ZInv
  <2>2. CASE x # t
    BY <2>1, <2>2, <1>3, <1>4
       DEF Sound, Fresh, Counted, ShownOrCancelled, Honest, Alive, AtVideo, Active
  <2>3. CASE x = t
    <3>1. Fresh(x)' /\ Counted(x)'
      BY <2>1, <2>3, <1>3, <1>5, <1>6 DEF Sound, Fresh, Counted, AtVideo
    <3>2. ShownOrCancelled(x)'
      BY <2>1, <2>3, <1>3, <1>5 DEF Sound, ShownOrCancelled, Alive, Active
    <3>3. Honest(x)'
      <4>1. CASE UNCHANGED status
        BY <2>3, <1>6, <4>1 DEF Honest
      <4>2. CASE ~UNCHANGED status
        BY <2>3, <1>3, <1>5, <4>2 DEF Honest, Alive
      <4> QED
        BY <4>1, <4>2
    <3> QED
      BY <3>1, <3>2, <3>3 DEF Sound
  <2> QED
    BY <2>2, <2>3
<1>8. OthersCancelled'
  BY <1>3 DEF ZInv, OthersCancelled, Alive
<1>9. current' # None => status'[current'] # "absent"
  BY <1>t, <1>4, <1>5, Typed DEF ZInv
<1> QED
  BY <1>2, <1>7, <1>8, <1>9 DEF ZInv

LEMMA LeaveKeeps ==
  ASSUME ZInv, NEW t \in TaskId, Alive(t), Leave(t),
         UNCHANGED <<current, paused, cancelled, total, completed, failed, index, watch_ok,
                     logged_in, rpc>>
  PROVE  ZInv'
<1>1. Go(t, "ended") /\ (UNCHANGED status \/ SetStatus(t, "cancelled"))
  BY DEF Leave
<1>2. watch_ok' \in [TaskId -> BOOLEAN]
  BY DEF ZInv, TypeOK
<1>3. SetStatus(t, "cancelled") => "cancelled" # "completed"
  OBVIOUS
<1> QED
  BY <1>1, <1>2, ThreadKeeps

LEMMA RecordKeeps ==
  ASSUME ZInv, NEW t \in TaskId, loop[t] = "record", Count(t), Go(t, "top"),
         UNCHANGED <<current, status, paused, cancelled, total, watch_ok, logged_in, rpc>>
  PROVE  ZInv'
<1>t. TypeOK /\ Sound(t)
  BY DEF ZInv
<1>n. /\ index[t] \in Nat /\ total[t] \in 0 .. MaxVideos /\ completed[t] \in Nat /\ failed[t] \in Nat
      /\ index[t] < total[t] /\ completed[t] + failed[t] = index[t] /\ MaxVideos \in Nat
  BY <1>t, Typed, VideoAssumption DEF Sound, Counted, AtVideo
<1>1. /\ index' = [index EXCEPT ![t] = index[t] + 1]
      /\ \/ /\ completed' = [completed EXCEPT ![t] = completed[t] + 1]
            /\ failed' = [failed EXCEPT ![t] = failed[t]]
         \/ /\ completed' = [completed EXCEPT ![t] = completed[t]]
            /\ failed' = [failed EXCEPT ![t] = failed[t] + 1]
  BY DEF Count
<1>2. index[t] + 1 \in 0 .. MaxVideos /\ completed[t] + 1 \in 0 .. MaxVideos
      /\ failed[t] + 1 \in 0 .. MaxVideos
  BY <1>n
<1>3. /\ index' \in [TaskId -> 0 .. MaxVideos] /\ completed' \in [TaskId -> 0 .. MaxVideos]
      /\ failed' \in [TaskId -> 0 .. MaxVideos]
      /\ loop' \in [TaskId -> {"none", "spawn", "top", "poll", "play", "watched", "record", "ended"}]
  BY <1>t, <1>1, <1>2, Typed DEF Go
<1>4. TypeOK'
  BY <1>t, <1>3 DEF TypeOK
<1>5. \A x \in TaskId : /\ x # t => /\ index'[x] = index[x] /\ completed'[x] = completed[x]
                                    /\ failed'[x] = failed[x] /\ loop'[x] = loop[x]
  BY <1>t, <1>1, Typed DEF Go
<1>6. /\ loop'[t] = "top" /\ index'[t] = index[t] + 1
      /\ completed'[t] + failed'[t] = index[t] + 1
  BY <1>t, <1>n, <1>1, Typed DEF Go
<1>7. status[t] # "absent" /\ status[t] # "completed" /\ Alive(t)
  BY <1>t DEF Sound, Fresh, Honest, Alive
<1>8. \A x \in TaskId : Sound(x)'
  <2> SUFFICES ASSUME NEW x \in TaskId PROVE Sound(x)'
    OBVIOUS
  <2>1. Sound(x)
    BY DEF ZInv
  <2>2. CASE x # t
    BY <2>1, <2>2, <1>5 DEF Sound, Fresh, Counted, ShownOrCancelled, Honest, Alive, AtVideo
  <2>3. CASE x = t
    <3>1. Counted(t)'
      BY <1>n, <1>6 DEF Counted, AtVideo
    <3>2. Fresh(t)' /\ ShownOrCancelled(t)' /\ Honest(t)'
      BY <1>t, <1>7 DEF Sound, Fresh, ShownOrCancelled, Honest
    <3> QED
      BY <2>3, <3>1, <3>2 DEF Sound
  <2> QED
    BY <2>2, <2>3
<1>9. OthersCancelled'
  BY <1>5, <1>7 DEF ZInv, OthersCancelled, Alive
<1> QED
  BY <1>4, <1>8, <1>9 DEF ZInv

LEMMA LoopKeeps ==
  ASSUME ZInv, NEW t \in TaskId, LoopStep(t) \/ Playing(t)
  PROVE  ZInv'
<1>t. TypeOK /\ Sound(t) /\ watch_ok \in [TaskId -> BOOLEAN]
  BY DEF ZInv, TypeOK
<1>n. /\ index[t] \in Nat /\ total[t] \in Nat /\ completed[t] \in Nat /\ failed[t] \in Nat
      /\ completed[t] + failed[t] = index[t] /\ index[t] <= total[t]
      /\ AtVideo(t) => index[t] < total[t]
  BY <1>t, Typed, VideoAssumption DEF Sound, Counted
<1>1. CASE Spawn(t)
  <2>1. /\ Alive(t)
        /\ \/ Go(t, "top") /\ UNCHANGED status
           \/ Go(t, "ended") /\ SetStatus(t, "error")
        /\ UNCHANGED <<current, paused, cancelled, total, completed, failed, index, watch_ok,
                       logged_in, rpc>>
    BY <1>1 DEF Spawn, Go, SetStatus, Alive
  <2>2. CASE Go(t, "top") /\ UNCHANGED status
    BY <1>t, <2>1, <2>2, ThreadKeeps DEF SetStatus
  <2>3. CASE Go(t, "ended") /\ SetStatus(t, "error")
    BY <1>t, <2>1, <2>3, ThreadKeeps
  <2> QED
    BY <2>1, <2>2, <2>3
<1>2. CASE Top(t)
  <2>1. /\ Alive(t)
        /\ UNCHANGED <<current, paused, cancelled, total, completed, failed, index, watch_ok,
                       logged_in, rpc>>
    BY <1>2 DEF Top, Alive
  <2>2. CASE MustLeave(t)
    BY <1>2, <2>1, <2>2, LeaveKeeps DEF Top
  <2>3. CASE ~MustLeave(t) /\ index[t] >= total[t]
    <3>1. Go(t, "ended") /\ SetStatus(t, IF failed[t] > 0 THEN "error" ELSE "completed")
      BY <1>2, <2>3 DEF Top
    <3>2. ~(failed[t] > 0) => completed[t] = total[t] /\ failed[t] = 0
      BY <1>n, <2>3
    <3>3. CASE failed[t] > 0
      BY <1>t, <2>1, <3>1, <3>3, ThreadKeeps
    <3>4. CASE ~(failed[t] > 0)
      BY <1>t, <2>1, <3>1, <3>2, <3>4, ThreadKeeps
    <3> QED
      BY <3>3, <3>4
  <2>4. CASE ~MustLeave(t) /\ ~(index[t] >= total[t])
    <3>1. index[t] < total[t]
      BY <1>n, <2>4
    <3>2. \/ Go(t, "top") /\ SetStatus(t, "paused")
          \/ Go(t, "poll") /\ SetStatus(t, "running")
      BY <1>2, <2>4 DEF Top
    <3>3. {"paused", "running"} \subseteq Active
      BY DEF Active
    <3>4. CASE Go(t, "top") /\ SetStatus(t, "paused")
      BY <1>t, <2>1, <3>3, <3>4, ThreadKeeps
    <3>5. CASE Go(t, "poll") /\ SetStatus(t, "running")
      BY <1>t, <2>1, <3>1, <3>3, <3>5, ThreadKeeps
    <3> QED
      BY <3>2, <3>4, <3>5
  <2> QED
    BY <2>2, <2>3, <2>4
<1>3. CASE Poll(t) \/ Playing(t)
  <2>1. /\ Alive(t) /\ AtVideo(t) /\ UNCHANGED status
        /\ \E pc \in {"poll", "play", "watched"} : Go(t, pc)
        /\ watch_ok' = watch_ok \/ \E ok \in BOOLEAN : watch_ok' = [watch_ok EXCEPT ![t] = ok]
        /\ UNCHANGED <<current, paused, cancelled, total, completed, failed, index, logged_in, rpc>>
    BY <1>3 DEF Poll, Playing, PlayOn, VideoEnds, NotPlayed, Return, Alive, AtVideo, task
  <2>2. watch_ok' \in [TaskId -> BOOLEAN]
    BY <1>t, <2>1
  <2>3. index[t] < total[t]
    BY <1>n, <2>1
  <2> QED
    BY <2>1, <2>2, <2>3, ThreadKeeps
<1>4. CASE AfterWatch(t)
  <2>1. /\ Alive(t) /\ AtVideo(t)
        /\ UNCHANGED <<current, paused, cancelled, total, completed, failed, index, watch_ok,
                       logged_in, rpc>>
    BY <1>4 DEF AfterWatch, Alive, AtVideo
  <2>2. CASE Leave(t)
    BY <2>1, <2>2, LeaveKeeps
  <2>3. CASE Go(t, "record") /\ UNCHANGED status
    BY <1>t, <1>n, <2>1, <2>3, ThreadKeeps
  <2> QED
    BY <1>4, <2>2, <2>3 DEF AfterWatch
<1>5. CASE Record(t)
  <2>1. CASE MustLeave(t)
    BY <1>5, <2>1, LeaveKeeps DEF Record, Alive
  <2>2. CASE ~MustLeave(t)
    BY <1>5, <2>2, RecordKeeps DEF Record
  <2> QED
    BY <2>1, <2>2
<1> QED
  BY <1>1, <1>2, <1>3, <1>4, <1>5 DEF LoopStep

-----------------------------------------------------------------------------
(* The theorems *)

\* The inductive invariant holds in every reachable state.
THEOREM Invariance == Spec => []ZInv
<1>1. ZInv /\ [Next]_vars => ZInv'
  <2> SUFFICES ASSUME ZInv, [Next]_vars PROVE ZInv'
    OBVIOUS
  <2>1. CASE UNCHANGED vars
    <3>1. TypeOK'
      BY <2>1 DEF vars, task, thread, ZInv, TypeOK
    <3> QED
      BY <2>1, <3>1, TasksRest DEF vars
  <2> QED
    BY <2>1, StartKeeps, LoopKeeps, RequestsKeep DEF Next
<1> QED
  BY <1>1, InitInv, PTL DEF Spec

\* The variables keep their types: what is counted never exceeds the videos.
THEOREM TypeCorrect == Spec => []TypeOK
<1>1. ZInv => TypeOK
  BY DEF ZInv
<1> QED
  BY <1>1, Invariance, PTL

\* All threads that study on this login but the current task's were cancelled
\* (start_course, cancel_task, logout and _run_task_loop in any order).
THEOREM OneStudies == Spec => []OthersCancelled
<1>1. ZInv => OthersCancelled
  BY DEF ZInv
<1> QED
  BY <1>1, Invariance, PTL

\* A task that says "completed" has every video of it played to the end
\* (_run_task_loop, phases 1 and 3, and the empty list of start_course).
THEOREM CompletedIsTrue == Spec => []HonestCompletion
<1>1. ZInv => HonestCompletion
  BY DEF ZInv, Sound, Honest, HonestCompletion
<1> QED
  BY <1>1, Invariance, PTL

\* Nothing is counted for a cancelled task any more: the check of phase 3 is
\* made under the lock that cancel_task takes.
THEOREM CancelStopsCounting == Spec => NothingAfterCancel
<1> DEFINE Still == \A t \in TaskId : cancelled[t] => UNCHANGED <<completed[t], failed[t]>>
<1>1. TypeOK /\ [Next]_vars => [Still]_vars
  <2> SUFFICES ASSUME TypeOK, Next, NEW t \in TaskId, cancelled[t]
               PROVE  UNCHANGED <<completed[t], failed[t]>>
    BY DEF Still
  <2>1. CASE \E x \in TaskId : Record(x)
    <3>1. PICK x \in TaskId : Record(x)
      BY <2>1
    <3>2. CASE MustLeave(x)
      BY <3>1, <3>2 DEF Record
    <3>3. CASE ~MustLeave(x)
      <4>1. x # t
        BY <3>3 DEF MustLeave
      <4> QED
        BY <3>1, <3>3, <4>1, Typed DEF Record, Count
    <3> QED
      BY <3>2, <3>3
  <2>2. CASE \E r \in Request : StartStep(r)
    BY <2>2 DEF StartStep, Check, Load, Conflict, Create, task
  <2>3. CASE Pause \/ Resume \/ Logout \/ \E x \in TaskId : Cancel(x)
    BY <2>3 DEF Pause, Resume, Logout, Cancel
  <2>4. CASE \E x \in TaskId : Spawn(x) \/ Top(x) \/ Poll(x) \/ AfterWatch(x) \/ Playing(x)
    BY <2>4 DEF Spawn, Top, Poll, AfterWatch, Playing, PlayOn, VideoEnds, NotPlayed, task
  <2> QED
    BY <2>1, <2>2, <2>3, <2>4 DEF Next, LoopStep
<1> QED
  BY <1>1, TypeCorrect, PTL DEF Spec, NothingAfterCancel
=============================================================================
