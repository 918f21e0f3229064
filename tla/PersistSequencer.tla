-------------------------- MODULE PersistSequencer --------------------------
(***************************************************************************)
(* The threads that persist one task's record: _TaskPersistSequencer,      *)
(* _prepare_persist_locked and _persist_task_state in                      *)
(* services/course/chaoxing/learning_manager.py.                           *)
(*                                                                         *)
(* A thread mutates the record and reserves a revision while it holds the  *)
(* manager's lock, releases the lock, waits on the sequencer's condition   *)
(* until it is its turn, writes its snapshot without any lock, and then    *)
(* publishes its revision and wakes the others.                            *)
(***************************************************************************)
EXTENDS Integers, Sequences, FiniteSets

CONSTANTS
    Thread,         \* threads that mutate the record
    MaxMutations    \* bound: mutations of the record

ASSUME BoundAssumption == MaxMutations \in Nat

VARIABLES
    version,        \* mutations of the record so far
    store,          \* the snapshot in the task's row
    last_reserved,  \* _last_reserved_revision
    last_finished,  \* _last_finished_revision
    pc,             \* where each thread is
    snapshot,       \* the snapshot each thread carries
    revision        \* the revision it has reserved

vars == <<version, store, last_reserved, last_finished, pc, snapshot, revision>>

Init ==
    /\ version = 0 /\ store = 0
    /\ last_reserved = 0 /\ last_finished = 0
    /\ pc = [t \in Thread |-> "idle"]
    /\ snapshot = [t \in Thread |-> 0]
    /\ revision = [t \in Thread |-> 0]

\* Wrong on purpose: the snapshot is taken before the mutation of the record.
SnapshotFirst(t) ==
    /\ pc[t] = "idle" /\ version < MaxMutations
    /\ version' = version + 1
    /\ snapshot' = [snapshot EXCEPT ![t] = version]
    /\ last_reserved' = last_reserved + 1
    /\ revision' = [revision EXCEPT ![t] = last_reserved']
    /\ pc' = [pc EXCEPT ![t] = "wait"]
    /\ UNCHANGED <<store, last_finished>>

\* Under the manager's lock: mutate the record, take the snapshot, reserve.
Mutate(t) ==
    /\ pc[t] = "idle" /\ version < MaxMutations
    /\ version' = version + 1
    /\ snapshot' = [snapshot EXCEPT ![t] = version']
    /\ last_reserved' = last_reserved + 1
    /\ revision' = [revision EXCEPT ![t] = last_reserved']
    /\ pc' = [pc EXCEPT ![t] = "wait"]
    /\ UNCHANGED <<store, last_finished>>

\* The predicate of wait_for.
Turn(t) == revision[t] = last_finished + 1

\* wait_for evaluates its predicate under the condition: go on, or sleep until
\* notified.
WaitFor(t) ==
    /\ pc[t] = "wait"
    /\ pc' = [pc EXCEPT ![t] = IF Turn(t) THEN "write" ELSE "asleep"]
    /\ UNCHANGED <<version, store, last_reserved, last_finished, snapshot, revision>>

\* writer(): upsert_task; it swallows its failures, after which the row may or
\* may not have been written.
Write(t) ==
    /\ pc[t] = "write"
    /\ store' \in {store, snapshot[t]}
    /\ pc' = [pc EXCEPT ![t] = "finish"]
    /\ UNCHANGED <<version, last_reserved, last_finished, snapshot, revision>>

\* Wrong on purpose: notify() wakes one sleeper, any one.
FinishNotifyOne(t) ==
    /\ pc[t] = "finish"
    /\ last_finished' = revision[t]
    /\ LET sleepers == {u \in Thread : pc[u] = "asleep"}
       IN  \/ /\ sleepers = {}
              /\ pc' = [pc EXCEPT ![t] = "idle"]
           \/ \E u \in sleepers : pc' = [pc EXCEPT ![t] = "idle", ![u] = "wait"]
    /\ UNCHANGED <<version, store, last_reserved, snapshot, revision>>

\* The finally clause: publish the revision, notify_all().
Finish(t) ==
    /\ pc[t] = "finish"
    /\ last_finished' = revision[t]
    /\ pc' = [u \in Thread |-> IF u = t THEN "idle"
                               ELSE IF pc[u] = "asleep" THEN "wait" ELSE pc[u]]
    /\ UNCHANGED <<version, store, last_reserved, snapshot, revision>>

Next == \E t \in Thread : Mutate(t) \/ WaitFor(t) \/ Write(t) \/ Finish(t)

Spec == Init /\ [][Next]_vars

\* A thread with a snapshot to persist keeps running; none has to mutate.
FairSpec ==
    /\ Spec
    /\ \A t \in Thread : WF_vars(WaitFor(t) \/ Write(t) \/ Finish(t))

-----------------------------------------------------------------------------
(* Properties *)

InFlight(t) == pc[t] # "idle"

TypeOK ==
    /\ version \in Nat /\ store \in Nat
    /\ last_reserved \in Nat /\ last_finished \in Nat
    /\ pc \in [Thread -> {"idle", "wait", "asleep", "write", "finish"}]
    /\ snapshot \in [Thread -> Nat]
    /\ revision \in [Thread -> Nat]

\* Two threads are never inside the writer of the same task at once.
OneWriter ==
    \A t, u \in Thread : {pc[t], pc[u]} \subseteq {"write", "finish"} => t = u

\* Every revision reserved and not yet finished belongs to exactly one thread,
\* which will finish it: no later revision waits for one that nobody holds.
EveryRevisionHeld ==
    \A r \in last_finished + 1 .. last_reserved :
        \E t \in Thread : InFlight(t) /\ revision[t] = r

\* The row never goes back to an older snapshot, whatever order the threads
\* that release the manager's lock are scheduled in.
NeverOlder == [][store' >= store]_store

\* Every snapshot is written or skipped in the end: no wake-up is lost and a
\* failed write does not hold up the later ones.
EverySnapshotTried == \A t \in Thread : InFlight(t) ~> ~InFlight(t)

\* The sequencer keeps the promise of OrderedStore.  The snapshots on their
\* way are those of the revisions not yet finished, without the one that a
\* thread has written but not published.
Tried == last_finished + (IF \E t \in Thread : pc[t] = "finish" THEN 1 ELSE 0)

Promise == INSTANCE OrderedStore
    WITH queue <- [i \in 1 .. last_reserved - Tried |-> Tried + i]

KeepsPromise == Promise!Spec
=============================================================================
