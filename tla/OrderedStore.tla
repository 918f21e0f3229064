---------------------------- MODULE OrderedStore ----------------------------
(***************************************************************************)
(* What the persistence of one task's record promises (class               *)
(* _TaskPersistSequencer in services/course/chaoxing/learning_manager.py): *)
(* the snapshots of the record reach the store one at a time and in the    *)
(* order of the mutations they show; a write that fails is skipped.        *)
(*                                                                         *)
(* A record is identified by the number of mutations it has seen.          *)
(***************************************************************************)
EXTENDS Integers, Sequences

VARIABLES
    version,    \* mutations of the record so far
    queue,      \* snapshots that have not been written or skipped yet
    store       \* the snapshot in the task's row

vars == <<version, queue, store>>

Init == version = 0 /\ queue = <<>> /\ store = 0

\* A mutation of the record, and the snapshot of it.
Mutate ==
    /\ version' = version + 1
    /\ queue' = Append(queue, version + 1)
    /\ UNCHANGED store

\* The oldest snapshot is written ...
Write ==
    /\ queue # <<>>
    /\ store' = Head(queue)
    /\ queue' = Tail(queue)
    /\ UNCHANGED version

\* ... or its write fails.
Skip ==
    /\ queue # <<>>
    /\ queue' = Tail(queue)
    /\ UNCHANGED <<version, store>>

Next == Mutate \/ Write \/ Skip

Spec == Init /\ [][Next]_vars
=============================================================================
