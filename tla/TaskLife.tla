------------------------------- MODULE TaskLife -------------------------------
(***************************************************************************)
(* What the users of Chaoxing learning tasks may rely on, whatever goes on *)
(* in ChaoxingLearningManager (services/course/chaoxing/learning_manager.py): *)
(* a task is begun once, by a user without another one and while there is  *)
(* room; it moves between the active statuses and ends once; and what it   *)
(* ended with is not taken back once its row says so.  Evictions, reloads  *)
(* and late snapshots are not to be seen.                                  *)
(*                                                                         *)
(* What may be taken back: the end of a task whose last write was lost,    *)
(* and, by a crash, what is not in the store yet.  A task that left a job  *)
(* thread behind may show anything.                                        *)
(***************************************************************************)
EXTENDS Integers, FiniteSets

CONSTANTS TaskId, User, Nobody, MaxActive

VARIABLES
    owner,      \* who began each task
    shown,      \* the status get_task tells, "none" of a task not known
    kept,       \* the end that its row tells, or "none"
    haunted,    \* tasks that left a job thread behind
    faulty      \* some write of the store has failed

vars == <<owner, shown, kept, haunted, faulty>>

Unfinished == {"running", "pending", "paused", "cancelling"}
Finished   == {"completed", "failed", "cancelled"}

Init ==
    /\ owner = [t \in TaskId |-> Nobody]
    /\ shown = [t \in TaskId |-> "none"] /\ kept = [t \in TaskId |-> "none"]
    /\ haunted = {} /\ faulty = FALSE

-----------------------------------------------------------------------------
(* What a step may do to a task it is not about *)

Same(t) == shown'[t] = shown[t] /\ kept'[t] = kept[t]

\* A task that ended is forgotten by the memory before a row of it tells how.
Lost(t) ==
    /\ faulty /\ shown[t] \in Finished /\ kept[t] = "none"
    /\ shown'[t] \in {"failed", "none"} /\ kept'[t] = "none"

Rests(t) == Same(t) \/ Lost(t) \/ t \in haunted'

OthersRest(t) == \A x \in TaskId \ {t} : Rests(x)

-----------------------------------------------------------------------------
(* Steps *)

Begin(t, u) ==
    /\ owner[t] = Nobody /\ shown[t] = "none"
    /\ ~ \E x \in TaskId : owner[x] = u /\ shown[x] \in Unfinished
    /\ Cardinality({x \in TaskId : shown[x] \in Unfinished}) < MaxActive
    /\ owner' = [owner EXCEPT ![t] = u]
    /\ shown'[t] = "pending" /\ kept'[t] = "none"
    /\ OthersRest(t) /\ UNCHANGED <<haunted, faulty>>

\* An unfinished task goes on, or ends.
Move(t) ==
    /\ shown[t] \in Unfinished /\ shown'[t] \in Unfinished \cup Finished
    /\ kept'[t] = kept[t]
    /\ OthersRest(t) /\ UNCHANGED <<owner, haunted, faulty>>

\* The row of a task that ended says so, for ever.
Keep(t) ==
    /\ shown[t] \in Finished /\ kept'[t] = shown[t] /\ shown'[t] = shown[t]
    /\ OthersRest(t) /\ faulty' \in {faulty, TRUE} /\ UNCHANGED <<owner, haunted>>

\* A job thread outlives its chapter.
Haunt(t) ==
    /\ haunted' = haunted \cup {t}
    /\ OthersRest(t) /\ UNCHANGED <<owner, faulty>>

\* Time passes; a write may fail.
Rest ==
    /\ \A t \in TaskId : Rests(t)
    /\ faulty' \in {faulty, TRUE} /\ UNCHANGED <<owner, haunted>>

\* The service comes up again with what the store has: unfinished tasks have
\* failed, and so have those whose end was not kept, unless no row tells of them.
Crash ==
    /\ \A t \in TaskId :
          \/ Same(t) /\ shown[t] \notin Unfinished
          \/ kept[t] = "none" /\ shown[t] # "none" /\ shown'[t] = "none" /\ kept'[t] = "none"
          \/ kept[t] = "none" /\ shown[t] # "none" /\ shown'[t] = "failed" /\ kept'[t] \in {"none", "failed"}
          \/ t \in haunted'
    /\ faulty' \in {faulty, TRUE} /\ UNCHANGED <<owner, haunted>>

Next ==
    \/ \E t \in TaskId, u \in User : Begin(t, u)
    \/ \E t \in TaskId : Move(t) \/ Keep(t) \/ Haunt(t)
    \/ Rest
    \/ Crash

Spec == Init /\ [][Next]_vars
=============================================================================
