------------------------------ MODULE TaskRows ------------------------------
(***************************************************************************)
(* What a storage backend promises to the managers (TaskStoreProtocol in   *)
(* backend/app/storage/base.py), for one row of the task table and one     *)
(* user's history: an operation takes effect at most once, as a whole,     *)
(* and not after it returned; one that answers "yes" took effect; and no   *)
(* record that belongs to the newest ones ever leaves the history.         *)
(***************************************************************************)
EXTENDS FiniteSets, Integers

CONSTANTS
    Upsert,     \* calls of upsert_task for the row
    Entry,     \* calls of append_history, each the time of its record
    Keep,       \* max_records
    NoRow       \* the row before the first upsert

VARIABLES
    row,        \* the upsert whose payload the row holds
    started,    \* the upsert whose started_at it holds: the first one's
    history,    \* the records of the history
    asked,      \* operations that began and have neither taken effect nor ended
    done,       \* operations that took effect and have not ended
    yes         \* operations that answered that they took effect

rowsVars == <<row, started, history, asked, done, yes>>

Init ==
    /\ row = NoRow /\ started = NoRow /\ history = {}
    /\ asked = {} /\ done = {} /\ yes = {}

NewestOf(records) == {r \in records : Cardinality({x \in records : x > r}) < Keep}

Ask(o) ==
    /\ o \notin asked \cup done \cup yes
    /\ asked' = asked \cup {o}
    /\ UNCHANGED <<row, started, history, done, yes>>

Effect(o) ==
    /\ o \in asked
    /\ asked' = asked \ {o}
    /\ done' = done \cup {o}
    /\ UNCHANGED yes

Write(o) ==
    /\ Effect(o)
    /\ row' = o
    /\ started' = IF started = NoRow THEN o ELSE started
    /\ UNCHANGED history

\* Records beyond the newest ones may stay, the newest ones must.
Record(o) ==
    /\ Effect(o)
    /\ history' \subseteq history \cup {o}
    /\ NewestOf(history \cup {o}) \subseteq history'
    /\ UNCHANGED <<row, started>>

\* Operations end: with "yes", with "no", or because the process died.
End(Y, N) ==
    /\ Y \subseteq done /\ N \subseteq asked \cup done
    /\ asked' = asked \ N
    /\ done' = done \ (Y \cup N)
    /\ yes' = yes \cup Y
    /\ UNCHANGED <<row, started, history>>

Next ==
    \/ \E o \in Upsert \cup Entry : Ask(o)
    \/ \E o \in Upsert : Write(o)
    \/ \E o \in Entry : Record(o)
    \/ \E Y \in SUBSET done, N \in SUBSET (asked \cup done) : End(Y, N)

Spec == Init /\ [][Next]_rowsVars
=============================================================================
