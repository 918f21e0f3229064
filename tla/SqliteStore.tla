----------------------------- MODULE SqliteStore -----------------------------
(***************************************************************************)
(* The SQLite backend of the desktop application: _SqliteTaskStore in      *)
(* backend/app/storage/sqlite.py.  All threads share one connection, so a  *)
(* statement of one would join the transaction of another if the locks     *)
(* did not keep them apart.                                                *)
(*                                                                         *)
(* Every call of the store is a thread of its own here and runs once, for  *)
(* one row of the task table and one user's history.                       *)
(***************************************************************************)
EXTENDS Integers, FiniteSets

CONSTANTS
    Upsert,     \* calls of upsert_task, one payload each
    Entry,     \* calls of append_history, each the time of its record
    Look,       \* calls of get_task, list_tasks, list_history and ping
    Close,      \* calls of close()
    Keep,       \* max_records
    NoRow,      \* no upsert
    Nobody      \* holds a free lock

VARIABLES
    db,         \* what the file holds, as of the last commit
    conn,       \* what the connection's transaction sees
    usable,     \* _usable
    initialized,\* _initialized
    closed,     \* the connection is closed
    initLock, writeLock,    \* who holds _init_lock and _write_lock
    stage          \* where each call is

storeVars == <<db, conn, usable, initialized, closed, initLock, writeLock, stage>>

Call == Upsert \cup Entry \cup Look \cup Close

Init ==
    /\ db = [row |-> NoRow, started |-> NoRow, history |-> {}, tables |-> FALSE]
    /\ conn = db
    /\ usable = TRUE /\ initialized = FALSE /\ closed = FALSE
    /\ initLock = Nobody /\ writeLock = Nobody
    /\ stage = [c \in Call |-> "new"]

Go(c, place) == stage' = [stage EXCEPT ![c] = place]

connection == <<db, conn, closed>>
flags == <<usable, initialized>>
locks == <<initLock, writeLock>>

-----------------------------------------------------------------------------
(* Entry and ensure_tables *)

\* The first test of a call, without a lock; ping() and close() go on to the
\* lock, the others to ensure_tables, which is through if it ran before.
Begin(c) ==
    /\ stage[c] = "new"
    /\ \/ ~usable /\ c \notin Close /\ Go(c, "no")
       \/ usable /\ ~initialized /\ c \notin Close /\ Go(c, "ensure")
       \/ usable /\ (initialized \/ c \in Look) /\ Go(c, "lock")
       \/ c \in Close /\ Go(c, "lock")
    /\ UNCHANGED <<connection, flags, locks>>

\* The tests are made again under _init_lock ...
Ensure(c) ==
    /\ stage[c] = "ensure" /\ initLock = Nobody
    /\ \/ ~usable /\ Go(c, "no") /\ UNCHANGED initLock
       \/ usable /\ initialized /\ Go(c, "lock") /\ UNCHANGED initLock
       \/ usable /\ ~initialized /\ Go(c, "create") /\ initLock' = c
    /\ UNCHANGED <<connection, flags, writeLock>>

\* ... and under _write_lock.
LockToCreate(c) ==
    /\ stage[c] = "create" /\ writeLock = Nobody
    /\ \/ ~usable /\ Go(c, "no") /\ initLock' = Nobody /\ UNCHANGED writeLock
       \/ usable /\ Go(c, "ddl") /\ writeLock' = c /\ UNCHANGED initLock
    /\ UNCHANGED <<connection, flags>>

\* CREATE TABLE and CREATE INDEX IF NOT EXISTS, each committed on its own.
CreateTables(c) ==
    /\ stage[c] = "ddl"
    /\ \/ /\ db' = [db EXCEPT !.tables = TRUE]
          /\ conn' = [conn EXCEPT !.tables = TRUE]
          /\ initialized' = TRUE
          /\ Go(c, "lock") /\ initLock' = Nobody /\ writeLock' = Nobody
       \/ /\ Go(c, "rollback")
          /\ UNCHANGED <<db, conn, initialized, locks>>
    /\ UNCHANGED <<closed, usable>>

-----------------------------------------------------------------------------
(* Under _write_lock *)

\* Wrong on purpose: the test made before the lock is relied on.
LockUntested(c) ==
    /\ stage[c] = "lock" /\ writeLock = Nobody
    /\ Go(c, "statement") /\ writeLock' = c
    /\ UNCHANGED <<connection, flags, initLock>>

Lock(c) ==
    /\ stage[c] = "lock" /\ writeLock = Nobody
    /\ \/ ~usable /\ c \notin Close /\ Go(c, "no") /\ UNCHANGED writeLock
       \/ (usable \/ c \in Close) /\ Go(c, "statement") /\ writeLock' = c
    /\ UNCHANGED <<connection, flags, initLock>>

NewestOf(records) == {r \in records : Cardinality({x \in records : x > r}) < Keep}

\* INSERT ... ON CONFLICT DO UPDATE keeps the first started_at; the INSERT of a
\* record is followed by the DELETE of all but the newest.
Statement(c) ==
    /\ stage[c] = "statement"
    /\ \/ /\ c \in Upsert
          /\ conn' = [conn EXCEPT !.row = c, !.started = IF @ = NoRow THEN c ELSE @]
          /\ Go(c, "commit")
       \/ c \in Entry /\ conn' = [conn EXCEPT !.history = @ \cup {c}] /\ Go(c, "trim")
       \/ c \in Upsert \cup Entry /\ Go(c, "rollback") /\ UNCHANGED conn
    /\ UNCHANGED <<db, closed, flags, locks>>

Trim(c) ==
    /\ stage[c] = "trim"
    /\ \/ conn' = [conn EXCEPT !.history = NewestOf(@)] /\ Go(c, "commit")
       \/ Go(c, "rollback") /\ UNCHANGED conn
    /\ UNCHANGED <<db, closed, flags, locks>>

Commit(c) ==
    /\ stage[c] = "commit"
    /\ \/ db' = conn /\ Go(c, "committed")
       \/ Go(c, "rollback") /\ UNCHANGED db
    /\ UNCHANGED <<conn, closed, flags, locks>>

\* Wrong on purpose: the lock taken first stays taken.
ReleaseOne(c) == writeLock' = Nobody /\ UNCHANGED initLock

Release(c) ==
    /\ writeLock' = Nobody
    /\ initLock' = IF initLock = c THEN Nobody ELSE initLock

Leave(c) ==
    /\ stage[c] = "committed"
    /\ Go(c, "yes") /\ Release(c)
    /\ UNCHANGED <<connection, flags>>

\* A read or a probe: one statement, no transaction.
Read(c) ==
    /\ stage[c] = "statement" /\ c \in Look
    /\ Go(c, "no") /\ Release(c)
    /\ UNCHANGED <<connection, flags>>

\* _close_connection_locked; closing drops an open transaction.
CloseConnection ==
    /\ usable' = FALSE /\ initialized' = FALSE /\ closed' = TRUE
    /\ conn' = db
    /\ UNCHANGED db

\* Wrong on purpose: a rollback that failed leaves the connection in use.
RollbackHopes(c) ==
    /\ stage[c] = "rollback"
    /\ conn' \in {db, conn}
    /\ Go(c, "no") /\ Release(c)
    /\ UNCHANGED <<db, closed, flags>>

\* _rollback_locked: a rollback that fails ends the use of the connection.
Rollback(c) ==
    /\ stage[c] = "rollback"
    /\ \/ conn' = db /\ UNCHANGED <<db, closed, flags>>
       \/ CloseConnection
    /\ Go(c, "no") /\ Release(c)

CloseStore(c) ==
    /\ stage[c] = "statement" /\ c \in Close
    /\ CloseConnection
    /\ Go(c, "no") /\ Release(c)

\* The application is killed, and started again on the same file.
Crash ==
    /\ conn' = db
    /\ usable' = TRUE /\ initialized' = FALSE /\ closed' = FALSE
    /\ initLock' = Nobody /\ writeLock' = Nobody
    /\ stage' = [c \in Call |-> IF stage[c] \in {"new", "yes"} THEN stage[c] ELSE "no"]
    /\ UNCHANGED db

-----------------------------------------------------------------------------
Step(c) ==
    \/ Begin(c) \/ Ensure(c) \/ LockToCreate(c) \/ CreateTables(c)
    \/ Lock(c) \/ Statement(c) \/ Trim(c) \/ Commit(c) \/ Leave(c)
    \/ Read(c) \/ Rollback(c) \/ CloseStore(c)

Next == (\E c \in Call : Step(c)) \/ Crash

Fairness == \A c \in Call : WF_storeVars(stage[c] # "new" /\ Step(c))

Spec == Init /\ [][Next]_storeVars

-----------------------------------------------------------------------------
(* Properties *)

TypeOK ==
    /\ {db, conn} \subseteq [row : Upsert \cup {NoRow}, started : Upsert \cup {NoRow},
                             history : SUBSET Entry, tables : BOOLEAN]
    /\ {usable, initialized, closed} \subseteq BOOLEAN
    /\ {initLock, writeLock} \subseteq Call \cup {Nobody}
    /\ stage \in [Call -> {"new", "ensure", "create", "ddl", "lock", "statement", "trim",
                        "commit", "committed", "rollback", "yes", "no"}]

Holding == {c \in Call : stage[c] \in {"ddl", "statement", "trim", "commit", "committed", "rollback"}}

\* No statement runs on a closed connection or before the tables are there,
\* whoever closes the store, however a rollback fails; a read sees committed
\* rows only; and the open transaction is the work of the one call that holds
\* the lock, so a commit never makes a failed call's work durable.
OneTransaction ==
    /\ \A c \in Holding : writeLock = c /\ (c \notin Close => ~closed)
    /\ \A c \in Upsert \cup Entry : stage[c] \in {"trim", "commit"} => db.tables
    /\ conn # db => \E c \in Upsert \cup Entry : stage[c] \in {"trim", "commit", "rollback"}

\* The calls the promise is about, seen from TaskRows.
Ended == {"new", "yes", "no"}
Promise == INSTANCE TaskRows WITH
    row <- db.row, started <- db.started, history <- db.history,
    asked <- {c \in Upsert \cup Entry : stage[c] \notin Ended \cup {"committed"}},
    done <- {c \in Upsert \cup Entry : stage[c] = "committed"},
    yes <- {c \in Upsert \cup Entry : stage[c] = "yes"}

\* The store keeps the promise of TaskRows, through failed statements, commits
\* and rollbacks, close() and crashes.
KeepsRows == Promise!Spec

\* Every call of the store ends: no order of the two locks, no failure and no
\* close() leaves one waiting.
CallsEnd == \A c \in Call : stage[c] # "new" ~> stage[c] \in {"yes", "no"}
=============================================================================
