---------------------------- MODULE PostgresStore ----------------------------
(***************************************************************************)
(* The PostgreSQL backend of the server: _PostgresTaskStore in             *)
(* backend/app/storage/postgres.py on the sessions of the main database    *)
(* (get_db_session in backend/app/db/session.py).  Every call has its own  *)
(* connection and transaction, and the database serves them at once.       *)
(*                                                                         *)
(* Every call is a thread of its own here and runs once, for one row of    *)
(* the task table and one user's history.                                  *)
(***************************************************************************)
EXTENDS Integers, FiniteSets

CONSTANTS
    Upsert,     \* calls of upsert_task, one payload each
    Entry,     \* calls of append_history, each the time of its record
    Look,       \* calls of get_task, list_tasks, list_history and ping
    Keep,       \* max_records
    MaxConn,    \* connections of the main pool, 30
    NoRow,      \* no upsert
    Nobody      \* holds a free lock

VARIABLES
    table,      \* what is committed
    cut,        \* the rows each append's DELETE removes
    ready,      \* _initialized
    holder,     \* who holds _init_lock
    pool,       \* main_pool was built
    inUse,      \* its connections that are out
    at          \* where each call is

storeVars == <<table, cut, ready, holder, pool, inUse, at>>

Call == Upsert \cup Entry \cup Look

Init ==
    /\ table = [row |-> NoRow, started |-> NoRow, history |-> {}]
    /\ cut = [a \in Entry |-> {}]
    /\ ready = FALSE /\ holder = Nobody
    /\ pool = FALSE /\ inUse = 0
    /\ at = [c \in Call |-> "new"]

Go(c, place) == at' = [at EXCEPT ![c] = place]

-----------------------------------------------------------------------------
(* ensure_tables *)

\* ping() does without the tables.
Begin(c) ==
    /\ at[c] = "new"
    /\ \/ (ready \/ c \in Look) /\ Go(c, "connect")
       \/ ~ready /\ Go(c, "ensure")
    /\ UNCHANGED <<table, cut, ready, holder, pool, inUse>>

Ensure(c) ==
    /\ at[c] = "ensure" /\ holder = Nobody
    /\ \/ ready /\ Go(c, "connect") /\ UNCHANGED holder
       \/ ~ready /\ Go(c, "create") /\ holder' = c
    /\ UNCHANGED <<table, cut, ready, pool, inUse>>

Unlock(c) == holder' = IF holder = c THEN Nobody ELSE holder

\* _checkout: the pool is built by the first who needs it, if the database
\* answers; getconn raises at the limit; a connection the server closed is put
\* back and another one taken, which may fail as well.
Checkout(c) ==
    /\ at[c] \in {"create", "connect"}
    /\ \/ /\ inUse < MaxConn
          /\ pool' = TRUE /\ inUse' = inUse + 1
          /\ Go(c, IF at[c] = "create" THEN "ddl" ELSE "execute")
          /\ UNCHANGED holder
       \/ /\ pool' \in {pool, TRUE}
          /\ Go(c, "no") /\ Unlock(c)
          /\ UNCHANGED inUse
    /\ UNCHANGED <<table, cut, ready>>

\* The session of ensure_tables commits and ends before _initialized is set.
CreateTables(c) ==
    /\ at[c] = "ddl"
    /\ inUse' = inUse - 1
    /\ Unlock(c)
    /\ \/ ready' = TRUE /\ Go(c, "connect")
       \/ UNCHANGED ready /\ Go(c, "no")
    /\ UNCHANGED <<table, cut, pool>>

-----------------------------------------------------------------------------
(* The statements of a call *)

\* Wrong on purpose: the oldest rows survive.
OldestOf(records) == {r \in records : Cardinality({x \in records : x < r}) < Keep}

NewestOf(records) == {r \in records : Cardinality({x \in records : x > r}) < Keep}

\* The upsert waits while another one's row is not committed.
WriteRow(c) ==
    /\ at[c] = "execute" /\ c \in Upsert
    /\ ~\E u \in Upsert : at[u] = "commit"
    /\ Go(c, "commit")
    /\ UNCHANGED <<table, cut, ready, holder, pool, inUse>>

\* INSERT, then a DELETE that sees the committed rows and its own.
Insert(c) ==
    /\ at[c] = "execute" /\ c \in Entry
    /\ Go(c, "trim")
    /\ UNCHANGED <<table, cut, ready, holder, pool, inUse>>

Trim(c) ==
    /\ at[c] = "trim"
    /\ LET seen == table.history \cup {c} IN
        cut' = [cut EXCEPT ![c] = seen \ NewestOf(seen)]
    /\ Go(c, "commit")
    /\ UNCHANGED <<table, ready, holder, pool, inUse>>

Read(c) ==
    /\ at[c] = "execute" /\ c \in Look
    /\ Go(c, "failed")
    /\ UNCHANGED <<table, cut, ready, holder, pool, inUse>>

Applied(c) ==
    IF c \in Upsert
    THEN [table EXCEPT !.row = c, !.started = IF @ = NoRow THEN c ELSE @]
    ELSE [table EXCEPT !.history = (@ \cup {c}) \ cut[c]]

\* The commit takes effect, and its answer arrives or is lost.
Commit(c) ==
    /\ at[c] = "commit"
    /\ table' = Applied(c)
    /\ Go(c, "committed") \/ Go(c, "unanswered")
    /\ UNCHANGED <<cut, ready, holder, pool, inUse>>

\* A statement or the commit fails and is rolled back.
Fail(c) ==
    /\ at[c] \in {"execute", "trim", "commit"}
    /\ Go(c, "failed")
    /\ UNCHANGED <<table, cut, ready, holder, pool, inUse>>

\* Wrong on purpose: the connection of a failed call is not put back.
ReleaseGood(c) ==
    /\ at[c] \in {"committed", "unanswered", "failed"}
    /\ inUse' = IF at[c] = "committed" THEN inUse - 1 ELSE inUse
    /\ Go(c, IF at[c] = "committed" THEN "yes" ELSE "no")
    /\ UNCHANGED <<table, cut, ready, holder, pool>>

\* putconn, with close=True after an error of the connection; then the answer.
Release(c) ==
    /\ at[c] \in {"committed", "unanswered", "failed"}
    /\ inUse' = inUse - 1
    /\ Go(c, IF at[c] = "committed" THEN "yes" ELSE "no")
    /\ UNCHANGED <<table, cut, ready, holder, pool>>

\* The server process dies and starts again; the database rolls back.
Crash ==
    /\ at' = [c \in Call |-> IF at[c] \in {"new", "yes"} THEN at[c] ELSE "no"]
    /\ ready' = FALSE /\ holder' = Nobody
    /\ pool' = FALSE /\ inUse' = 0
    /\ UNCHANGED <<table, cut>>

-----------------------------------------------------------------------------
Step(c) ==
    \/ Begin(c) \/ Ensure(c) \/ Checkout(c) \/ CreateTables(c)
    \/ WriteRow(c) \/ Insert(c) \/ Trim(c) \/ Read(c) \/ Commit(c) \/ Fail(c)
    \/ Release(c)

Next == (\E c \in Call : Step(c)) \/ Crash

Fairness == \A c \in Call : WF_storeVars(at[c] # "new" /\ Step(c))

Spec == Init /\ [][Next]_storeVars

-----------------------------------------------------------------------------
(* Properties *)

Connected == {"ddl", "execute", "trim", "commit", "committed", "unanswered", "failed"}

TypeOK ==
    /\ table \in [row : Upsert \cup {NoRow}, started : Upsert \cup {NoRow}, history : SUBSET Entry]
    /\ cut \in [Entry -> SUBSET Entry]
    /\ {ready, pool} \subseteq BOOLEAN
    /\ holder \in Call \cup {Nobody}
    /\ inUse \in 0 .. MaxConn
    /\ at \in [Call -> Connected \cup {"new", "ensure", "create", "connect", "yes", "no"}]

\* The pool never runs dry for good: a connection is out exactly while a call
\* is between its checkout and its release, on every path of failure.
ConnectionsReturn == inUse = Cardinality({c \in Call : at[c] \in Connected})

\* The calls the promise is about, seen from TaskRows.
Promise == INSTANCE TaskRows WITH
    row <- table.row, started <- table.started, history <- table.history,
    asked <- {c \in Upsert \cup Entry :
                at[c] \notin {"new", "yes", "no", "committed", "unanswered"}},
    done <- {c \in Upsert \cup Entry : at[c] \in {"committed", "unanswered"}},
    yes <- {c \in Upsert \cup Entry : at[c] = "yes"}

\* The store keeps the promise of TaskRows though transactions run side by
\* side, statements and commits fail, and answers are lost.
KeepsRows == Promise!Spec

\* Every call ends: neither the init lock nor the pool nor a row that another
\* transaction wrote is waited for in vain.
CallsEnd == \A c \in Call : at[c] # "new" ~> at[c] \in {"yes", "no"}
=============================================================================
