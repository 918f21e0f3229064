---------------------------- MODULE Registration ----------------------------
(***************************************************************************)
(* Registration of accounts, AuthService.register_user in                  *)
(* backend/app/services/auth_service.py: insert the user's row in the main *)
(* database, then create the user's own database from the template; when   *)
(* that fails, delete the row and drop the database.                       *)
(*                                                                         *)
(* Every statement is a step of its own (each runs on its own autocommit   *)
(* connection or transaction), requests interleave, a statement may fail   *)
(* before or after it took effect, and the server may stop at any moment.  *)
(***************************************************************************)
EXTENDS Naturals

CONSTANTS
    Request,    \* registration requests; each has its own user id
    Name,       \* usernames
    MaxRetries, \* retries of a request: len(_TEMPLATE_BUSY_BACKOFF), and one
                \* after the missing template was rebuilt
    None        \* no user, no database

ASSUME NoneAssumption == None \notin Request
ASSUME RetriesAssumption == MaxRetries \in Nat

VARIABLES
    row,        \* users: the user that has the name, or None
    db,         \* the request that created tenant_<name>, or None
    pc,         \* where each request is
    name,       \* the name it registers
    retries,    \* retries used up
    unclean     \* requests whose clean-up failed or was cut off

vars == <<row, db, pc, name, retries, unclean>>

Init ==
    /\ row = [n \in Name |-> None] /\ db = [n \in Name |-> None]
    /\ pc = [r \in Request |-> "insert"]
    /\ name \in [Request -> Name]
    /\ retries = [r \in Request |-> 0]
    /\ unclean = {}

Go(r, next) == pc' = [pc EXCEPT ![r] = next]

Own(r, table) == table[name[r]] = r

-----------------------------------------------------------------------------
(* _insert_user_row *)

\* Wrong on purpose: nothing makes the name unique.
InsertAnyway(r) ==
    /\ pc[r] = "insert"
    /\ row' = [row EXCEPT ![name[r]] = r]
    /\ Go(r, "create")
    /\ UNCHANGED <<db, name, retries, unclean>>

\* The UNIQUE constraint lets one user have the name.
Insert(r) ==
    /\ pc[r] = "insert"
    /\ row[name[r]] = None
    /\ row' = [row EXCEPT ![name[r]] = r]
    /\ Go(r, "create")
    /\ UNCHANGED <<db, name, retries, unclean>>

\* The name is taken, or the statement fails: the request is over.
InsertRefused(r) ==
    /\ pc[r] = "insert"
    /\ Go(r, "failed")
    /\ UNCHANGED <<row, db, name, retries, unclean>>

\* The commit takes effect and its answer is lost: the request fails and
\* nobody deletes the row.
InsertUnanswered(r) ==
    /\ pc[r] = "insert"
    /\ row[name[r]] = None
    /\ row' = [row EXCEPT ![name[r]] = r]
    /\ Go(r, "failed")
    /\ unclean' = unclean \cup {r}
    /\ UNCHANGED <<db, name, retries>>

-----------------------------------------------------------------------------
(* _create_tenant_database *)

\* CREATE DATABASE; "again" after the database in the way was dropped.
Create(r) ==
    /\ pc[r] \in {"create", "again"}
    /\ db[name[r]] = None
    /\ db' = [db EXCEPT ![name[r]] = r]
    /\ \/ Go(r, "done")
       \/ Go(r, "undo_row")     \* the answer is lost
    /\ UNCHANGED <<row, name, retries, unclean>>

\* DuplicateDatabase: an orphan is assumed the first time, the second time
\* the error escapes.
CreateDuplicate(r) ==
    /\ pc[r] \in {"create", "again"}
    /\ db[name[r]] # None
    /\ Go(r, IF pc[r] = "create" THEN "drop_orphan" ELSE "undo_row")
    /\ UNCHANGED <<row, db, name, retries, unclean>>

DropOrphan(r) ==
    /\ pc[r] = "drop_orphan"
    /\ db' = [db EXCEPT ![name[r]] = None]
    /\ Go(r, "again")
    /\ UNCHANGED <<row, name, retries, unclean>>

\* ObjectInUse: the template, or the database to drop, has sessions; start over
\* while the backoff lasts.  The same once for a missing template that
\* _heal_missing_template rebuilds.
TryLater(r) ==
    /\ pc[r] \in {"create", "drop_orphan", "again"}
    /\ retries[r] < MaxRetries
    /\ retries' = [retries EXCEPT ![r] = @ + 1]
    /\ Go(r, "create")
    /\ UNCHANGED <<row, db, name, unclean>>

\* Any other error, or no backoff left.
CreateFails(r) ==
    /\ pc[r] \in {"create", "drop_orphan", "again"}
    /\ Go(r, "undo_row")
    /\ UNCHANGED <<row, db, name, retries, unclean>>

-----------------------------------------------------------------------------
(* The except clause of register_user *)

\* Wrong on purpose: the row is deleted and the request is over.
UndoRowOnly(r) ==
    /\ pc[r] = "undo_row"
    /\ row' = [n \in Name |-> IF row[n] = r THEN None ELSE row[n]]
    /\ Go(r, "failed")
    /\ UNCHANGED <<db, name, retries, unclean>>

\* _rollback_user_row deletes by user id; an error is logged.
UndoRow(r) ==
    /\ pc[r] = "undo_row"
    /\ \/ /\ row' = [n \in Name |-> IF row[n] = r THEN None ELSE row[n]]
          /\ UNCHANGED unclean
       \/ /\ unclean' = unclean \cup {r}
          /\ UNCHANGED row
    /\ Go(r, "undo_db")
    /\ UNCHANGED <<db, name, retries>>

\* _drop_tenant_database drops by name; an error is logged.
UndoDb(r) ==
    /\ pc[r] = "undo_db"
    /\ \/ /\ db' = [db EXCEPT ![name[r]] = None]
          /\ UNCHANGED unclean
       \/ /\ unclean' = unclean \cup {r}
          /\ UNCHANGED db
    /\ Go(r, "failed")
    /\ UNCHANGED <<row, name, retries>>

-----------------------------------------------------------------------------
Over(r) == pc[r] \in {"done", "failed"}

\* The server stops: the requests under way end where they are.
Crash ==
    /\ \E r \in Request : ~Over(r)
    /\ pc' = [r \in Request |-> IF Over(r) THEN pc[r] ELSE "failed"]
    /\ unclean' = unclean \cup {r \in Request : ~Over(r)}
    /\ UNCHANGED <<row, db, name, retries>>

Step(r) ==
    \/ Insert(r) \/ InsertRefused(r) \/ InsertUnanswered(r)
    \/ Create(r) \/ CreateDuplicate(r) \/ DropOrphan(r) \/ TryLater(r) \/ CreateFails(r)
    \/ UndoRow(r) \/ UndoDb(r)

Next == (\E r \in Request : Step(r)) \/ Crash

Spec == Init /\ [][Next]_vars

-----------------------------------------------------------------------------
(* Properties *)

Creating == {"create", "drop_orphan", "again"}

TypeOK ==
    /\ row \in [Name -> Request \cup {None}] /\ db \in [Name -> Request \cup {None}]
    /\ pc \in [Request -> Creating \cup {"insert", "undo_row", "undo_db", "done", "failed"}]
    /\ name \in [Request -> Name]
    /\ retries \in [Request -> 0 .. MaxRetries]
    /\ unclean \in SUBSET Request

\* A database that a registration drops to make room belongs to no account
\* that was handed out (docstring of _create_tenant_database: it "is
\* necessarily an orphan").
OnlyOrphansDropped ==
    \A r \in Request : pc[r] = "drop_orphan" =>
        \A u \in Request : pc[u] = "done" => name[u] # name[r]

\* A name belongs to at most one account that was handed out, and its row
\* stays, whatever other registrations of the name fail, clean up or crash.
AccountKept == \A r \in Request : pc[r] = "done" => Own(r, row)

\* A registration that failed and could clean up left neither a row nor a
\* database of its own behind (comment in register_user).
FailureLeavesNothing ==
    \A r \in Request : pc[r] = "failed" /\ r \notin unclean => ~Own(r, row) /\ ~Own(r, db)

\* A registration answers with an account that lasts, or with nothing.
RegistrationSound == AccountKept /\ FailureLeavesNothing

\* Everyone who has an account has a database of their own
\* (docs/ARCHITECTURE.md: one database per user).
AccountHasDatabase == \A r \in Request : pc[r] = "done" => Own(r, db)
=============================================================================
