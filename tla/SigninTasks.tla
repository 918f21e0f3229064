----------------------------- MODULE SigninTasks -----------------------------
(***************************************************************************)
(* The sign-in tasks of ChaoxingSigninManager in                           *)
(* backend/app/services/course/chaoxing/signin.py: admission, the worker,  *)
(* the rows in the task store, look-ups of evicted records, restarts, and  *)
(* the clients (one logged-in Chaoxing session per user) that workers and  *)
(* requests share.                                                         *)
(*                                                                         *)
(* A step is a section under the manager's lock, or one call of the store  *)
(* or of the platform.  The snapshots of a running task all say "running"; *)
(* those between its first and its last status are left out.               *)
(***************************************************************************)
EXTENDS Integers, FiniteSets

CONSTANTS
    Task,       \* every task of the run; an id (uuid4) is used once
    User,
    Account,    \* Chaoxing accounts that users log in with
    MaxActive,  \* MAX_ACTIVE_TASKS
    None        \* no user, no account

VARIABLES
    owner,      \* user of each task, None before it is started
    record,     \* status of each record of _tasks, "absent" if there is none
    row,        \* status of each row of the store, "none" if there is none
    worker,     \* where the request that starts the task, then its worker is
    account,    \* the Chaoxing account a task was started with
    outcome,    \* the status a task's last snapshots carry
    clients,    \* _clients: the account each user's client is logged in with
    relogin,    \* history: users who logged in beside a worker's login
    lookup      \* rows read by look-ups and not merged yet

taskState == <<owner, record, row, worker, account, outcome>>
clientState == <<clients, relogin>>
signinVars == <<taskState, clientState, lookup>>

Running == "running"
Final == {"completed", "error"}

Init ==
    /\ owner = [t \in Task |-> None]
    /\ record = [t \in Task |-> "absent"]
    /\ row = [t \in Task |-> "none"]
    /\ worker = [t \in Task |-> "none"]
    /\ account = [t \in Task |-> None]
    /\ outcome = [t \in Task |-> "completed"]
    /\ clients = [u \in User |-> None]
    /\ relogin = {}
    /\ lookup = {}

-----------------------------------------------------------------------------
(* Records and rows *)

\* Wrong on purpose: the clean-up looks at a record's age only.
EvictsAny(r) == {t \in Task : r[t] # "absent"}

\* cleanup_task_records: any record in a terminal status may be old enough or
\* the least recently used one of too many.
Evictable(r) == {t \in Task : r[t] \in Final}

Cleaned(r) ==
    {[t \in Task |-> IF t \in E THEN "absent" ELSE r[t]] : E \in SUBSET Evictable(r)}

\* _persist_task_state: the row becomes s, or the store fails, before or after.
Persisted(t, s) == {row, [row EXCEPT ![t] = s]}

Go(t, pc) == worker' = [worker EXCEPT ![t] = pc]

SetRecord(t, s) == record' = [record EXCEPT ![t] = s]

\* _update_task: only a record that is there is changed (and then persisted).
Update(t, s, next) ==
    IF record[t] = "absent"
    THEN Go(t, "ended") /\ UNCHANGED <<record, outcome>>
    ELSE Go(t, next) /\ SetRecord(t, s) /\ outcome' = [outcome EXCEPT ![t] = s]

ActiveOf(r, u) == {t \in Task : owner[t] = u /\ r[t] = Running}

-----------------------------------------------------------------------------
(* start_task *)

\* Under one lock: clean up, refuse a second task or one too many, insert,
\* clean up again.
Admit(t, u, a) ==
    /\ owner[t] = None
    /\ \E r \in Cleaned(record) :
        /\ ActiveOf(r, u) = {}
        /\ Cardinality({x \in Task : r[x] = Running}) < MaxActive
        /\ record' \in Cleaned([r EXCEPT ![t] = Running])
    /\ owner' = [owner EXCEPT ![t] = u]
    /\ account' = [account EXCEPT ![t] = a]
    /\ Go(t, "persist")
    /\ UNCHANGED <<row, outcome, clientState, lookup>>

\* The admission is persisted; without an answer that it was, it is taken back.
PersistAdmission(t) ==
    /\ worker[t] = "persist"
    /\ \/ row' = [row EXCEPT ![t] = Running] /\ Go(t, "spawn")
       \/ row' \in Persisted(t, Running) /\ Go(t, "takeback")
    /\ UNCHANGED <<owner, record, account, outcome, clientState, lookup>>

\* Wrong on purpose: the failed admission is only reported.
TakeBackNot(t) ==
    /\ worker[t] = "takeback"
    /\ Go(t, "ended")
    /\ UNCHANGED <<owner, record, row, account, outcome, clientState, lookup>>

\* _record_admission_persist_failure, up to the second attempt to persist.
TakeBack(t) ==
    /\ worker[t] = "takeback"
    /\ Update(t, "error", "lastWrite")
    /\ UNCHANGED <<owner, row, account, clientState, lookup>>

\* The worker's thread starts, or the system refuses it.
Spawn(t) ==
    /\ worker[t] = "spawn"
    /\ \/ Go(t, "login") /\ UNCHANGED <<record, outcome>>
       \/ Update(t, "error", "write")
    /\ UNCHANGED <<owner, row, account, clientState, lookup>>

-----------------------------------------------------------------------------
(* The worker: _run_task_worker and its guard *)

\* Wrong on purpose: a client that is there is used again.
LoginReuses(t) ==
    /\ worker[t] = "login"
    /\ \/ /\ clients' = [clients EXCEPT ![owner[t]] = IF @ = None THEN account[t] ELSE @]
          /\ relogin' = relogin \ {owner[t]}
          /\ Go(t, "client")
          /\ UNCHANGED <<record, outcome>>
       \/ /\ Update(t, "error", "write")
          /\ UNCHANGED <<clients, relogin>>
    /\ UNCHANGED <<owner, row, account, lookup>>

\* login(): a new client that logged in replaces the user's client.
LogIn(t) ==
    /\ worker[t] = "login"
    /\ \/ /\ clients' = [clients EXCEPT ![owner[t]] = account[t]]
          /\ relogin' = relogin \ {owner[t]}
          /\ Go(t, "client")
          /\ UNCHANGED <<record, outcome>>
       \/ /\ Update(t, "error", "write")
          /\ UNCHANGED <<clients, relogin>>
    /\ UNCHANGED <<owner, row, account, lookup>>

\* The worker reads the user's client back, in another critical section.
GetClient(t) ==
    /\ worker[t] = "client"
    /\ Go(t, "query")
    /\ UNCHANGED <<owner, record, row, account, outcome, clientState, lookup>>

\* The active tasks are fetched: some, none, or the query fails.
Query(t) ==
    /\ worker[t] = "query"
    /\ \/ Go(t, "sign") /\ UNCHANGED <<record, outcome>>
       \/ Update(t, "completed", "write")
       \/ Update(t, "error", "write")
    /\ UNCHANGED <<owner, row, account, clientState, lookup>>

\* The activities are signed one by one; the task completes if all of them
\* worked.  An exception is caught by the guard, which logs it, too.
Sign(t) ==
    /\ worker[t] = "sign"
    /\ \/ \E s \in Final : Update(t, s, "lastWrite")
       \/ Update(t, "error", "write")
    /\ UNCHANGED <<owner, row, account, clientState, lookup>>

\* The last status goes to the store; on most paths a log line follows, which
\* goes there again if the record is still there.
WriteStatus(t) ==
    /\ worker[t] \in {"write", "lastWrite"}
    /\ row' \in Persisted(t, outcome[t])
    /\ Go(t, IF worker[t] = "write" /\ record[t] # "absent" THEN "lastWrite" ELSE "ended")
    /\ UNCHANGED <<owner, record, account, outcome, clientState, lookup>>

-----------------------------------------------------------------------------
(* Requests *)

\* sign_once, sign_chat_once or the login request: the user logs in, too.
LogInBeside(u, a) ==
    /\ clients' = [clients EXCEPT ![u] = a]
    /\ relogin' = relogin \cup {u}
    /\ UNCHANGED <<taskState, lookup>>

\* get_task, get_task_logs, list_tasks: a record that is not in memory after
\* the clean-up is looked up in the store ...
ReadRow(t) ==
    /\ row[t] # "none"
    /\ ~\E l \in lookup : l.task = t
    /\ record' \in {r \in Cleaned(record) : r[t] = "absent"}
    /\ lookup' = lookup \cup {[task |-> t, status |-> row[t]]}
    /\ UNCHANGED <<owner, row, worker, account, outcome, clientState>>

\* ... and merged by _merge_task_from_store, unless it is there by now; a row
\* left running is taken for one that a restart interrupted.
Merge(l) ==
    /\ lookup' = lookup \ {l}
    /\ IF record[l.task] # "absent" THEN UNCHANGED <<record, row>>
       ELSE IF l.status = Running
       THEN SetRecord(l.task, "error") /\ row' \in Persisted(l.task, "error")
       ELSE SetRecord(l.task, l.status) /\ UNCHANGED row
    /\ UNCHANGED <<owner, worker, account, outcome, clientState>>

\* The service stops and starts again: _restore_tasks_from_store merges rows.
Restart ==
    /\ worker' = [t \in Task |-> IF worker[t] = "none" THEN "none" ELSE "ended"]
    /\ \E R \in SUBSET {t \in Task : row[t] # "none"} :
        /\ record' = [t \in Task |-> IF t \notin R THEN "absent"
                                     ELSE IF row[t] = Running THEN "error" ELSE row[t]]
        /\ \E W \in SUBSET {t \in R : row[t] = Running} :
            row' = [t \in Task |-> IF t \in W THEN "error" ELSE row[t]]
    /\ clients' = [u \in User |-> None]
    /\ lookup' = {}
    /\ UNCHANGED <<owner, account, outcome, relogin>>

-----------------------------------------------------------------------------
Step(t) ==
    \/ PersistAdmission(t) \/ TakeBack(t) \/ Spawn(t)
    \/ LogIn(t) \/ GetClient(t) \/ Query(t) \/ Sign(t) \/ WriteStatus(t)

Next ==
    \/ \E t \in Task, u \in User, a \in Account : Admit(t, u, a)
    \/ \E t \in Task : Step(t) \/ ReadRow(t)
    \/ \E u \in User, a \in Account : LogInBeside(u, a)
    \/ \E l \in lookup : Merge(l)
    \/ Restart

Spec == Init /\ [][Next]_signinVars

-----------------------------------------------------------------------------
(* Properties *)

AtWork == {"persist", "spawn", "takeback", "login", "client", "query", "sign"}

TypeOK ==
    /\ owner \in [Task -> User \cup {None}]
    /\ record \in [Task -> {"absent", Running} \cup Final]
    /\ row \in [Task -> {"none", Running} \cup Final]
    /\ worker \in [Task -> AtWork \cup {"none", "write", "lastWrite", "ended"}]
    /\ account \in [Task -> Account \cup {None}]
    /\ outcome \in [Task -> Final]
    /\ clients \in [User -> Account \cup {None}]
    /\ relogin \subseteq User
    /\ lookup \subseteq [task : Task, status : {Running} \cup Final]

\* A record says "running" exactly as long as its request or worker is at work
\* on it, whatever fails, is evicted, looked up or restarted: no task is stuck
\* in the active feed, where it would lock its user out, and no user ever has
\* two workers.
RunningIsWorkedOn ==
    /\ \A t \in Task : record[t] = Running <=> worker[t] \in AtWork
    /\ \A u \in User : Cardinality(ActiveOf(record, u)) <= 1

\* A worker signs with the account its task was given, unless the user logged
\* in otherwise since the worker's own login.
SignsAsAsked ==
    \A t \in Task : worker[t] = "client" =>
        clients[owner[t]] = account[t] \/ owner[t] \in relogin
=============================================================================
